-------------------------- MODULE EchoServersProofs --------------------------
(***************************************************************************)
(* What the echo servers of EchoServers owe to a client that keeps to the  *)
(* rules, for any number of clients and lines and for every kind of server *)
(* at once.                                                                *)
(*                                                                         *)
(* The argument follows one conversation: between two lines nothing is on  *)
(* the way and the connection stands; while the client waits, either its   *)
(* line is whole and unread or its answer is on the way, and the server    *)
(* has let go of the client exactly if that line was "quit".  A step for   *)
(* another client leaves this alone, because the only steps that reach     *)
(* further are the end of a server (which such clients never cause) and    *)
(* the lines of the console.                                               *)
(***************************************************************************)
EXTENDS EchoServers, FiniteSetTheorems, WellFoundedInduction, TLAPS

-----------------------------------------------------------------------------
(* The inductive invariant *)

Typed ==
    /\ kind \in Kinds /\ up \in BOOLEAN /\ boots \in 0 .. MaxBoots
    /\ cpc \in [Clients -> {"start", "type", "wait", "gone"}]
    /\ wbuf \in [Clients -> Lines]
    /\ typed \in [Clients -> 0 .. MaxLines]
    /\ got \in [Clients -> Nat] /\ out \in [Clients -> Nat]
    /\ in \in [Clients -> Seq({"x", "qu", "it"})]
    /\ link \in [Clients -> {"up", "fin", "late", "reset"}]
    /\ queue \in Seq(Clients)
    /\ srv \in [Clients -> {"none", "queued", "open", "closed"}]
    /\ lingering \subseteq Clients
    /\ fresh \subseteq Clients
    /\ console \in 0 .. MaxConsole
    /\ chain \in Seq(Clients)
    /\ ps \in [Clients -> {"none", "forked", "serve", "zombie", "gone"}]
    /\ heir \subseteq Clients
    /\ clean \in BOOLEAN

\* What is reported is open, and nothing is reported where nobody asks; a line
\* of the console is reported while there is one.
Reports ==
    /\ ready \subseteq OpenConns \union {"listener", "stdin"}
    /\ kind \notin Events => ready = {}
    /\ "stdin" \in ready => console < MaxConsole

\* Nobody is in the backlog twice, or after it was accepted.
Backlog ==
    /\ \A i \in DOMAIN queue : srv[queue[i]] = "queued" /\ ps[queue[i]] = "none"
    /\ \A i, j \in DOMAIN queue : queue[i] = queue[j] => i = j

\* Only the server with processes has processes.
Forks ==
    /\ kind # "fork" => heir = {} /\ \A c \in Clients : ps[c] = "none"
    /\ \A c \in heir : srv[c] = "open"

\* A client that keeps to the rules, or whose server does not mind.
Calm(c) == clean \/ (kind = "fork" /\ c \notin Polling)

\* The server has let go of the client.
Dismissed(c) == srv[c] = "closed" \/ ps[c] \in {"zombie", "gone"}

\* Nothing is on the way.
Bare(c) == in[c] = <<>> /\ out[c] = 0

\* The line is whole and unread; an empty line was not sent at all; the line
\* has been answered.
Asked(c) ==
    /\ wbuf[c] # Empty /\ in[c] = wbuf[c] /\ Len(wbuf[c]) <= Room
    /\ out[c] = 0 /\ typed[c] = got[c] + 1 /\ ~Dismissed(c)
Ignored(c) == wbuf[c] = Empty /\ Bare(c) /\ typed[c] = got[c] /\ ~Dismissed(c)
Told(c) ==
    /\ wbuf[c] # Empty /\ in[c] = <<>> /\ out[c] = 1
    /\ typed[c] = got[c] + 1 /\ (Dismissed(c) <=> wbuf[c] = Quit)

Talk(c) ==
    /\ cpc[c] = "type" => Bare(c) /\ typed[c] = got[c] /\ link[c] = "up" /\ ~Dismissed(c)
    /\ cpc[c] = "wait" => link[c] = "up" /\ (Asked(c) \/ Ignored(c) \/ Told(c))
    /\ cpc[c] = "gone" /\ clean =>
          Bare(c) /\ typed[c] = got[c] /\ link[c] = "fin" /\ Dismissed(c) /\ wbuf[c] = Quit

Served(c) == kind # "hangup" /\ (kind \in Single => srv[c] # "closed") /\ Calm(c)

New(c) ==
    /\ srv[c] = "none" /\ ps[c] = "none"
    /\ Bare(c) /\ typed[c] = 0 /\ got[c] = 0 /\ link[c] = "up"

Conversation(c) == (cpc[c] = "start" => New(c)) /\ (Served(c) => Talk(c))

IInv == Typed /\ Reports /\ Backlog /\ Forks /\ \A c \in Clients : Conversation(c)

-----------------------------------------------------------------------------
(* Lines and buffers *)

\* The four lines differ in their lengths or in their letters.
LEMMA LineFacts ==
    /\ Len(Short) = 1 /\ Len(Long) = 3 /\ Len(Quit) = 2 /\ Len(Empty) = 0
    /\ Lines \subseteq Seq({"x", "qu", "it"})
    /\ Empty = <<>> /\ \A line \in Lines : line # Empty => line # <<>>
  BY DEF Short, Long, Quit, Empty, Lines

\* What fits the buffer is received whole (recv with room for all of it).
LEMMA WholeReceived ==
    ASSUME NEW S, NEW s \in Seq(S), NEW r \in Nat, Len(s) <= r
    PROVE  /\ SubSeq(s, 1, Min({r, Len(s)})) = s
           /\ SubSeq(s, Min({r, Len(s)}) + 1, Len(s)) = <<>>
<1>1. Min({r, Len(s)}) = Len(s)
  <2>1. Len(s) \in Nat
    OBVIOUS
  <2>2. \A y \in {r, Len(s)} : Len(s) <= y
    BY <2>1
  <2>3. \A x \in {r, Len(s)} : (\A y \in {r, Len(s)} : x <= y) => x = Len(s)
    BY <2>1
  <2> QED
    BY <2>2, <2>3 DEF Min
<1>2. SubSeq(s, 1, Len(s)) = s /\ SubSeq(s, Len(s) + 1, Len(s)) = <<>>
  OBVIOUS
<1> QED
  BY <1>1, <1>2

\* The room of a buffer does not change.
LEMMA RoomIsNat ==
    Room \in Nat /\ (kind' = kind => Room' = Room) /\ (kind = "fork" => Room = MaxLines * 3)
  BY EchoAssumption, LineFacts DEF Room, Small, Edge

-----------------------------------------------------------------------------
(* Types *)

\* Whoever is accepted is a client, and the backlog is one without its head.
LEMMA HeadFacts ==
    ASSUME queue \in Seq(Clients), queue # <<>>
    PROVE  Head(queue) \in Clients /\ Tail(queue) \in Seq(Clients)
  OBVIOUS

\* What follows the head has moved up by one.
LEMMA TailFacts ==
    ASSUME queue \in Seq(Clients), queue # <<>>
    PROVE  /\ 1 \in DOMAIN queue /\ Head(queue) = queue[1]
           /\ \A i \in DOMAIN Tail(queue) : i + 1 \in DOMAIN queue /\ Tail(queue)[i] = queue[i + 1] /\ i \in Nat /\ i # 0
  OBVIOUS

\* What is left of a sequence is one.
LEMMA RestTyped ==
    ASSUME Typed, NEW c \in Clients
    PROVE  Rest(c) \in Seq({"x", "qu", "it"})
<1>1. PICK n : n = Min({Room, Len(in[c])})
  OBVIOUS
<1>2. in[c] \in Seq({"x", "qu", "it"}) /\ Len(in[c]) \in Nat /\ Room \in Nat
  BY RoomIsNat DEF Typed
<1>3. n \in Nat
  <2>1. Room <= Len(in[c]) => (Room \in {Room, Len(in[c])} /\ \A y \in {Room, Len(in[c])} : Room <= y)
    BY <1>2
  <2>2. ~(Room <= Len(in[c])) => (Len(in[c]) \in {Room, Len(in[c])} /\ \A y \in {Room, Len(in[c])} : Len(in[c]) <= y)
    BY <1>2
  <2>3. n \in {Room, Len(in[c])}
    BY <2>1, <2>2, <1>1 DEF Min
  <2> QED
    BY <2>3, <1>2
<1>4. SubSeq(in[c], n + 1, Len(in[c])) \in Seq({"x", "qu", "it"})
  BY <1>2, <1>3
<1> QED
  BY <1>1, <1>4 DEF Rest

\* The end of a server process leaves the types alone.
LEMMA EndsTyped ==
    ASSUME Typed, Ends
    PROVE  /\ up' \in BOOLEAN /\ queue' \in Seq(Clients) /\ lingering' \subseteq Clients
           /\ srv' \in [Clients -> {"none", "queued", "open", "closed"}] /\ fresh' \subseteq Clients
           /\ ready' = {}
<1>1. up' = FALSE /\ queue' = <<>> /\ fresh' = {} /\ ready' = {}
  BY DEF Ends
<1>2. srv' \in [Clients -> {"none", "queued", "open", "closed"}]
  BY DEF Ends, Typed
<1>3. lingering' \subseteq Clients
  BY DEF Ends, Typed, ClosedFirst, OpenConns
<1>4. <<>> \in Seq(Clients)
  OBVIOUS
<1> QED
  BY <1>1, <1>2, <1>3, <1>4

\* So does the end of the process that serves a client.
LEMMA ProcessExitsTyped ==
    ASSUME Typed, NEW c \in Clients, ProcessExits(c)
    PROVE  /\ ps' \in [Clients -> {"none", "forked", "serve", "zombie", "gone"}]
           /\ srv' \in [Clients -> {"none", "queued", "open", "closed"}]
           /\ lingering' \subseteq Clients
<1>1. srv' \in [Clients -> {"none", "queued", "open", "closed"}]
  <2>1. srv' = srv \/ srv' = [srv EXCEPT ![c] = "closed"]
    BY DEF ProcessExits
  <2> QED
    BY <2>1 DEF Typed
<1>3. lingering' \subseteq Clients
  <2>1. lingering' = lingering \/ lingering' = ClosedFirst({c})
    BY DEF ProcessExits
  <2> QED
    BY <2>1 DEF Typed, ClosedFirst
<1>2. ps' \in [Clients -> {"none", "forked", "serve", "zombie", "gone"}]
  BY DEF ProcessExits, Typed
<1> QED
  BY <1>1, <1>2, <1>3

\* And so does the closing of a descriptor.
LEMMA ClosesTyped ==
    ASSUME Typed, NEW c \in Clients, Closes(c)
    PROVE  /\ up' \in BOOLEAN /\ queue' \in Seq(Clients) /\ console' \in 0 .. MaxConsole
           /\ srv' \in [Clients -> {"none", "queued", "open", "closed"}]
           /\ lingering' \subseteq Clients /\ fresh' \subseteq Clients
  BY DEF Closes, Typed, ClosedFirst

\* An answer moves between the two ends of one connection.
LEMMA AnswerTyped ==
    ASSUME Typed, NEW c \in Clients, Answer(c)
    PROVE  /\ in' \in [Clients -> Seq({"x", "qu", "it"})] /\ out' \in [Clients -> Nat]
           /\ link' \in [Clients -> {"up", "fin", "late", "reset"}]
<1>1. in' \in [Clients -> Seq({"x", "qu", "it"})]
  BY RestTyped DEF Answer, Typed
<1>2. out' \in [Clients -> Nat]
  BY DEF Answer, Typed
<1>3. link' \in [Clients -> {"up", "fin", "late", "reset"}]
  BY DEF Answer, Typed
<1> QED
  BY <1>1, <1>2, <1>3

\* Typing appends a line to what is unread.
LEMMA TypeTyped ==
    ASSUME Typed, NEW c \in Clients, NEW line \in LinesOf(c), Type(c, line)
    PROVE  Typed'
<1>1. line \in Lines /\ line \in Seq({"x", "qu", "it"})
  BY LineFacts DEF LinesOf
<1>2. in' \in [Clients -> Seq({"x", "qu", "it"})] /\ fresh' \subseteq Clients
  <2>1. in' = in \/ in' = [in EXCEPT ![c] = @ \o line]
    BY DEF Type
  <2>2. fresh' = fresh \/ fresh' = fresh \union {c}
    BY DEF Type
  <2>3. in[c] \o line \in Seq({"x", "qu", "it"})
    BY <1>1 DEF Typed
  <2>4. in' \in [Clients -> Seq({"x", "qu", "it"})]
    BY <2>1, <2>3 DEF Typed
  <2> QED
    BY <2>2, <2>4 DEF Typed
<1>3. typed' \in [Clients -> 0 .. MaxLines]
  BY EchoAssumption DEF Type, Typed
<1>4. wbuf' \in [Clients -> Lines]
  <2>1. wbuf' = [wbuf EXCEPT ![c] = line]
    BY DEF Type
  <2> QED
    BY <2>1, <1>1 DEF Typed
<1>6. clean' \in BOOLEAN
  BY DEF Type
<1>5. cpc' \in [Clients -> {"start", "type", "wait", "gone"}]
  <2>1. \E next \in {"wait", "gone"} : cpc' = [cpc EXCEPT ![c] = next]
    BY DEF Type
  <2> QED
    BY <2>1 DEF Typed
<1> QED
  BY <1>2, <1>3, <1>4, <1>5, <1>6 DEF Type, Typed, forkVars

\* Taking an answer subtracts what was there.
LEMMA TakeTyped ==
    ASSUME Typed, NEW c \in Clients, Take(c)
    PROVE  Typed'
<1>1. PICK n \in 0 .. out[c] :
          /\ got' = [got EXCEPT ![c] = @ + n]
          /\ out' = [out EXCEPT ![c] = @ - n]
          /\ IF SaidQuit(c) THEN Hangs(c, out[c] - n)
             ELSE cpc' = [cpc EXCEPT ![c] = "type"] /\ UNCHANGED <<link, fresh>>
  BY DEF Take
<1>2. got' \in [Clients -> Nat] /\ out' \in [Clients -> Nat]
  BY <1>1 DEF Typed
<1>3. /\ cpc' \in [Clients -> {"start", "type", "wait", "gone"}] /\ fresh' \subseteq Clients
      /\ link' \in [Clients -> {"up", "fin", "late", "reset"}]
  <2>1. CASE Hangs(c, out[c] - n)
    <3>1. link' = [link EXCEPT ![c] = "reset"] \/ link' = [link EXCEPT ![c] = "fin"]
      BY <2>1 DEF Hangs
    <3>2. fresh' = fresh \/ fresh' = fresh \union {c}
      BY <2>1 DEF Hangs
    <3> QED
      BY <2>1, <3>1, <3>2 DEF Typed, Hangs
  <2>2. CASE cpc' = [cpc EXCEPT ![c] = "type"] /\ UNCHANGED <<link, fresh>>
    BY <2>2 DEF Typed
  <2> QED
    BY <2>1, <2>2, <1>1
<1> QED
  BY <1>2, <1>3 DEF Take, Typed, forkVars

\* The console answers everybody, or ends the server.
LEMMA ConsoleTyped ==
    ASSUME Typed, Reports, Console
    PROVE  Typed'
<1>1. /\ out' \in [Clients -> Nat] /\ link' \in [Clients -> {"up", "fin", "late", "reset"}]
  <2>1. CASE kind = "hangup"
    BY <2>1 DEF Console, Typed
  <2>2. CASE kind # "hangup"
    <3>1. \E S \in SUBSET Clients :
             out' = [d \in Clients |-> IF d \in S /\ link[d] = "up" THEN out[d] + 1 ELSE out[d]]
      BY <2>2 DEF Console, OpenConns
    <3>2. \E S \in SUBSET Clients :
             link' = [d \in Clients |-> IF d \in S /\ link[d] = "fin" THEN "late" ELSE link[d]]
      BY <2>2 DEF Console, OpenConns
    <3> QED
      BY <3>1, <3>2 DEF Typed
  <2> QED
    BY <2>1, <2>2
<1>2. console' \in 0 .. MaxConsole
  BY EchoAssumption DEF Console, Typed, Reports
<1>3. /\ up' \in BOOLEAN /\ queue' \in Seq(Clients) /\ lingering' \subseteq Clients
      /\ srv' \in [Clients -> {"none", "queued", "open", "closed"}] /\ fresh' \subseteq Clients
  BY EndsTyped DEF Console, Typed
<1> QED
  BY <1>1, <1>2, <1>3 DEF Console, Typed, cliVars, forkVars

LEMMA TypedKept ==
    ASSUME Typed, Reports, [Next]_vars
    PROVE  Typed'
<1> USE DEF cliVars, loopVars, forkVars
<1>1. ASSUME NEW c \in Clients, Connect(c) PROVE Typed'
  <2>1. queue' \in Seq(Clients)
    BY <1>1 DEF Connect, Typed
  <2>2. cpc' \in [Clients -> {"start", "type", "wait", "gone"}]
    BY <1>1 DEF Connect, Typed
  <2>3. srv' \in [Clients -> {"none", "queued", "open", "closed"}]
    BY <1>1 DEF Connect, Typed
  <2> QED
    BY <1>1, <2>1, <2>2, <2>3 DEF Connect, Typed
<1>2. ASSUME NEW c \in Clients, NEW line \in LinesOf(c), Type(c, line) PROVE Typed'
  BY <1>2, TypeTyped
<1>3. ASSUME NEW c \in Clients, Take(c) PROVE Typed'
  BY <1>3, TakeTyped
<1>4. ASSUME NEW c \in Clients, Kill(c) PROVE Typed'
  BY <1>4 DEF Kill, Hangs, Typed
<1>5. ASSUME NEW c \in Clients, Reset(c) PROVE Typed'
  BY <1>5 DEF Reset, Typed
<1>6. ASSUME NEW c \in Clients, Expire(c) PROVE Typed'
  BY <1>6 DEF Expire, Typed
<1>7. ASSUME Boot PROVE Typed'
  <2>1. boots' \in 0 .. MaxBoots
    BY <1>7, EchoAssumption DEF Boot, Typed
  <2>2. chain' \in Seq(Clients) /\ up' \in BOOLEAN
    <3>1. <<>> \in Seq(Clients)
      OBVIOUS
    <3> QED
      BY <3>1, <1>7 DEF Boot
  <2> QED
    BY <1>7, <2>1, <2>2 DEF Boot, Typed
<1>8. ASSUME NEW c \in Clients, BlockingAccept(c) PROVE Typed'
  <2>1. chain' \in Seq(Clients)
    BY <1>8 DEF BlockingAccept, Typed
  <2>2. queue' \in Seq(Clients) /\ srv' \in [Clients -> {"none", "queued", "open", "closed"}]
    BY <1>8, HeadFacts DEF BlockingAccept, Accepted, Typed
  <2> QED
    BY <1>8, <2>1, <2>2 DEF BlockingAccept, Accepted, Typed
<1>9. ASSUME NEW c \in Clients, ForkAccept(c) PROVE Typed'
  <2>1. chain' \in Seq(Clients) /\ heir' \subseteq Clients
    BY <1>9 DEF ForkAccept, Typed
  <2> QED
    BY <1>9, <2>1, HeadFacts DEF ForkAccept, Accepted, Typed
<1>10. ASSUME NEW c \in Clients, SelectAccept(c) PROVE Typed'
  BY <1>10, HeadFacts DEF SelectAccept, Accepted, Typed
<1>11. ASSUME NEW c \in Clients, Hangup(c) PROVE Typed'
  BY <1>11, HeadFacts DEF Hangup, ClosedFirst, Typed
<1>12. ASSUME NEW c \in Clients, EpollAccept(c) PROVE Typed'
  BY <1>12, HeadFacts DEF EpollAccept, Accepted, Typed
<1>13. ASSUME NEW c \in Clients, Echo(c) PROVE Typed'
  BY <1>13, AnswerTyped DEF Echo, Typed
<1>14. ASSUME NEW c \in Clients, Farewell(c) PROVE Typed'
  BY <1>14, AnswerTyped, EndsTyped, ClosesTyped, ProcessExitsTyped DEF Farewell, Typed, ProcessExits
<1>15. ASSUME NEW c \in Clients, Broken(c) PROVE Typed'
  <2>1. in' \in [Clients -> Seq({"x", "qu", "it"})]
    BY <1>15, RestTyped DEF Broken, Typed
  <2> QED
    BY <1>15, <2>1, EndsTyped, ProcessExitsTyped DEF Broken, Typed, ProcessExits
<1>16. ASSUME NEW c \in Clients, ParentServes(c) PROVE Typed'
  BY <1>16 DEF ParentServes, Typed
<1>17. ASSUME NEW c \in Clients, ChildListens(c) PROVE Typed'
  BY <1>17 DEF ChildListens, ClosedFirst, Typed
<1>18. ASSUME NEW c \in Clients, Reap(c) PROVE Typed'
  BY <1>18 DEF Reap, Typed
<1>19. ASSUME Waits PROVE Typed'
  BY <1>19 DEF Waits, Select, EpollWait, Typed
<1>20. ASSUME Console PROVE Typed'
  BY <1>20, ConsoleTyped
<1>21. ASSUME UNCHANGED vars PROVE Typed'
  BY <1>21 DEF vars, Typed
<1> QED
  BY <1>1, <1>2, <1>3, <1>4, <1>5, <1>6, <1>7, <1>8, <1>9, <1>10, <1>11, <1>12, <1>13, <1>14, <1>15,
     <1>16, <1>17, <1>18, <1>19, <1>20, <1>21 DEF Next, Accept, Handle, Processes

-----------------------------------------------------------------------------
(* The backlog, the processes and what is reported *)

\* The kinds are told apart.
LEMMA KindFacts ==
    /\ kind = "fork" => kind \notin Events /\ kind \notin Single /\ kind \notin Blocking /\ kind # "hangup"
    /\ kind \in Single => kind \notin Events /\ kind # "fork"
    /\ "hangup" \in Events /\ "select" \in Events
    /\ kind \in Polled => kind \in Events /\ kind # "fork"
    /\ kind \in Blocking => kind # "fork" /\ kind \notin Events
    /\ kind \in Selecting => kind \in Events
    /\ kind \in Small => kind \notin Single
  BY DEF Events, Selecting, Polled, Small, Edge, Single, Blocking

\* Who is not waiting in the backlog may change.
LEMMA SameBacklog ==
    ASSUME Typed, Backlog, queue' = queue,
           \A d \in Clients : srv[d] = "queued" /\ ps[d] = "none" => srv'[d] = "queued" /\ ps'[d] = "none"
    PROVE  Backlog'
  BY DEF Backlog, Typed

\* The first may leave it.
LEMMA TailBacklog ==
    ASSUME Typed, Backlog, queue # <<>>, queue' = Tail(queue),
           \A d \in Clients : d # Head(queue) => srv'[d] = srv[d] /\ ps'[d] = ps[d]
    PROVE  Backlog'
<1>1. \A i \in DOMAIN queue' : i + 1 \in DOMAIN queue /\ queue'[i] = queue[i + 1] /\ i \in Nat /\ i # 0
  BY TailFacts DEF Typed
<1>2. 1 \in DOMAIN queue /\ Head(queue) = queue[1]
  BY TailFacts DEF Typed
<1>3. ASSUME NEW i \in DOMAIN queue' PROVE srv'[queue'[i]] = "queued" /\ ps'[queue'[i]] = "none"
  <2>1. queue[i + 1] # queue[1]
    BY <1>1, <1>2 DEF Backlog
  <2>2. queue[i + 1] \in Clients
    BY <1>1 DEF Typed
  <2> QED
    BY <2>1, <2>2, <1>1, <1>2 DEF Backlog
<1>4. ASSUME NEW i \in DOMAIN queue', NEW j \in DOMAIN queue', queue'[i] = queue'[j] PROVE i = j
  <2>1. i + 1 = j + 1
    BY <1>1, <1>4 DEF Backlog
  <2> QED
    BY <2>1, <1>1
<1> QED
  BY <1>3, <1>4 DEF Backlog

\* The head of the backlog waits there.
LEMMA HeadWaits ==
    ASSUME Typed, Backlog, queue # <<>>
    PROVE  srv[Head(queue)] = "queued" /\ ps[Head(queue)] = "none"
  BY TailFacts DEF Typed, Backlog

\* Where a server process ends, only its client and those it leaves to reap
\* notice.
LEMMA ProcessExitsFacts ==
    ASSUME Typed, NEW c \in Clients, ProcessExits(c)
    PROVE  /\ \A d \in Clients : d # c =>
                  srv'[d] = srv[d] /\ (ps'[d] = ps[d] \/ (ps[d] = "zombie" /\ ps'[d] = "gone"))
           /\ ps'[c] \in {"zombie", "gone"}
           /\ srv'[c] = IF c \in heir THEN srv[c] ELSE "closed"
           /\ queue' = queue /\ ready' = ready
<1>1. \A d \in Clients : d # c => srv'[d] = srv[d]
  BY DEF ProcessExits, Typed
<1>2. \A d \in Clients : d # c => (ps'[d] = ps[d] \/ (ps[d] = "zombie" /\ ps'[d] = "gone"))
  BY DEF ProcessExits, Orphans
<1>3. ps'[c] \in {"zombie", "gone"}
  BY DEF ProcessExits
<1>4. srv'[c] = IF c \in heir THEN srv[c] ELSE "closed"
  BY DEF ProcessExits, Typed
<1> QED
  BY <1>1, <1>2, <1>3, <1>4 DEF ProcessExits

\* Where a process that serves everybody ends, everybody accepted or waiting is
\* closed.
LEMMA EndsFacts ==
    ASSUME Typed, Ends
    PROVE  /\ \A d \in Clients : srv'[d] = IF srv[d] \in {"queued", "open"} THEN "closed" ELSE srv[d]
           /\ queue' = <<>> /\ ready' = {}
  BY DEF Ends

LEMMA BacklogKept ==
    ASSUME Typed, Backlog, Forks, [Next]_vars, \A c \in Clients : cpc[c] = "start" => New(c)
    PROVE  Backlog'
<1> USE DEF cliVars, loopVars, forkVars
<1>1. ASSUME NEW c \in Clients, Connect(c) PROVE Backlog'
  <2>1. srv[c] = "none" /\ ps[c] = "none"
    BY <1>1 DEF Connect, New
  <2>2. /\ DOMAIN queue' = 1 .. Len(queue) + 1 /\ queue'[Len(queue) + 1] = c
        /\ \A i \in 1 .. Len(queue) : queue'[i] = queue[i]
        /\ Len(queue) \in Nat /\ DOMAIN queue = 1 .. Len(queue)
    BY <1>1 DEF Connect, Typed
  <2>3. \A i \in 1 .. Len(queue) : queue[i] # c /\ queue[i] \in Clients
    <3>1. \A i \in 1 .. Len(queue) : srv[queue[i]] = "queued"
      BY <2>2 DEF Backlog
    <3>2. \A i \in 1 .. Len(queue) : queue[i] \in Clients
      BY DEF Typed
    <3> QED
      BY <3>1, <3>2, <2>1
  <2>4. srv' = [srv EXCEPT ![c] = "queued"] /\ ps' = ps
    BY <1>1 DEF Connect
  <2>5. \A i \in 1 .. Len(queue) + 1 : srv'[queue'[i]] = "queued" /\ ps'[queue'[i]] = "none"
    <3>1. \A i \in 1 .. Len(queue) : srv'[queue[i]] = "queued" /\ ps'[queue[i]] = "none"
      BY <2>2, <2>3, <2>4 DEF Backlog, Typed
    <3>2. srv'[c] = "queued" /\ ps'[c] = "none"
      BY <2>1, <2>4 DEF Typed
    <3> QED
      BY <3>1, <3>2, <2>2
  <2>6. \A i, j \in 1 .. Len(queue) + 1 : queue'[i] = queue'[j] => i = j
    BY <2>2, <2>3 DEF Backlog
  <2> QED
    BY <2>2, <2>5, <2>6 DEF Backlog
<1>2. ASSUME NEW c \in Clients, BlockingAccept(c) \/ SelectAccept(c) \/ EpollAccept(c) PROVE Backlog'
  <2>1. queue # <<>> /\ c = Head(queue) /\ queue' = Tail(queue) /\ srv' = [srv EXCEPT ![c] = "open"] /\ ps' = ps
    BY <1>2 DEF BlockingAccept, SelectAccept, EpollAccept, Accepted
  <2> QED
    BY <2>1, TailBacklog DEF Typed
<1>3. ASSUME NEW c \in Clients, ForkAccept(c) PROVE Backlog'
  <2>1. /\ queue # <<>> /\ c = Head(queue) /\ queue' = Tail(queue)
        /\ srv' = [srv EXCEPT ![c] = "open"] /\ ps' = [ps EXCEPT ![c] = "forked"]
    BY <1>3 DEF ForkAccept, Accepted
  <2> QED
    BY <2>1, TailBacklog DEF Typed
<1>4. ASSUME NEW c \in Clients, Hangup(c) PROVE Backlog'
  <2>1. /\ queue # <<>> /\ c = Head(queue) /\ queue' = Tail(queue)
        /\ srv' = [srv EXCEPT ![c] = "closed"] /\ ps' = ps
    BY <1>4 DEF Hangup
  <2> QED
    BY <2>1, TailBacklog DEF Typed
<1>5. ASSUME Ends PROVE Backlog'
  <2>1. queue' = <<>>
    BY <1>5 DEF Ends
  <2> QED
    BY <2>1 DEF Backlog
<1>6. ASSUME NEW c \in Clients, srv[c] = "open", ProcessExits(c) PROVE Backlog'
  BY <1>6, ProcessExitsFacts, SameBacklog
<1>7. ASSUME NEW c \in Clients, srv[c] = "open", Closes(c), ps' = ps PROVE Backlog'
  BY <1>7, SameBacklog DEF Closes, Typed
<1>8. ASSUME NEW c \in Clients, ChildListens(c) PROVE Backlog'
  <2>1. srv[c] = "open" /\ queue' = queue /\ ps' = ps /\ (srv' = srv \/ srv' = [srv EXCEPT ![c] = "closed"])
    BY <1>8 DEF ChildListens, Forks
  <2> QED
    BY <2>1, SameBacklog DEF Typed
<1>9. ASSUME NEW c \in Clients, ParentServes(c) PROVE Backlog'
  BY <1>9, SameBacklog DEF ParentServes, Typed
<1>10. ASSUME NEW c \in Clients, Reap(c) PROVE Backlog'
  BY <1>10, SameBacklog DEF Reap
<1>11. ASSUME UNCHANGED <<queue, srv, ps>> PROVE Backlog'
  BY <1>11 DEF Backlog
<1>12. ASSUME NEW c \in Clients, Handle(c) PROVE Backlog'
  BY <1>12, <1>5, <1>6, <1>7, <1>11 DEF Handle, Echo, Farewell, Broken, Turn
<1>13. ASSUME Console PROVE Backlog'
  BY <1>13, <1>5, <1>11 DEF Console
<1>14. ASSUME NEW c \in Clients, (\E line \in LinesOf(c) : Type(c, line)) \/ Take(c) \/ Kill(c) \/ Reset(c) \/ Expire(c)
       PROVE  Backlog'
  BY <1>14, <1>11 DEF Type, Take, Kill, Reset, Expire
<1>15. ASSUME Boot \/ Waits \/ UNCHANGED vars PROVE Backlog'
  BY <1>15, <1>11 DEF Boot, Waits, Select, EpollWait, vars
<1> QED
  BY <1>1, <1>2, <1>3, <1>4, <1>8, <1>9, <1>10, <1>12, <1>13, <1>14, <1>15 DEF Next, Accept, Processes

LEMMA ForksKept ==
    ASSUME Typed, Reports, Backlog, Forks, [Next]_vars, \A c \in Clients : cpc[c] = "start" => New(c)
    PROVE  Forks'
<1> USE DEF cliVars, loopVars, forkVars
<1>1. ASSUME kind' = kind, heir' \subseteq heir, \A d \in heir' : srv'[d] = srv[d],
             kind # "fork" => \A d \in Clients : ps'[d] = ps[d]
      PROVE  Forks'
  BY <1>1 DEF Forks, Typed
<1>2. ASSUME UNCHANGED <<kind, srv, ps, heir>> PROVE Forks'
  BY <1>2 DEF Forks
<1>3. ASSUME NEW c \in Clients, Connect(c) PROVE Forks'
  <2>1. srv[c] = "none"
    BY <1>3 DEF Connect, New
  <2>2. c \notin heir
    BY <2>1 DEF Forks
  <2> QED
    BY <2>2, <1>3, <1>1 DEF Connect, Typed
<1>4. ASSUME NEW c \in Clients, Accepted(c), heir' = heir, ps' = ps, kind' = kind PROVE Forks'
  <2>1. srv[c] = "queued"
    BY <1>4, HeadWaits DEF Accepted
  <2> QED
    BY <1>4, <2>1 DEF Accepted, Forks, Typed
<1>5. ASSUME NEW c \in Clients, ForkAccept(c) PROVE Forks'
  BY <1>5 DEF ForkAccept, Accepted, Forks, Typed
<1>6. ASSUME NEW c \in Clients, Hangup(c) PROVE Forks'
  BY <1>6, KindFacts, <1>1 DEF Hangup, Forks
<1>7. ASSUME Ends, kind # "fork", UNCHANGED <<kind, ps, heir>> PROVE Forks'
  BY <1>7 DEF Forks
<1>8. ASSUME NEW c \in Clients, ProcessExits(c), kind = "fork", UNCHANGED <<kind, heir>> PROVE Forks'
  BY <1>8, <1>1, ProcessExitsFacts DEF Typed
<1>9. ASSUME NEW c \in Clients, Closes(c), kind # "fork", UNCHANGED <<kind, ps, heir>> PROVE Forks'
  BY <1>9 DEF Forks
<1>10. ASSUME NEW c \in Clients, ChildListens(c) PROVE Forks'
  BY <1>10, <1>1 DEF ChildListens, Typed
<1>11. ASSUME NEW c \in Clients, ParentServes(c) PROVE Forks'
  BY <1>11, <1>1 DEF ParentServes, Typed, Forks
<1>12. ASSUME NEW c \in Clients, Reap(c) PROVE Forks'
  BY <1>12, <1>1 DEF Reap, Alive, Forks
<1>13. ASSUME NEW c \in Clients, Handle(c) PROVE Forks'
  BY <1>13, <1>2, <1>7, <1>8, <1>9, KindFacts DEF Handle, Echo, Farewell, Broken
<1>14. ASSUME Console PROVE Forks'
  <2>1. kind # "fork"
    BY <1>14, KindFacts DEF Console, Reports
  <2> QED
    BY <1>14, <2>1, <1>2, <1>7 DEF Console
<1>15. ASSUME NEW c \in Clients, (\E line \in LinesOf(c) : Type(c, line)) \/ Take(c) \/ Kill(c) \/ Reset(c) \/ Expire(c)
       PROVE  Forks'
  BY <1>15, <1>2 DEF Type, Take, Kill, Reset, Expire
<1>16. ASSUME Boot \/ Waits \/ UNCHANGED vars PROVE Forks'
  BY <1>16, <1>2 DEF Boot, Waits, Select, EpollWait, vars
<1>17. ASSUME NEW c \in Clients, BlockingAccept(c) \/ SelectAccept(c) \/ EpollAccept(c) PROVE Forks'
  BY <1>17, <1>4 DEF BlockingAccept, SelectAccept, EpollAccept
<1> QED
  BY <1>3, <1>5, <1>6, <1>10, <1>11, <1>12, <1>13, <1>14, <1>15, <1>16, <1>17 DEF Next, Accept, Processes

LEMMA ReportsKept ==
    ASSUME Typed, Reports, Backlog, Forks, [Next]_vars, \A c \in Clients : cpc[c] = "start" => New(c)
    PROVE  Reports'
<1> USE DEF cliVars, loopVars, forkVars
<1>1. ASSUME kind' = kind, ready' \subseteq ready, console' = console,
             \A d \in Clients : d \in ready' /\ srv[d] = "open" => srv'[d] = "open"
      PROVE  Reports'
  BY <1>1 DEF Reports, OpenConns
<1>2. ASSUME kind' = kind, ready' = {} PROVE Reports'
  BY <1>2 DEF Reports
<1>3. ASSUME UNCHANGED <<kind, ready, srv, console>> PROVE Reports'
  BY <1>3, <1>1
<1>4. ASSUME NEW c \in Clients, Connect(c) PROVE Reports'
  <2>1. srv[c] = "none"
    BY <1>4 DEF Connect, New
  <2> QED
    BY <1>4, <1>1, <2>1 DEF Connect, Typed
<1>5. ASSUME NEW c \in Clients, Accepted(c), kind' = kind, ready' \subseteq ready, console' = console PROVE Reports'
  BY <1>5, <1>1 DEF Accepted, Typed
<1>6. ASSUME NEW c \in Clients, Accept(c) PROVE Reports'
  <2>1. ASSUME NEW e \in Clients, Hangup(e) PROVE Reports'
    <3>1. srv[e] = "queued"
      BY <2>1, HeadWaits DEF Hangup
    <3> QED
      BY <2>1, <3>1, <1>1 DEF Hangup, Typed
  <2> QED
    BY <1>6, <1>5, <2>1 DEF Accept, BlockingAccept, ForkAccept, SelectAccept, EpollAccept
<1>7. ASSUME Ends, kind' = kind PROVE Reports'
  BY <1>7, <1>2 DEF Ends
<1>8. ASSUME kind = "fork", kind' = kind, ready' = ready PROVE Reports'
  BY <1>8, <1>2, KindFacts DEF Reports
<1>9. ASSUME NEW c \in Clients, Closes(c), kind' = kind PROVE Reports'
  BY <1>9, <1>1 DEF Closes, Typed
<1>10. ASSUME NEW c \in Clients, Handle(c) PROVE Reports'
  <2>1. ASSUME Echo(c) PROVE Reports'
    BY <2>1, <1>1 DEF Echo
  <2> QED
    BY <1>10, <2>1, <1>7, <1>8, <1>9 DEF Handle, Farewell, Broken, ProcessExits
<1>11. ASSUME NEW c \in Clients, Processes(c) PROVE Reports'
  <2>1. ASSUME NEW e \in Clients, ChildListens(e) PROVE Reports'
    BY <2>1, <1>8 DEF ChildListens, Forks
  <2> QED
    BY <1>11, <2>1, <1>3 DEF Processes, ParentServes, Reap
<1>12. ASSUME Waits PROVE Reports'
  <2>1. \A c \in OpenConns : c \in Clients /\ c # "stdin"
    BY EchoAssumption DEF OpenConns
  <2>2. OpenConns' = OpenConns /\ console' = console /\ kind' = kind /\ kind \in Events
    BY <1>12, KindFacts DEF Waits, Select, EpollWait, OpenConns
  <2>3. CASE Select
    <3>1. PICK typing \in ConsoleReady : ready' = Listening \union typing \union {c \in OpenConns : Watched(c)}
      BY <2>3 DEF Select
    <3>2. typing = {} \/ (typing = {"stdin"} /\ console < MaxConsole)
      BY DEF ConsoleReady
    <3>3. Listening = {} \/ Listening = {"listener"}
      BY DEF Listening
    <3> QED
      BY <3>1, <3>2, <3>3, <2>1, <2>2 DEF Reports
  <2>4. CASE EpollWait
    <3>1. ready' = Listening \union {c \in OpenConns : Reported(c)}
      BY <2>4 DEF EpollWait
    <3>2. Listening = {} \/ Listening = {"listener"}
      BY DEF Listening
    <3> QED
      BY <3>1, <3>2, <2>1, <2>2 DEF Reports
  <2> QED
    BY <2>3, <2>4, <1>12 DEF Waits
<1>13. ASSUME Console PROVE Reports'
  <2>1. ASSUME ready' = ready \ {"stdin"}, srv' = srv, kind' = kind PROVE Reports'
    BY <2>1 DEF Reports, OpenConns
  <2> QED
    BY <1>13, <2>1, <1>7 DEF Console
<1>14. ASSUME NEW c \in Clients, (\E line \in LinesOf(c) : Type(c, line)) \/ Take(c) \/ Kill(c) \/ Reset(c) \/ Expire(c)
       PROVE  Reports'
  BY <1>14, <1>3 DEF Type, Take, Kill, Reset, Expire
<1>15. ASSUME Boot \/ UNCHANGED vars PROVE Reports'
  BY <1>15, <1>3 DEF Boot, vars
<1> QED
  BY <1>4, <1>6, <1>10, <1>11, <1>12, <1>13, <1>14, <1>15 DEF Next

-----------------------------------------------------------------------------
(* The conversations *)

\* A conversation goes on as it was when the client, what is on the way and
\* whether the server has let go of it are the same.
LEMMA Untouched ==
    ASSUME NEW c \in Clients, Conversation(c), kind' = kind, clean' => clean,
           cpc'[c] = cpc[c], wbuf'[c] = wbuf[c], typed'[c] = typed[c], got'[c] = got[c],
           in'[c] = in[c], out'[c] = out[c], link'[c] = link[c],
           Dismissed(c)' <=> Dismissed(c),
           kind \in Single /\ srv[c] = "closed" => srv'[c] = "closed",
           cpc[c] = "start" => srv'[c] = "none" /\ ps'[c] = "none"
    PROVE  Conversation(c)'
<1>1. Served(c)' => Served(c)
  BY DEF Served, Calm
<1>2. Talk(c) => Talk(c)'
  <2>1. Bare(c)' <=> Bare(c)
    BY DEF Bare
  <2>2. Asked(c) => Asked(c)'
    BY RoomIsNat DEF Asked
  <2>3. Told(c) => Told(c)'
    BY DEF Told
  <2>4. Ignored(c) => Ignored(c)'
    BY <2>1 DEF Ignored
  <2> QED
    BY <2>1, <2>2, <2>3, <2>4 DEF Talk
<1>3. (cpc[c] = "start" => New(c)) => (cpc'[c] = "start" => New(c)')
  BY DEF New, Bare
<1> QED
  BY <1>1, <1>2, <1>3 DEF Conversation

\* The step leaves the conversation of d alone but for the server's end.
StaysPut(d) ==
    /\ kind' = kind /\ (clean' => clean)
    /\ cpc'[d] = cpc[d] /\ wbuf'[d] = wbuf[d] /\ typed'[d] = typed[d] /\ got'[d] = got[d]
    /\ in'[d] = in[d] /\ out'[d] = out[d] /\ link'[d] = link[d]

\* It goes on when the server's end is the same as well.
LEMMA StillTalks ==
    ASSUME NEW d \in Clients, Conversation(d), StaysPut(d), srv'[d] = srv[d],
           ps'[d] = ps[d] \/ (ps[d] = "zombie" /\ ps'[d] = "gone")
    PROVE  Conversation(d)'
<1>1. Dismissed(d)' <=> Dismissed(d)
  BY DEF Dismissed
<1>2. cpc[d] = "start" => srv'[d] = "none" /\ ps'[d] = "none"
  BY DEF Conversation, New
<1> QED
  BY <1>1, <1>2, Untouched DEF StaysPut

\* connect
LEMMA ConnectTalks ==
    ASSUME Typed, NEW c \in Clients, Connect(c), Conversation(c)
    PROVE  Conversation(c)'
<1>1. New(c)
  BY DEF Connect, Conversation
<1>2. cpc'[c] = "type" /\ srv'[c] = "queued" /\ ps' = ps
  BY DEF Connect, forkVars, Typed
<1>3. ~Dismissed(c)'
  BY <1>1, <1>2 DEF Dismissed, New
<1>4. in' = in /\ out' = out /\ typed' = typed /\ got' = got /\ link' = link
  BY DEF Connect
<1>5. Talk(c)'
  BY <1>1, <1>2, <1>3, <1>4 DEF Talk, New, Bare
<1> QED
  BY <1>2, <1>5 DEF Conversation

\* A line that a client of a process types fits its buffer.
LEMMA LinesFit ==
    ASSUME Typed, NEW c \in Clients, NEW line \in LinesOf(c), Type(c, line), kind = "fork"
    PROVE  Fits(line)
<1>1. line # Long /\ line \in Lines
  BY DEF LinesOf, Small, Edge
<1>2. Len(line) = 0 \/ Len(line) = 1 \/ Len(line) = 2
  BY <1>1, LineFacts DEF Lines
<1>3. MaxLines \in Nat /\ MaxLines >= 1
  BY EchoAssumption DEF Type, Typed
<1>4. Room = MaxLines * 3
  BY RoomIsNat
<1>5. Room >= 2
  BY <1>3, <1>4
<1>6. Room \in Nat
  BY RoomIsNat
<1> QED
  <2>1. PICK m : m = Len(line)
    OBVIOUS
  <2>2. m <= Room
    BY <1>2, <1>5, <1>6, <2>1
  <2> QED
    BY <2>1, <2>2 DEF Fits

\* fgets and send: nothing was on the way, so the line is all there is.
LEMMA TypeTalks ==
    ASSUME Typed, NEW c \in Clients, NEW line \in LinesOf(c), Type(c, line), Conversation(c)
    PROVE  Conversation(c)'
<1>1. /\ kind' = kind /\ srv' = srv /\ ps' = ps /\ got' = got /\ out' = out /\ link' = link
      /\ wbuf'[c] = line /\ typed'[c] = IF line = Empty THEN typed[c] ELSE typed[c] + 1
      /\ cpc[c] \in {"type", "wait"} /\ cpc'[c] # "start"
  BY DEF Type, forkVars, Typed, MayType
<1>2. CASE ~Served(c)'
  BY <1>1, <1>2 DEF Conversation
<1>3. CASE Served(c)'
  <2>1. Served(c) /\ Fits(line) /\ cpc[c] = "type"
    <3>1. CASE clean'
      BY <3>1, <1>3, <1>1 DEF Type, Served, Calm
    <3>2. CASE ~clean'
      <4>1. kind = "fork" /\ c \notin Polling
        BY <3>2, <1>3, <1>1 DEF Served, Calm
      <4> QED
        BY <4>1, LinesFit, <1>1, <1>3 DEF Type, MayType, Served, Calm
    <3> QED
      BY <3>1, <3>2
  <2>2. in[c] = <<>> /\ out[c] = 0 /\ typed[c] = got[c] /\ link[c] = "up" /\ ~Dismissed(c)
    BY <2>1 DEF Conversation, Talk, Bare
  <2>3. cpc'[c] = "wait" /\ in'[c] = line /\ ~Dismissed(c)'
    <3>1. srv[c] # "closed"
      BY <2>2 DEF Dismissed
    <3>2. cpc' = [cpc EXCEPT ![c] = "wait"] /\ in' = [in EXCEPT ![c] = @ \o line]
      BY <3>1 DEF Type
    <3>3. line \in Seq({"x", "qu", "it"})
      BY LineFacts DEF LinesOf
    <3>4. <<>> \o line = line
      BY <3>3
    <3> QED
      BY <3>2, <3>4, <2>2, <1>1 DEF Typed, Dismissed
  <2>4. typed[c] \in Nat /\ got[c] \in Nat
    BY DEF Typed
  <2>5. Asked(c)' \/ Ignored(c)'
    <3>1. CASE line = Empty
      BY <3>1, <2>2, <2>3, <1>1, LineFacts DEF Ignored, Bare
    <3>2. CASE line # Empty
      <4>1. Len(line) <= Room'
        BY <2>1, <1>1, RoomIsNat DEF Fits
      <4> QED
        BY <3>2, <4>1, <2>2, <2>3, <2>4, <1>1 DEF Asked
    <3> QED
      BY <3>1, <3>2
  <2> QED
    BY <2>2, <2>3, <2>5, <1>1 DEF Conversation, Talk
<1> QED
  BY <1>2, <1>3

\* recv of the client: it waits for its one answer, and leaves after quit.
LEMMA TakeTalks ==
    ASSUME Typed, NEW c \in Clients, Take(c), Conversation(c)
    PROVE  Conversation(c)'
<1>1. PICK n \in 0 .. out[c] :
          /\ n = 0 => out[c] = 0 /\ srv[c] = "closed"
          /\ got' = [got EXCEPT ![c] = @ + n]
          /\ out' = [out EXCEPT ![c] = @ - n]
          /\ IF SaidQuit(c) THEN Hangs(c, out[c] - n)
             ELSE cpc' = [cpc EXCEPT ![c] = "type"] /\ UNCHANGED <<link, fresh>>
  BY DEF Take
<1>2. kind' = kind /\ srv' = srv /\ ps' = ps /\ in' = in /\ typed' = typed /\ wbuf' = wbuf /\ clean' = clean
  BY DEF Take, forkVars
<1>3. cpc'[c] \in {"type", "gone"}
  BY <1>1 DEF Hangs, Typed
<1>4. CASE ~Served(c)
  BY <1>2, <1>3, <1>4 DEF Conversation, Served, Calm
<1>5. CASE Served(c)
  <2>1. link[c] = "up" /\ (Asked(c) \/ Ignored(c) \/ Told(c))
    BY <1>5 DEF Conversation, Talk, Take
  <2>2. Told(c) /\ n = 1
    BY <2>1, <1>1 DEF Asked, Ignored, Told, Bare, Dismissed
  <2>3. out'[c] = 0 /\ got'[c] = typed'[c] /\ in'[c] = <<>> /\ (Dismissed(c)' <=> wbuf'[c] = Quit)
    BY <2>2, <1>1, <1>2 DEF Told, Dismissed, Typed
  <2>4. CASE SaidQuit(c)
    <3>1. out[c] - n = 0
      BY <2>2 DEF Told
    <3>2. cpc'[c] = "gone" /\ link'[c] = "fin"
      BY <2>4, <1>1, <3>1 DEF Hangs, Typed
    <3> QED
      BY <3>2, <2>3, <2>4, <1>2 DEF Conversation, Talk, Bare, SaidQuit
  <2>5. CASE ~SaidQuit(c)
    <3>1. cpc'[c] = "type" /\ link'[c] = "up"
      BY <2>5, <1>1, <2>1 DEF Typed
    <3> QED
      BY <3>1, <2>3, <2>5, <1>2 DEF Conversation, Talk, Bare, SaidQuit
  <2> QED
    BY <2>4, <2>5
<1> QED
  BY <1>4, <1>5

\* Of a client whose turn it is in the handler: if it keeps to the rules, it
\* waits for the answer to a line that recv returns whole.
LEMMA TurnFacts ==
    ASSUME Typed, Forks, NEW c \in Clients, Turn(c), Conversation(c)
    PROVE  /\ srv[c] = "open" /\ ~Dismissed(c) /\ cpc[c] # "start"
           /\ Served(c) => \/ cpc[c] = "gone" /\ ~clean
                           \/ /\ cpc[c] = "wait" /\ link[c] = "up" /\ Asked(c)
                              /\ Buffer(c) = wbuf[c] /\ Rest(c) = <<>>
<1>1. srv[c] = "open" /\ ~Dismissed(c)
  BY DEF Turn, Forks, Dismissed
<1>2. cpc[c] # "start"
  BY <1>1 DEF Conversation, New
<1>3. ASSUME Served(c), cpc[c] = "wait"
      PROVE  link[c] = "up" /\ Asked(c) /\ Buffer(c) = wbuf[c] /\ Rest(c) = <<>>
  <2>1. link[c] = "up" /\ Asked(c)
    BY <1>3 DEF Conversation, Talk, Turn, Readable, Ignored, Told, Bare
  <2>2. in[c] = wbuf[c] /\ in[c] \in Seq({"x", "qu", "it"}) /\ Len(in[c]) <= Room
    BY <2>1 DEF Asked, Typed
  <2>3. SubSeq(in[c], 1, Min({Room, Len(in[c])})) = in[c]
    BY <2>2, RoomIsNat, WholeReceived
  <2>4. SubSeq(in[c], Min({Room, Len(in[c])}) + 1, Len(in[c])) = <<>>
    BY <2>2, RoomIsNat, WholeReceived
  <2> QED
    BY <2>1, <2>2, <2>3, <2>4 DEF Buffer, Rest
<1>4. ASSUME Served(c) PROVE cpc[c] # "type" /\ (cpc[c] = "gone" => ~clean)
  BY <1>4, <1>1 DEF Conversation, Talk, Turn, Readable, Bare
<1> QED
  BY <1>1, <1>2, <1>3, <1>4 DEF Typed

\* send fails only for a client that has broken the rules.
LEMMA BrokenCareless ==
    ASSUME Typed, Forks, NEW c \in Clients, Broken(c), Conversation(c), Served(c)
    PROVE  kind = "fork" /\ cpc[c] = "gone" /\ ~clean
<1>1. ~(link[c] = "up")
  BY DEF Broken, SendFails
<1>2. cpc[c] = "gone" /\ ~clean
  BY <1>1, TurnFacts DEF Broken
<1> QED
  BY <1>2 DEF Served, Calm

\* The answer reaches the client that waits for it.
LEMMA AnswerReaches ==
    ASSUME Typed, NEW c \in Clients, Answer(c), link[c] = "up", Asked(c), Rest(c) = <<>>
    PROVE  in'[c] = <<>> /\ out'[c] = 1 /\ link'[c] = "up"
  BY DEF Answer, Asked, Typed

\* An answer concerns one connection.
LEMMA AnswerFrame ==
    ASSUME Typed, NEW c \in Clients, Answer(c), NEW d \in Clients, d # c
    PROVE  in'[d] = in[d] /\ out'[d] = out[d] /\ link'[d] = link[d]
  BY DEF Answer, Typed

\* The handler answers a line that is not quit.
LEMMA EchoTalks ==
    ASSUME Typed, Forks, NEW c \in Clients, Echo(c), Conversation(c)
    PROVE  Conversation(c)'
<1>1. /\ kind' = kind /\ clean' = clean /\ srv' = srv /\ ps' = ps
      /\ cpc' = cpc /\ wbuf' = wbuf /\ typed' = typed /\ got' = got
  BY DEF Echo, cliVars, forkVars
<1>2. Turn(c) /\ Answer(c) /\ Buffer(c) # Quit
  BY DEF Echo
<1>3. cpc[c] # "start"
  BY <1>2, TurnFacts
<1>4. CASE ~Served(c) \/ (cpc[c] = "gone" /\ ~clean)
  BY <1>1, <1>3, <1>4 DEF Conversation, Served, Calm, Talk
<1>5. CASE cpc[c] = "wait" /\ link[c] = "up" /\ Asked(c) /\ Buffer(c) = wbuf[c] /\ Rest(c) = <<>>
  <2>1. in'[c] = <<>> /\ out'[c] = 1 /\ link'[c] = "up"
    BY <1>5, <1>2, AnswerReaches
  <2>2. ~Dismissed(c)' /\ wbuf'[c] # Quit /\ wbuf'[c] # Empty /\ typed'[c] = got'[c] + 1
    BY <1>1, <1>2, <1>5 DEF Asked, Dismissed
  <2>3. Told(c)'
    BY <2>1, <2>2 DEF Told
  <2> QED
    BY <2>1, <2>3, <1>1, <1>5 DEF Conversation, Talk
<1> QED
  BY <1>2, <1>4, <1>5, TurnFacts

\* The handler lets a client go that said quit.
LEMMA FarewellTalks ==
    ASSUME Typed, Forks, NEW c \in Clients, Farewell(c), Conversation(c)
    PROVE  Conversation(c)'
<1>1. /\ kind' = kind /\ clean' = clean
      /\ cpc' = cpc /\ wbuf' = wbuf /\ typed' = typed /\ got' = got
  BY DEF Farewell, cliVars, forkVars
<1>2. Turn(c) /\ Answer(c) /\ Buffer(c) = Quit
  BY DEF Farewell
<1>3. cpc[c] # "start" /\ srv[c] = "open"
  BY <1>2, TurnFacts
<1>4. CASE ~Served(c) \/ (cpc[c] = "gone" /\ ~clean)
  BY <1>1, <1>3, <1>4 DEF Conversation, Served, Calm, Talk
<1>5. CASE cpc[c] = "wait" /\ link[c] = "up" /\ Asked(c) /\ Buffer(c) = wbuf[c] /\ Rest(c) = <<>>
  <2>1. in'[c] = <<>> /\ out'[c] = 1 /\ link'[c] = "up"
    BY <1>5, <1>2, AnswerReaches
  <2>2. wbuf'[c] = Quit /\ wbuf'[c] # Empty /\ typed'[c] = got'[c] + 1
    BY <1>1, <1>2, <1>5 DEF Asked
  <2>3. Dismissed(c)'
    <3>1. CASE kind = "fork"
      BY <3>1, ProcessExitsFacts DEF Farewell, Dismissed
    <3>2. CASE kind # "fork" /\ kind \in Single
      <4>1. Ends
        BY <3>2 DEF Farewell
      <4> QED
        BY <4>1, <1>3, EndsFacts DEF Dismissed
    <3>3. CASE kind # "fork" /\ kind \notin Single
      <4>1. srv' = [srv EXCEPT ![c] = "closed"]
        BY <3>3 DEF Farewell, Closes
      <4> QED
        BY <4>1 DEF Dismissed, Typed
    <3> QED
      BY <3>1, <3>2, <3>3
  <2>4. Told(c)'
    BY <2>1, <2>2, <2>3 DEF Told
  <2> QED
    BY <2>1, <2>4, <1>1, <1>5 DEF Conversation, Talk
<1> QED
  BY <1>2, <1>4, <1>5, TurnFacts

\* The end of a server process with everybody's connection: no client that keeps
\* to the rules is left, or there was but one to serve.
LEMMA EndsTalks ==
    ASSUME Typed, NEW d \in Clients, Ends, StaysPut(d), ps' = ps, Conversation(d),
           kind \in Single \/ (kind # "fork" /\ (kind = "hangup" \/ ~clean'))
    PROVE  Conversation(d)'
<1>1. srv'[d] = IF srv[d] \in {"queued", "open"} THEN "closed" ELSE srv[d]
  BY EndsFacts
<1>2. CASE srv'[d] = srv[d]
  BY <1>2, StillTalks
<1>3. CASE srv'[d] # srv[d]
  <2>1. srv'[d] = "closed" /\ srv[d] # "none"
    BY <1>1, <1>3
  <2>2. ~Served(d)'
    BY <2>1, KindFacts DEF Served, Calm, StaysPut
  <2>3. cpc'[d] # "start"
    BY <2>1 DEF Conversation, New, StaysPut
  <2> QED
    BY <2>2, <2>3 DEF Conversation
<1> QED
  BY <1>2, <1>3

\* The server fails to send: for the client itself.
LEMMA BrokenTalks ==
    ASSUME Typed, Forks, NEW c \in Clients, Broken(c), Conversation(c)
    PROVE  Conversation(c)'
<1>1. kind' = kind /\ clean' = clean /\ cpc' = cpc
  BY DEF Broken, cliVars
<1>2. cpc[c] # "start" /\ srv[c] = "open"
  BY TurnFacts DEF Broken
<1>3. CASE ~Served(c)
  BY <1>1, <1>2, <1>3 DEF Conversation, Served, Calm
<1>4. CASE Served(c)
  BY <1>1, <1>4, BrokenCareless DEF Conversation, Talk
<1> QED
  BY <1>3, <1>4

\* The handler for one client, seen from another.
LEMMA HandleApart ==
    ASSUME Typed, Forks, NEW c \in Clients, Handle(c), Conversation(c),
           NEW d \in Clients, d # c, Conversation(d)
    PROVE  Conversation(d)'
<1>1. StaysPut(d)
  <2>1. /\ kind' = kind /\ clean' = clean
        /\ cpc' = cpc /\ wbuf' = wbuf /\ typed' = typed /\ got' = got
    BY DEF Handle, Echo, Farewell, Broken, cliVars
  <2>2. Answer(c) \/ (in' = [in EXCEPT ![c] = Rest(c)] /\ out' = out /\ link' = link)
    BY DEF Handle, Echo, Farewell, Broken
  <2>3. in'[d] = in[d] /\ out'[d] = out[d] /\ link'[d] = link[d]
    BY <2>2, AnswerFrame DEF Typed
  <2> QED
    BY <2>1, <2>3 DEF StaysPut
<1>2. CASE Echo(c)
  BY <1>1, <1>2, StillTalks DEF Echo, forkVars
<1>3. CASE ProcessExits(c)
  BY <1>1, <1>3, ProcessExitsFacts, StillTalks
<1>4. CASE Closes(c) /\ ps' = ps
  <2>1. srv'[d] = srv[d]
    BY <1>4 DEF Closes, Typed
  <2> QED
    BY <1>1, <1>4, <2>1, StillTalks
<1>5. CASE Farewell(c) /\ kind \in Single /\ Ends /\ ps' = ps
  BY <1>1, <1>5, EndsTalks
<1>6. CASE Broken(c) /\ kind # "fork" /\ Ends /\ ps' = ps
  <2>1. ~Served(c)
    BY <1>6, BrokenCareless
  <2>2. srv[c] = "open"
    BY <1>6 DEF Broken, Turn
  <2>3. kind = "hangup" \/ ~clean
    BY <2>1, <2>2 DEF Served, Calm
  <2>4. clean' = clean
    BY <1>6 DEF Broken
  <2> QED
    BY <1>1, <1>6, <2>3, <2>4, EndsTalks
<1> QED
  BY <1>2, <1>3, <1>4, <1>5, <1>6 DEF Handle, Farewell, Broken, forkVars

\* Accepting a client does not let go of it.
LEMMA AcceptTalks ==
    ASSUME Typed, Backlog, NEW c \in Clients, Accept(c), NEW d \in Clients, Conversation(d)
    PROVE  Conversation(d)'
<1>1. StaysPut(d)
  BY DEF Accept, BlockingAccept, ForkAccept, SelectAccept, Hangup, EpollAccept, Accepted, StaysPut, cliVars
<1>2. c = Head(queue) /\ queue # <<>>
  BY DEF Accept, BlockingAccept, ForkAccept, SelectAccept, Hangup, EpollAccept, Accepted
<1>3. srv[c] = "queued" /\ ps[c] = "none"
  BY <1>2, HeadWaits
<1>4. CASE d # c
  <2>1. srv'[d] = srv[d] /\ ps'[d] = ps[d]
    BY <1>4 DEF Accept, BlockingAccept, ForkAccept, SelectAccept, Hangup, EpollAccept, Accepted, Typed, forkVars
  <2> QED
    BY <1>1, <2>1, StillTalks
<1>5. CASE d = c
  <2>1. cpc[d] # "start"
    BY <1>3, <1>5 DEF Conversation, New
  <2>2. CASE Hangup(c)
    <3>1. ~Served(d)' /\ cpc'[d] # "start"
      BY <2>1, <2>2 DEF Hangup, Served, cliVars
    <3> QED
      BY <3>1 DEF Conversation
  <2>3. CASE ~Hangup(c)
    <3>1. srv'[c] = "open" /\ ps'[c] \in {"none", "forked"}
      <4>1. srv' = [srv EXCEPT ![c] = "open"]
        BY <2>3 DEF Accept, BlockingAccept, ForkAccept, SelectAccept, EpollAccept, Accepted
      <4>2. ps' = ps \/ ps' = [ps EXCEPT ![c] = "forked"]
        BY <2>3 DEF Accept, BlockingAccept, ForkAccept, SelectAccept, EpollAccept, forkVars
      <4> QED
        BY <4>1, <4>2, <1>3 DEF Typed
    <3>2. ~Dismissed(d) /\ ~Dismissed(d)'
      BY <1>3, <1>5, <3>1 DEF Dismissed
    <3> QED
      BY <1>1, <1>3, <1>5, <2>1, <3>2, Untouched DEF StaysPut
  <2> QED
    BY <2>2, <2>3
<1> QED
  BY <1>4, <1>5

\* The steps of the server processes change nothing in a conversation.
LEMMA ProcessesTalk ==
    ASSUME Typed, Forks, NEW c \in Clients, Processes(c), NEW d \in Clients, Conversation(d)
    PROVE  Conversation(d)'
<1> USE DEF cliVars, forkVars
<1>1. StaysPut(d)
  BY DEF Processes, ParentServes, ChildListens, Reap, StaysPut
<1>2. CASE ParentServes(c)
  <2>1. Dismissed(d)' <=> Dismissed(d)
    BY <1>2 DEF ParentServes, Dismissed, Typed
  <2>2. srv' = srv /\ (cpc[d] = "start" => ps'[d] = "none")
    BY <1>2 DEF ParentServes, Conversation, New, Typed
  <2> QED
    BY <1>1, <2>1, <2>2, Untouched DEF StaysPut, Conversation, New
<1>3. CASE ChildListens(c)
  <2>1. Dismissed(d)' <=> Dismissed(d)
    BY <1>3 DEF ChildListens, Dismissed, Typed
  <2>2. ps' = ps /\ (d # c => srv'[d] = srv[d]) /\ srv[c] = "open" /\ (srv[d] = "closed" => srv'[d] = "closed")
    BY <1>3 DEF ChildListens, Typed, Forks
  <2>3. cpc[d] = "start" => srv'[d] = "none" /\ ps'[d] = "none"
    BY <2>2 DEF Conversation, New
  <2> QED
    BY <1>1, <2>1, <2>2, <2>3, Untouched DEF StaysPut
<1>4. CASE Reap(c)
  <2>1. srv' = srv /\ (ps'[d] = ps[d] \/ (ps[d] = "zombie" /\ ps'[d] = "gone"))
    BY <1>4 DEF Reap
  <2> QED
    BY <1>1, <2>1, StillTalks
<1> QED
  BY <1>2, <1>3, <1>4 DEF Processes

\* After a line at the console of a select server nobody is owed anything.
LEMMA ConsoleTalks ==
    ASSUME Typed, Reports, Console, NEW d \in Clients, Conversation(d)
    PROVE  Conversation(d)'
<1>1. kind # "fork" /\ kind' = kind /\ clean' = FALSE /\ cpc' = cpc /\ typed' = typed /\ got' = got /\ ps' = ps
  BY KindFacts DEF Console, Reports, cliVars, forkVars
<1>2. ~Served(d)'
  BY <1>1 DEF Served, Calm
<1>3. ASSUME New(d) PROVE New(d)'
  <2>1. d \notin OpenConns
    BY <1>3 DEF New, OpenConns
  <2>2. in' = in /\ out'[d] = out[d] /\ link'[d] = link[d]
    <3>1. CASE kind = "hangup"
      BY <3>1 DEF Console
    <3>2. CASE kind # "hangup"
      <4>1. \E S \in SUBSET OpenConns :
               out' = [e \in Clients |-> IF e \in S /\ link[e] = "up" THEN out[e] + 1 ELSE out[e]]
        BY <3>2 DEF Console
      <4>2. \E S \in SUBSET OpenConns :
               link' = [e \in Clients |-> IF e \in S /\ link[e] = "fin" THEN "late" ELSE link[e]]
        BY <3>2 DEF Console
      <4>3. in' = in
        BY DEF Console
      <4> QED
        BY <4>1, <4>2, <4>3, <2>1
    <3> QED
      BY <3>1, <3>2
  <2>3. srv'[d] = "none"
    BY <1>3, EndsFacts DEF Console, New
  <2> QED
    BY <1>1, <1>3, <2>2, <2>3 DEF New, Bare
<1> QED
  BY <1>1, <1>2, <1>3 DEF Conversation

\* The client is killed.
LEMMA KillTalks ==
    ASSUME Typed, NEW c \in Clients, Kill(c)
    PROVE  Conversation(c)'
<1>1. cpc'[c] = "gone" /\ clean' = FALSE
  BY DEF Kill, Hangs, Typed
<1> QED
  BY <1>1 DEF Conversation, Talk

\* A reset arrives.
LEMMA ResetTalks ==
    ASSUME Typed, NEW c \in Clients, Reset(c), Conversation(c)
    PROVE  Conversation(c)'
<1>1. /\ kind' = kind /\ clean' = clean /\ srv' = srv /\ cpc' = cpc /\ link[c] = "late"
  BY DEF Reset, cliVars
<1>2. cpc[c] # "start"
  BY <1>1 DEF Conversation, New
<1>3. Served(c) => cpc[c] = "gone" /\ ~clean
  BY <1>1, <1>2 DEF Conversation, Talk, Typed
<1> QED
  BY <1>1, <1>2, <1>3 DEF Conversation, Talk, Served, Calm

\* What a client does concerns itself.
LEMMA ClientApart ==
    ASSUME Typed, NEW c \in Clients, NEW d \in Clients, d # c, Conversation(d),
           \/ Connect(c) \/ (\E line \in LinesOf(c) : Type(c, line)) \/ Take(c) \/ Kill(c) \/ Reset(c)
    PROVE  Conversation(d)'
<1> USE DEF cliVars, forkVars
<1>1. CASE Connect(c)
  <2>1. StaysPut(d) /\ srv'[d] = srv[d] /\ ps' = ps
    BY <1>1 DEF Connect, StaysPut, Typed
  <2> QED
    BY <2>1, StillTalks
<1>2. ASSUME NEW line \in LinesOf(c), Type(c, line) PROVE Conversation(d)'
  <2>1. /\ kind' = kind /\ (clean' => clean) /\ srv' = srv /\ ps' = ps
        /\ got' = got /\ out' = out /\ link' = link
        /\ wbuf' = [wbuf EXCEPT ![c] = line]
        /\ typed' = [typed EXCEPT ![c] = IF line = Empty THEN @ ELSE @ + 1]
        /\ \E next \in {"wait", "gone"} : cpc' = [cpc EXCEPT ![c] = next]
        /\ in' = in \/ in' = [in EXCEPT ![c] = @ \o line]
    BY <1>2 DEF Type
  <2>2. StaysPut(d)
    BY <2>1 DEF StaysPut, Typed
  <2> QED
    BY <2>1, <2>2, StillTalks
<1>3. CASE Take(c)
  <2>1. PICK n \in 0 .. out[c] :
            /\ got' = [got EXCEPT ![c] = @ + n]
            /\ out' = [out EXCEPT ![c] = @ - n]
            /\ IF SaidQuit(c) THEN Hangs(c, out[c] - n)
               ELSE cpc' = [cpc EXCEPT ![c] = "type"] /\ UNCHANGED <<link, fresh>>
    BY <1>3 DEF Take
  <2>2. cpc'[d] = cpc[d] /\ link'[d] = link[d]
    BY <2>1 DEF Hangs, Typed
  <2>3. got'[d] = got[d] /\ out'[d] = out[d]
    BY <2>1 DEF Typed
  <2>4. StaysPut(d) /\ srv' = srv /\ ps' = ps
    BY <1>3, <2>2, <2>3 DEF Take, StaysPut
  <2> QED
    BY <2>4, StillTalks
<1>4. CASE Kill(c)
  <2>1. cpc'[d] = cpc[d] /\ link'[d] = link[d]
    BY <1>4 DEF Kill, Hangs, Typed
  <2>2. StaysPut(d) /\ srv' = srv /\ ps' = ps
    BY <1>4, <2>1 DEF Kill, StaysPut
  <2> QED
    BY <2>2, StillTalks
<1>5. CASE Reset(c)
  <2>1. StaysPut(d) /\ srv' = srv /\ ps' = ps
    BY <1>5 DEF Reset, StaysPut, Typed
  <2> QED
    BY <2>1, StillTalks
<1> QED
  BY <1>1, <1>2, <1>3, <1>4, <1>5

\* Starting the server, waiting for events and the end of TIME_WAIT.
LEMMA QuietTalks ==
    ASSUME Boot \/ Waits \/ (\E c \in Clients : Expire(c)) \/ UNCHANGED vars,
           NEW d \in Clients, Conversation(d)
    PROVE  Conversation(d)'
<1>1. StaysPut(d) /\ srv' = srv /\ ps' = ps
  BY DEF Boot, Waits, Select, EpollWait, Expire, vars, cliVars, forkVars, StaysPut
<1> QED
  BY <1>1, StillTalks

LEMMA ConversationKept ==
    ASSUME IInv, [Next]_vars, NEW d \in Clients
    PROVE  Conversation(d)'
<1> USE DEF IInv
<1>1. ASSUME NEW c \in Clients, Connect(c) PROVE Conversation(d)'
  BY <1>1, ConnectTalks, ClientApart
<1>2. ASSUME NEW c \in Clients, NEW line \in LinesOf(c), Type(c, line) PROVE Conversation(d)'
  BY <1>2, TypeTalks, ClientApart
<1>3. ASSUME NEW c \in Clients, Take(c) PROVE Conversation(d)'
  BY <1>3, TakeTalks, ClientApart
<1>4. ASSUME NEW c \in Clients, Kill(c) PROVE Conversation(d)'
  BY <1>4, KillTalks, ClientApart
<1>5. ASSUME NEW c \in Clients, Reset(c) PROVE Conversation(d)'
  BY <1>5, ResetTalks, ClientApart
<1>6. ASSUME NEW c \in Clients, Accept(c) PROVE Conversation(d)'
  BY <1>6, AcceptTalks
<1>7. ASSUME NEW c \in Clients, Handle(c) PROVE Conversation(d)'
  BY <1>7, EchoTalks, FarewellTalks, BrokenTalks, HandleApart DEF Handle
<1>8. ASSUME NEW c \in Clients, Processes(c) PROVE Conversation(d)'
  BY <1>8, ProcessesTalk
<1>9. ASSUME Console PROVE Conversation(d)'
  BY <1>9, ConsoleTalks
<1>10. ASSUME Boot \/ Waits \/ (\E c \in Clients : Expire(c)) \/ UNCHANGED vars PROVE Conversation(d)'
  BY <1>10, QuietTalks
<1> QED
  BY <1>1, <1>2, <1>3, <1>4, <1>5, <1>6, <1>7, <1>8, <1>9, <1>10 DEF Next

LEMMA InitInv == Init => IInv
<1> SUFFICES ASSUME Init PROVE IInv
  OBVIOUS
<1>1. Typed
  <2>1. <<>> \in Seq({"x", "qu", "it"}) /\ <<>> \in Seq(Clients)
    OBVIOUS
  <2>2. /\ cpc \in [Clients -> {"start", "type", "wait", "gone"}]
        /\ typed \in [Clients -> 0 .. MaxLines]
        /\ got \in [Clients -> Nat] /\ out \in [Clients -> Nat]
    BY EchoAssumption DEF Init
  <2>7. wbuf \in [Clients -> Lines]
    <3>1. Empty \in Lines /\ wbuf = [c \in Clients |-> Empty]
      BY DEF Init, Lines
    <3> QED
      BY <3>1
  <2>3. in \in [Clients -> Seq({"x", "qu", "it"})]
    BY <2>1 DEF Init
  <2>4. /\ link \in [Clients -> {"up", "fin", "late", "reset"}]
        /\ srv \in [Clients -> {"none", "queued", "open", "closed"}]
        /\ ps \in [Clients -> {"none", "forked", "serve", "zombie", "gone"}]
    BY DEF Init
  <2>5. /\ kind \in Kinds /\ up \in BOOLEAN /\ clean \in BOOLEAN
        /\ lingering \subseteq Clients /\ fresh \subseteq Clients /\ heir \subseteq Clients
    BY DEF Init
  <2>8. boots \in 0 .. MaxBoots /\ console \in 0 .. MaxConsole
    BY EchoAssumption DEF Init
  <2>6. queue \in Seq(Clients) /\ chain \in Seq(Clients)
    BY <2>1 DEF Init
  <2> QED
    BY <2>2, <2>3, <2>4, <2>5, <2>6, <2>7, <2>8 DEF Typed
<1>2. Reports /\ Backlog /\ Forks
  BY DEF Init, Reports, Backlog, Forks
<1>3. ASSUME NEW c \in Clients PROVE Conversation(c)
  BY DEF Init, Conversation, New, Bare, Talk
<1> QED
  BY <1>1, <1>2, <1>3 DEF IInv

LEMMA NextInv == IInv /\ [Next]_vars => IInv'
<1> SUFFICES ASSUME IInv, [Next]_vars PROVE IInv'
  OBVIOUS
<1>1. \A c \in Clients : cpc[c] = "start" => New(c)
  BY DEF IInv, Conversation
<1>2. Typed' /\ Reports' /\ Backlog' /\ Forks'
  BY <1>1, TypedKept, ReportsKept, BacklogKept, ForksKept DEF IInv
<1>3. \A c \in Clients : Conversation(c)'
  BY ConversationKept
<1> QED
  BY <1>2, <1>3 DEF IInv

LEMMA Invariance == Spec => []IInv
  BY InitInv, NextInv, PTL DEF Spec

-----------------------------------------------------------------------------
(* The theorems *)

\* No client that waits for its answers, fits the buffer and leaves with quit
\* loses its connection before that, whichever server it talks to and in
\* whatever order the server looks at its clients; with a process for each
\* client (07) whatever the other clients do.
THEOREM NobodyIsDropped == Spec => []DroppedOnlyByItself
<1>1. IInv => DroppedOnlyByItself
  <2> SUFFICES ASSUME IInv, kind \notin Single \union {"hangup"},
                      NEW c \in Clients, srv[c] = "closed", clean \/ (kind = "fork" /\ c \notin Polling)
               PROVE  wbuf[c] = Quit \/ cpc[c] = "gone"
    BY DEF DroppedOnlyByItself
  <2>1. Served(c) /\ Conversation(c) /\ Dismissed(c)
    BY DEF IInv, Served, Calm, Dismissed
  <2>2. cpc[c] \in {"start", "type", "wait", "gone"}
    BY DEF IInv, Typed
  <2> QED
    BY <2>1, <2>2 DEF Conversation, New, Talk, Asked, Ignored, Told
<1> QED
  BY <1>1, Invariance, PTL

\* Such a client gets one answer for each line: what it has read, what is on the
\* way and the line the server has not read make up what it has typed.
THEOREM AnswersMatchLines == Spec => []OneAnswerEach
<1>1. IInv => OneAnswerEach
  <2> SUFFICES ASSUME IInv, clean, kind # "hangup", NEW c \in Clients,
                      srv[c] # "closed" \/ (kind \notin Single /\ cpc[c] = "gone")
               PROVE  got[c] + out[c] + (IF in[c] = <<>> THEN 0 ELSE 1) = typed[c]
    BY DEF OneAnswerEach
  <2>1. Served(c) /\ Conversation(c)
    BY DEF IInv, Served, Calm
  <2>2. cpc[c] \in {"start", "type", "wait", "gone"} /\ got[c] \in Nat /\ out[c] \in Nat /\ typed[c] \in Nat /\ wbuf[c] \in Lines
    BY EchoAssumption DEF IInv, Typed
  <2>3. wbuf[c] # Empty => wbuf[c] # <<>>
    BY <2>2, LineFacts
  <2>4. \/ in[c] = <<>> /\ out[c] = 0 /\ typed[c] = got[c]
        \/ in[c] # <<>> /\ out[c] = 0 /\ typed[c] = got[c] + 1
        \/ in[c] = <<>> /\ out[c] = 1 /\ typed[c] = got[c] + 1
    BY <2>1, <2>2, <2>3 DEF Conversation, New, Talk, Asked, Ignored, Told, Bare
  <2> QED
    BY <2>2, <2>4
<1> QED
  BY <1>1, Invariance, PTL

-----------------------------------------------------------------------------
(* The descriptors of the select server *)

\* A set of numbers has a least one.
LEMMA SmallestOf ==
    ASSUME NEW S \in SUBSET Nat, S # {}
    PROVE  Min(S) \in S /\ \A y \in S : Min(S) <= y
<1>1. PICK x \in S : \A y \in S : ~(<<y, x>> \in OpToRel(<, Nat))
  BY NatLessThanWellFounded, WFMin
<1>2. \A y \in S : ~(y < x)
  <2>1. \A y, z \in Nat : y < z => <<y, z>> \in OpToRel(<, Nat)
    BY DEF OpToRel
  <2> QED
    BY <1>1, <2>1, Zenon
<1>3. \A y \in S : x <= y
  BY <1>2
<1> QED
  BY <1>3 DEF Min

\* A bounded set of numbers has a greatest one.
LEMMA LargestOf ==
    ASSUME NEW m \in Nat, NEW S \in SUBSET (0 .. m), S # {}
    PROVE  Max(S) \in S /\ \A y \in S : y <= Max(S)
<1> DEFINE T == {m - x : x \in S}
<1>1. T \in SUBSET Nat /\ T # {}
  <2>1. \A x \in S : m - x \in Nat
    OBVIOUS
  <2>2. PICK x \in S : TRUE
    OBVIOUS
  <2>3. m - x \in T
    BY <2>2
  <2> QED
    BY <2>1, <2>3
<1>2. PICK t \in T : \A y \in T : t <= y
  BY <1>1, SmallestOf
<1>3. PICK x \in S : t = m - x
  OBVIOUS
<1>4. \A y \in S : y <= x
  BY <1>2, <1>3
<1> QED
  BY <1>3, <1>4 DEF Max

\* Each open connection of the select server has a number of its own that
\* select looks at; the others have none.
Numbered ==
    /\ fd \in [Clients -> Nat] /\ maxfd \in Nat /\ maxfd >= 3
    /\ \A c \in Clients : IF kind = "select" /\ srv[c] = "open" THEN fd[c] \in 4 .. maxfd ELSE fd[c] = 0
    /\ kind = "select" => \A c, d \in OpenConns : fd[c] = fd[d] => c = d

\* There is a free number among the first, because there are no more open
\* connections than clients.
LEMMA LowestIsFree ==
    ASSUME Typed, Numbered
    PROVE  LowestFree \in Nat /\ LowestFree >= 4 /\ \A c \in OpenConns : fd[c] # LowestFree
<1> DEFINE n == Cardinality(Clients)
           used == {fd[c] : c \in OpenConns}
           free == {k \in 4 .. 4 + n : \A c \in OpenConns : fd[c] # k}
<1>1. IsFiniteSet(OpenConns) /\ Cardinality(OpenConns) <= n /\ n \in Nat /\ Cardinality(OpenConns) \in Nat
  <2>1. OpenConns \in SUBSET Clients /\ IsFiniteSet(Clients)
    BY EchoAssumption DEF OpenConns
  <2> QED
    BY <2>1, FS_Subset, FS_CardinalityType
<1>2. IsFiniteSet(used) /\ Cardinality(used) <= Cardinality(OpenConns) /\ Cardinality(used) \in Nat
  <2> DEFINE f == [c \in OpenConns |-> fd[c]]
  <2>1. f \in Surjection(OpenConns, used)
    BY DEF Surjection
  <2> QED
    BY <2>1, <1>1, FS_Surjection, FS_CardinalityType
<1>3. free # {}
  <2> SUFFICES ASSUME free = {} PROVE FALSE
    OBVIOUS
  <2>1. 4 .. 4 + n \subseteq used
    OBVIOUS
  <2>2. Cardinality(4 .. 4 + n) = n + 1
    BY <1>1, FS_Interval
  <2>3. Cardinality(4 .. 4 + n) <= Cardinality(used)
    BY <2>1, <1>2, FS_Subset
  <2> QED
    BY <2>2, <2>3, <1>1, <1>2
<1>4. free \in SUBSET Nat
  BY <1>1
<1>5. LowestFree = Min(free)
  BY DEF LowestFree
<1>6. LowestFree \in free
  BY <1>3, <1>4, <1>5, SmallestOf
<1> QED
  BY <1>6, <1>1

\* The accepted client gets the lowest free number, and maxfd follows.
LEMMA AcceptNumbered ==
    ASSUME Typed, Backlog, Numbered, NEW c \in Clients, SelectAccept(c)
    PROVE  Numbered'
<1>1. PICK n : n = LowestFree
  OBVIOUS
<1>2. n \in Nat /\ n >= 4 /\ \A d \in OpenConns : fd[d] # n
  BY <1>1, LowestIsFree
<1>3. PICK m : m = Max({maxfd, n})
  OBVIOUS
<1>4. m \in Nat /\ m >= maxfd /\ m >= n /\ maxfd \in Nat /\ maxfd >= 3
  <2>1. maxfd \in Nat /\ maxfd >= 3
    BY DEF Numbered
  <2>2. {maxfd, n} \in SUBSET (0 .. maxfd + n) /\ {maxfd, n} # {} /\ maxfd + n \in Nat
    BY <2>1, <1>2
  <2>3. Max({maxfd, n}) \in {maxfd, n} /\ \A y \in {maxfd, n} : y <= Max({maxfd, n})
    BY <2>2, LargestOf
  <2> QED
    BY <2>1, <2>3, <1>2, <1>3
<1>5. kind = "select" /\ kind' = kind /\ srv' = [srv EXCEPT ![c] = "open"] /\ fd' = [fd EXCEPT ![c] = n] /\ maxfd' = m
  BY <1>1, <1>3 DEF SelectAccept, Accepted
<1>6. fd' \in [Clients -> Nat] /\ maxfd' \in Nat /\ maxfd' >= 3
  BY <1>2, <1>4, <1>5 DEF Numbered
<1>7. ASSUME NEW d \in Clients
      PROVE  IF kind' = "select" /\ srv'[d] = "open" THEN fd'[d] \in 4 .. maxfd' ELSE fd'[d] = 0
  <2>1. CASE d = c
    BY <2>1, <1>2, <1>4, <1>5 DEF Numbered, Typed
  <2>2. CASE d # c
    <3>1. srv'[d] = srv[d] /\ fd'[d] = fd[d]
      BY <2>2, <1>5 DEF Numbered, Typed
    <3>2. IF kind = "select" /\ srv[d] = "open" THEN fd[d] \in 4 .. maxfd ELSE fd[d] = 0
      BY DEF Numbered
    <3> QED
      BY <3>1, <3>2, <1>4, <1>5
  <2> QED
    BY <2>1, <2>2
<1>8. ASSUME NEW d \in OpenConns', NEW e \in OpenConns', fd'[d] = fd'[e] PROVE d = e
  <2>1. \A x \in OpenConns' : x \in Clients /\ (x = c \/ (x \in OpenConns /\ fd'[x] = fd[x]))
    BY <1>5 DEF OpenConns, Numbered, Typed
  <2>2. fd'[c] = n
    BY <1>5 DEF Numbered
  <2> QED
    BY <2>1, <2>2, <1>2, <1>5, <1>8 DEF Numbered
<1> QED
  BY <1>6, <1>7, <1>8 DEF Numbered

\* The number of a connection that is closed is free again, and maxfd is the
\* highest that is left, unless none is.
LEMMA ClosesNumbered ==
    ASSUME Typed, Numbered, NEW c \in Clients, Closes(c), kind' = kind, srv[c] = "open"
    PROVE  Numbered'
<1> DEFINE left == {fd[d] : d \in OpenConns \ {c}}
<1>1. fd' = [fd EXCEPT ![c] = 0] /\ srv' = [srv EXCEPT ![c] = "closed"] /\ maxfd' = IF kind = "select" THEN MaxfdWithout(c) ELSE maxfd
  BY DEF Closes
<1>2. CASE kind # "select"
  BY <1>1, <1>2 DEF Numbered, Typed
<1>3. CASE kind = "select"
  <2>1. maxfd \in Nat /\ left \in SUBSET (0 .. maxfd) /\ maxfd >= 3 /\ \A y \in left : y >= 4
    BY <1>3 DEF Numbered, OpenConns
  <2>2. maxfd' \in Nat /\ maxfd' >= 3 /\ \A y \in left : y <= maxfd'
    <3>1. CASE left = {}
      BY <3>1, <2>1, <1>1, <1>3 DEF MaxfdWithout
    <3>2. CASE left # {}
      <4>1. maxfd' = Max(left)
        BY <3>2, <1>1, <1>3 DEF MaxfdWithout
      <4>2. Max(left) \in left /\ \A y \in left : y <= Max(left)
        BY <3>2, <2>1, LargestOf
      <4>3. PICK k : k = Max(left)
        OBVIOUS
      <4> HIDE DEF left
      <4>4. k \in left /\ \A y \in left : y <= k
        BY <4>2, <4>3
      <4>5. k \in Nat /\ k >= 4
        BY <4>4, <2>1
      <4> QED
        BY <4>1, <4>3, <4>4, <4>5
    <3> QED
      BY <3>1, <3>2
  <2>3. fd' \in [Clients -> Nat]
    BY <1>1 DEF Numbered
  <2>4. ASSUME NEW d \in Clients
        PROVE  IF kind' = "select" /\ srv'[d] = "open" THEN fd'[d] \in 4 .. maxfd' ELSE fd'[d] = 0
    <3>1. CASE d = c
      BY <3>1, <1>1 DEF Numbered, Typed
    <3>2. CASE d # c
      <4>1. srv'[d] = srv[d] /\ fd'[d] = fd[d]
        BY <3>2, <1>1 DEF Numbered, Typed
      <4>2. IF srv[d] = "open" THEN fd[d] \in 4 .. maxfd ELSE fd[d] = 0
        BY <1>3 DEF Numbered
      <4>3. srv[d] = "open" => fd[d] \in left
        BY <3>2 DEF OpenConns
      <4> HIDE DEF left
      <4> QED
        BY <4>1, <4>2, <4>3, <2>1, <2>2, <1>3
    <3> QED
      BY <3>1, <3>2
  <2>5. \A d, e \in OpenConns' : fd'[d] = fd'[e] => d = e
    BY <1>1, <1>3 DEF Numbered, OpenConns, Typed
  <2> HIDE DEF left
  <2> QED
    BY <2>2, <2>3, <2>4, <2>5 DEF Numbered
<1> QED
  BY <1>2, <1>3

LEMMA NumberedKept ==
    ASSUME IInv, Numbered, [Next]_vars
    PROVE  Numbered'
<1> USE DEF cliVars, loopVars, forkVars, IInv
<1>1. ASSUME kind' = kind, fd' = fd, maxfd' = maxfd, \A d \in Clients : srv'[d] = "open" <=> srv[d] = "open"
      PROVE  Numbered'
  <2>1. OpenConns' = OpenConns
    BY <1>1 DEF OpenConns
  <2> QED
    BY <1>1, <2>1 DEF Numbered
<1>2. ASSUME kind' = kind, fd' = fd, maxfd' = maxfd, kind # "select" PROVE Numbered'
  BY <1>2 DEF Numbered
<1>3. ASSUME Ends, kind' = kind PROVE Numbered'
  <2>1. \A d \in Clients : srv'[d] # "open" /\ fd'[d] = 0
    BY <1>3 DEF Ends
  <2>2. OpenConns' = {}
    BY <2>1 DEF OpenConns
  <2>3. fd' \in [Clients -> Nat] /\ maxfd' = 3
    BY <1>3 DEF Ends
  <2> QED
    BY <2>1, <2>2, <2>3 DEF Numbered
<1>4. ASSUME NEW c \in Clients, Connect(c) PROVE Numbered'
  <2>1. srv[c] = "none"
    BY <1>4 DEF Connect, Conversation, New
  <2> QED
    BY <1>4, <2>1, <1>1 DEF Connect, Typed
<1>5. ASSUME NEW c \in Clients, Accept(c) PROVE Numbered'
  <2>1. CASE SelectAccept(c)
    BY <2>1, AcceptNumbered
  <2>2. CASE Hangup(c)
    BY <2>2, <1>2 DEF Hangup
  <2>3. CASE BlockingAccept(c) \/ ForkAccept(c) \/ EpollAccept(c)
    BY <2>3, <1>2 DEF BlockingAccept, ForkAccept, EpollAccept, Blocking, Polled, Small, Edge, Single
  <2> QED
    BY <2>1, <2>2, <2>3, <1>5 DEF Accept
<1>6. ASSUME NEW c \in Clients, Handle(c) PROVE Numbered'
  <2>1. CASE Echo(c)
    BY <2>1, <1>1 DEF Echo
  <2>2. CASE ProcessExits(c) /\ kind = "fork" /\ kind' = kind
    BY <2>2, <1>2 DEF ProcessExits
  <2>3. CASE Ends /\ kind' = kind
    BY <2>3, <1>3
  <2>4. CASE Closes(c) /\ kind' = kind /\ srv[c] = "open"
    BY <2>4, ClosesNumbered
  <2> QED
    BY <1>6, <2>1, <2>2, <2>3, <2>4 DEF Handle, Farewell, Broken, Turn
<1>7. ASSUME NEW c \in Clients, Processes(c) PROVE Numbered'
  <2>1. CASE ChildListens(c)
    BY <2>1, <1>2 DEF ChildListens, Forks
  <2>2. CASE ParentServes(c) \/ Reap(c)
    BY <2>2, <1>1 DEF ParentServes, Reap
  <2> QED
    BY <1>7, <2>1, <2>2 DEF Processes
<1>8. ASSUME Console PROVE Numbered'
  BY <1>8, <1>1, <1>3 DEF Console
<1>9. ASSUME NEW c \in Clients, (\E line \in LinesOf(c) : Type(c, line)) \/ Take(c) \/ Kill(c) \/ Reset(c) \/ Expire(c)
      PROVE  Numbered'
  BY <1>9, <1>1 DEF Type, Take, Kill, Reset, Expire
<1>10. ASSUME Boot \/ Waits \/ UNCHANGED vars PROVE Numbered'
  BY <1>10, <1>1 DEF Boot, Waits, Select, EpollWait, vars
<1> QED
  BY <1>4, <1>5, <1>6, <1>7, <1>8, <1>9, <1>10 DEF Next

LEMMA NumbersStand == Spec => []Numbered
<1>1. Init => Numbered
  BY DEF Init, Numbered, OpenConns
<1>2. IInv /\ Numbered /\ [Next]_vars => Numbered'
  BY NumberedKept
<1> QED
  BY <1>1, <1>2, Invariance, PTL DEF Spec

\* Type correctness; with it, that what is reported to the loop of an event
\* server is open, and that the numbers of the select server lie below maxfd.
THEOREM EchoTypes == Spec => []TypeOK
<1>1. IInv /\ Numbered => TypeOK
  <2> SUFFICES ASSUME IInv, Numbered PROVE TypeOK
    OBVIOUS
  <2>1. \A c \in Clients : fd[c] \in {0} \union 4 .. maxfd
    BY DEF Numbered
  <2> QED
    BY <2>1 DEF IInv, Typed, Reports, TypeOK
<1> QED
  BY <1>1, Invariance, NumbersStand, PTL

\* select is asked about every connection it has to look at: what the loop of 10
\* and 11 computes into maxfd when it accepts and when it removes a client never
\* falls below the number of a client that is still open, and no two have the
\* same.
EveryOpenIsWatched ==
    kind = "select" =>
        /\ \A c \in OpenConns : Readable(c) => Watched(c)
        /\ \A c, d \in OpenConns : fd[c] = fd[d] => c = d

THEOREM NoneOverlooked == Spec => []EveryOpenIsWatched
<1>1. Numbered => EveryOpenIsWatched
  BY DEF Numbered, EveryOpenIsWatched, Watched, OpenConns
<1> QED
  BY <1>1, NumbersStand, PTL

=============================================================================

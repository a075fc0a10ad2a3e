-------------------------- MODULE ChatServerProofs --------------------------
(***************************************************************************)
(* The chat room's safety for any number of clients, threads, descriptors  *)
(* and texts.  The invariants, each resting on those before it:            *)
(*   Typed          what a thread carries at each point of handleClient;   *)
(*   OneDescriptor  a connection has one number, once in its life;         *)
(*   SentOnce       a message is in one place until it is broadcast;       *)
(*   MutexHeld      client_mutex belongs to the thread that broadcasts;    *)
(*   CastBehind     what that thread has done so far;                      *)
(*   NoLongText     what nobody reads if no text fills the buffer of recv. *)
(***************************************************************************)
EXTENDS ChatServer, SequenceTheorems, WellFoundedInduction, TLAPS

\* What handleClient passes on to the room.
Spoken == {"LOGIN", "CHAT", "HEAD"}

\* Where a thread has no message in its hands.
EmptyHanded == {"idle", "recv", "waiting", "erase_gone", "close_gone"}

\* What is unread was written by the client at the other end.
Unread ==
    \A c \in Clients : \A i \in DOMAIN inbox[c] :
        /\ inbox[c][i].type # "NONE"
        /\ inbox[c][i].from = c
        /\ inbox[c][i].n <= chats[c]

\* What a thread carries at each point of handleClient.
Carries(w) ==
    /\ wpc[w] = "idle" <=> wfd[w] = 0
    /\ wpc[w] = "waiting" <=> wconn[w] # None
    /\ wpc[w] \in EmptyHanded => wmsg[w] = NoMsg
    /\ wpc[w] \notin EmptyHanded =>
           /\ wmsg[w].type # "NONE"
           /\ wmsg[w].from \in Clients
           /\ wmsg[w].n <= chats[wmsg[w].from]
    /\ wpc[w] \in {"login", "chat", "cast"} => wmsg[w].type \in Spoken

Typed == TypeOK /\ Unread /\ \A w \in Workers : Carries(w)

\* The main thread has not accepted c.
Outside(c) == cpc[c] = "start" \/ \E i \in DOMAIN backlog : backlog[i] = c

\* Nothing in the server has to do with c.
Unknown(c) ==
    /\ \A f \in Fds : fds[f] # c
    /\ \A w \in Workers : wconn[w] # c /\ wmsg[w].from # c
    /\ outbox[c] = <<>>

\* The server hears of a connection when it accepts it.
UnknownOutside == \A c \in Clients : Outside(c) => Unknown(c)

\* Before it connects a client has sent nothing; then it connects once.
ConnectsOnce ==
    /\ \A c \in Clients : cpc[c] = "start" =>
           inbox[c] = <<>> /\ \A i \in DOMAIN backlog : backlog[i] # c
    /\ \A i, j \in DOMAIN backlog : backlog[i] = backlog[j] => i = j

\* A connection has at most one number, and what a thread has read comes from the
\* number of its task or from a connection that is closed.
OwnNumber ==
    /\ \A f, g \in Fds : fds[f] = fds[g] /\ fds[f] # None => f = g
    /\ \A w \in Workers, f \in Fds :
           fds[f] # None /\ fds[f] \in {wconn[w], wmsg[w].from} => f = wfd[w]

OneDescriptor == UnknownOutside /\ ConnectsOnce /\ OwnNumber

\* Nothing that is unread is unread twice or was broadcast.
UnreadOnce ==
    /\ \A c \in Clients : \A i, j \in DOMAIN inbox[c] :
           inbox[c][i].type \in Spoken /\ inbox[c][i] = inbox[c][j] => i = j
    /\ \A c, d \in Clients : \A i \in DOMAIN inbox[c], k \in DOMAIN outbox[d] :
           inbox[c][i] # outbox[d][k]

\* What is in a thread's hands is neither unread nor in another thread's hands, and
\* was broadcast to nobody unless this thread is about it.
HeldOnce ==
    /\ \A c \in Clients, w \in Workers : \A i \in DOMAIN inbox[c] :
           inbox[c][i].type \in Spoken => inbox[c][i] # wmsg[w]
    /\ \A v, w \in Workers : v # w /\ wmsg[v].type \in Spoken => wmsg[v] # wmsg[w]
    /\ \A d \in Clients, w \in Workers : \A k \in DOMAIN outbox[d] :
           outbox[d][k] = wmsg[w] => wpc[w] = "cast"

\* What was broadcast had been written.
SentWritten ==
    \A d \in Clients : \A k \in DOMAIN outbox[d] :
        /\ outbox[d][k].type \in Spoken
        /\ outbox[d][k].from \in Clients
        /\ outbox[d][k].n <= chats[outbox[d][k].from]
        /\ cpc[outbox[d][k].from] # "start"

\* A message is unread, in the hands of one thread or broadcast.
SentOnce == UnreadOnce /\ HeldOnce /\ SentWritten

\* client_mutex belongs to the thread that broadcasts.
MutexHeld == \A w \in Workers : mutex = w <=> wpc[w] = "cast"

\* Whoever has got the message that is being broadcast has got nothing since, and
\* its number is behind the broadcast.
CastBehind ==
    \A w \in Workers, d \in Clients : \A k \in DOMAIN outbox[d] :
        wpc[w] = "cast" /\ outbox[d][k] = wmsg[w] =>
            /\ k = Len(outbox[d])
            /\ \A f \in Fds : fds[f] = d => f <= wpos[w]

\* As long as no text is longer than the buffer: no client is left in the room
\* without a thread that will take it out.
NoLongText ==
    habit.verbose = {} =>
        /\ \A c \in Clients : \A i \in DOMAIN inbox[c] : inbox[c][i].type \notin {"HEAD", "TAIL"}
        /\ \A w \in Workers : wpc[w] # "invalid"
        /\ \A f \in clients : \E w \in Workers : wfd[w] = f /\ wpc[w] # "close_gone"

-----------------------------------------------------------------------------
(* What messages and descriptors are *)

\* A set of descriptors has a lowest one.
LEMMA LowestFree == ASSUME NEW S \in SUBSET Nat, S # {} PROVE Min(S) \in S
<1>1. PICK x \in S : \A y \in S : ~(<<y, x>> \in OpToRel(<, Nat))
    BY NatLessThanWellFounded, WFMin
<1>2. \A y \in S : ~(y < x)
    <2>1. \A y, z \in Nat : y < z => <<y, z>> \in OpToRel(<, Nat)
        BY DEF OpToRel
    <2> QED
        BY <1>1, <2>1, Zenon
<1>3. \A y \in S : x <= y
    BY <1>2
<1> QED
    BY <1>3 DEF Min

\* The messages of c.
LEMMA MessageOf ==
    ASSUME ChatAssumption, NEW c \in Clients, NEW n \in 0 .. MaxChats,
           NEW type \in {"LOGIN", "CHAT", "QUIT", "HEAD", "TAIL"}
    PROVE  Msg(type, c, n) \in Messages
BY DEF Msg, Messages

\* What a thread holds before it has read anything counts as a message.
LEMMA NoMessage == ChatAssumption => NoMsg \in Messages
BY DEF ChatAssumption, NoMsg, Msg, Messages

-----------------------------------------------------------------------------
(* Types, and what a thread carries *)

\* At the start every variable has its type.
LEMMA InitiallyTyped == Init => Typed
<1> SUFFICES ASSUME Init PROVE Typed
    OBVIOUS
<1> USE ChatAssumption
<1>1. TypeOK
    <2>1. /\ inbox \in [Clients -> Seq(Messages)] /\ outbox \in [Clients -> Seq(Messages)]
          /\ backlog \in Seq(Clients) /\ tasks \in Seq([fd : Fds, cin : Clients])
        BY EmptySeq DEF Init
    <2>2. chats \in [Clients -> 0 .. MaxChats]
        BY DEF Init, ChatAssumption
    <2>3. wmsg \in [Workers -> Messages]
        BY NoMessage DEF Init
    <2> QED
        BY <2>1, <2>2, <2>3 DEF Init, TypeOK
<1>2. Unread
    BY DEF Init, Unread
<1>3. \A w \in Workers : Carries(w)
    BY DEF Init, Carries, EmptyHanded
<1> QED
    BY <1>1, <1>2, <1>3 DEF Typed

\* What a client does leaves the threads alone.
LEMMA ClientsTyped ==
    ASSUME Typed, NEW c \in Clients, Connect(c) \/ Say(c) \/ Quit(c) \/ Vanish(c)
    PROVE  Typed'
<1> USE ChatAssumption
<1>a. 0 \in 0 .. MaxChats
    BY DEF ChatAssumption
<1>1. CASE Connect(c)
    <2> DEFINE m == Msg("LOGIN", c, 0)
    <2>1. m \in Messages
        BY <1>a, MessageOf
    <2>2. <<m>> \in Seq(Messages)
        BY <2>1
    <2>3. Append(backlog, c) \in Seq(Clients)
        BY AppendProperties DEF Typed, TypeOK
    <2>4. TypeOK'
        BY <1>1, <2>2, <2>3 DEF Connect, Typed, TypeOK, poolVars
    <2>5. Unread'
        BY <1>1 DEF Connect, Typed, TypeOK, Unread, Msg
    <2>6. \A w \in Workers : Carries(w)'
        BY <1>1 DEF Connect, Typed, Carries, poolVars
    <2> QED
        BY <2>4, <2>5, <2>6 DEF Typed
<1>2. CASE Say(c)
    <2> DEFINE n == chats[c] + 1
    <2>1. n \in 0 .. MaxChats /\ chats' \in [Clients -> 0 .. MaxChats] /\ n = chats'[c]
          /\ \A d \in Clients : chats[d] <= chats'[d]
        BY <1>2 DEF Say, MayWrite, Typed, TypeOK, ChatAssumption
    <2> DEFINE texts == {Msg(t, c, n) : t \in {"CHAT", "HEAD", "TAIL"}}
    <2>2. texts \subseteq Messages
        BY <2>1, MessageOf
    <2>3. inbox[c] \in Seq(Messages)
        BY DEF Typed, TypeOK
    <2>4. PICK s \in Seq(texts) : inbox' = [inbox EXCEPT ![c] = @ \o s]
        <3>1. CASE inbox' = [inbox EXCEPT ![c] = Append(@, Msg("CHAT", c, n))]
            <4>1. Append(inbox[c], Msg("CHAT", c, n)) = inbox[c] \o <<Msg("CHAT", c, n)>>
                BY <2>2, <2>3, AppendIsConcat
            <4>2. <<Msg("CHAT", c, n)>> \in Seq(texts)
                OBVIOUS
            <4> QED
                BY <3>1, <4>1, <4>2
        <3>2. CASE inbox' = [inbox EXCEPT ![c] = @ \o <<Msg("HEAD", c, n), Msg("TAIL", c, n)>>]
            <4>1. <<Msg("HEAD", c, n), Msg("TAIL", c, n)>> \in Seq(texts)
                OBVIOUS
            <4> QED
                BY <3>2, <4>1
        <3> QED
            BY <1>2, <3>1, <3>2 DEF Say
    <2>5. s \in Seq(Messages)
        BY <2>2, <2>4, SeqMonotonic
    <2>6. /\ inbox[c] \o s \in Seq(Messages)
          /\ \A i \in DOMAIN (inbox[c] \o s) :
                 \/ i \in DOMAIN inbox[c] /\ (inbox[c] \o s)[i] = inbox[c][i]
                 \/ (inbox[c] \o s)[i] \in texts
        BY <2>3, <2>4, <2>5, ConcatProperties, LenProperties, ElementOfSeq
    <2>7. TypeOK'
        BY <1>2, <2>1, <2>4, <2>6 DEF Say, Typed, TypeOK, poolVars
    <2>8. Unread'
        <3> SUFFICES ASSUME NEW d \in Clients, NEW i \in DOMAIN inbox'[d]
                     PROVE  /\ inbox'[d][i].type # "NONE" /\ inbox'[d][i].from = d
                            /\ inbox'[d][i].n <= chats'[d]
            BY DEF Unread
        <3>0. \A m \in texts : m.type # "NONE" /\ m.from = c /\ m.n = n
            BY DEF Msg
        <3>1. CASE d = c
            <4>1. inbox'[c] = inbox[c] \o s
                BY <2>4 DEF Typed, TypeOK
            <4>2. CASE inbox'[c][i] \in texts
                BY <3>0, <3>1, <4>2, <2>1
            <4>3. CASE i \in DOMAIN inbox[c] /\ inbox'[c][i] = inbox[c][i]
                <5>1. inbox[c][i] \in Messages
                    BY <2>3, <4>3, LenProperties, ElementOfSeq
                <5> QED
                    BY <5>1, <3>1, <4>3, <2>1 DEF Typed, TypeOK, Unread, Messages
            <4> QED
                BY <3>1, <4>1, <4>2, <4>3, <2>6
        <3>2. CASE d # c
            <4>1. inbox'[d] = inbox[d] /\ chats'[d] = chats[d]
                BY <3>2, <2>4, <1>2 DEF Say, Typed, TypeOK
            <4> QED
                BY <4>1 DEF Typed, Unread
        <3> QED
            BY <3>1, <3>2
    <2>9. ASSUME NEW w \in Workers PROVE Carries(w)'
        <3>1. wmsg[w].from \in Clients => wmsg[w].n \in Int /\ chats[wmsg[w].from] \in Int
            BY DEF Typed, TypeOK, Messages
        <3>2. UNCHANGED <<wpc, wfd, wconn, wmsg>>
            BY <1>2 DEF Say, poolVars
        <3>3. wmsg[w].from \in Clients => chats'[wmsg[w].from] \in Int
            BY <2>1
        <3> QED
            BY <2>1, <3>1, <3>2, <3>3 DEF Typed, Carries
    <2> QED
        BY <2>7, <2>8, <2>9 DEF Typed
<1>3. CASE Quit(c)
    <2> DEFINE m == Msg("QUIT", c, 0)
    <2>1. m \in Messages /\ m.type # "NONE" /\ m.from = c /\ m.n = 0
        BY <1>a, MessageOf DEF Msg
    <2>2. inbox[c] \in Seq(Messages)
        BY DEF Typed, TypeOK
    <2>3. /\ Append(inbox[c], m) \in Seq(Messages)
          /\ \A i \in DOMAIN Append(inbox[c], m) :
                 \/ i \in DOMAIN inbox[c] /\ Append(inbox[c], m)[i] = inbox[c][i]
                 \/ Append(inbox[c], m)[i] = m
        BY <2>1, <2>2, AppendProperties, LenProperties
    <2>4. TypeOK'
        BY <1>3, <2>3 DEF Quit, Typed, TypeOK, poolVars
    <2>5. Unread'
        <3>1. inbox' = [inbox EXCEPT ![c] = Append(@, m)] /\ chats' = chats
            BY <1>3 DEF Quit
        <3>2. \A d \in Clients : chats[d] \in Nat
            BY DEF Typed, TypeOK, ChatAssumption
        <3> HIDE DEF m
        <3> SUFFICES ASSUME NEW d \in Clients, NEW i \in DOMAIN inbox'[d]
                     PROVE  /\ inbox'[d][i].type # "NONE" /\ inbox'[d][i].from = d
                            /\ inbox'[d][i].n <= chats[d]
            BY <3>1, ZenonT(30) DEF Unread
        <3>3. CASE d = c
            <4>1. inbox'[d] = Append(inbox[c], m)
                BY <3>1, <3>3 DEF Typed, TypeOK
            <4>2. inbox'[d][i] = m \/ (i \in DOMAIN inbox[c] /\ inbox'[d][i] = inbox[c][i])
                BY <4>1, <2>3
            <4> QED
                BY <4>2, <3>2, <3>3, <2>1 DEF Typed, Unread
        <3>4. CASE d # c
            BY <3>1, <3>4 DEF Typed, TypeOK, Unread
        <3> QED
            BY <3>3, <3>4
    <2>6. \A w \in Workers : Carries(w)'
        BY <1>3 DEF Quit, Typed, Carries, poolVars
    <2> QED
        BY <2>4, <2>5, <2>6 DEF Typed
<1>4. CASE Vanish(c)
    BY <1>4 DEF Vanish, Typed, TypeOK, Unread, Carries, poolVars
<1> QED
    BY <1>1, <1>2, <1>3, <1>4

\* Accepting and stopping.
LEMMA MainTyped == ASSUME Typed, MainStep PROVE Typed'
<1> USE ChatAssumption
<1>1. CASE Accept
    <2>1. Min(FreeFds) \in Fds
        <3>1. FreeFds # {} /\ FreeFds \in SUBSET Nat /\ FreeFds \subseteq Fds
            BY <1>1 DEF Accept, FreeFds, ChatAssumption
        <3>2. Min(FreeFds) \in FreeFds
            BY <3>1, LowestFree
        <3> QED
            BY <3>1, <3>2
    <2>2. Head(backlog) \in Clients /\ Tail(backlog) \in Seq(Clients)
        BY <1>1, HeadTailProperties DEF Accept, Typed, TypeOK
    <2>3. Append(tasks, [fd |-> Min(FreeFds), cin |-> Head(backlog)]) \in Seq([fd : Fds, cin : Clients])
        BY <2>1, <2>2, AppendProperties DEF Typed, TypeOK
    <2>4. TypeOK'
        BY <1>1, <2>1, <2>2, <2>3 DEF Accept, Typed, TypeOK
    <2>5. Unread' /\ \A w \in Workers : Carries(w)'
        BY <1>1 DEF Accept, Typed, Unread, Carries
    <2> QED
        BY <2>4, <2>5 DEF Typed
<1>2. CASE AcceptError
    BY <1>2 DEF AcceptError, netVars, Typed, TypeOK, Unread, Carries
<1>3. CASE Stop
    BY <1>3 DEF Stop, netVars, Typed, TypeOK, Unread, Carries
<1> QED
    BY <1>1, <1>2, <1>3 DEF MainStep

\* What recv returns is a message of the connection it was called on.
LEMMA Received ==
    ASSUME Typed, NEW c \in Clients, NEW k \in Readable(c)
    PROVE  /\ SubSeq(inbox[c], k + 1, Len(inbox[c])) \in Seq(Messages)
           /\ \A i \in DOMAIN SubSeq(inbox[c], k + 1, Len(inbox[c])) :
                  k + i \in DOMAIN inbox[c] /\ SubSeq(inbox[c], k + 1, Len(inbox[c]))[i] = inbox[c][k + i]
           /\ DOMAIN SubSeq(inbox[c], k + 1, Len(inbox[c])) \subseteq Nat
           /\ Parsed(c, k) \in Messages
           /\ \E i \in DOMAIN inbox[c] : i <= k /\ Parsed(c, k) = inbox[c][i]
<1> DEFINE s == inbox[c]
<1>1. s \in Seq(Messages)
    BY DEF Typed, TypeOK
<1>2. Len(s) \in Nat /\ DOMAIN s = 1 .. Len(s) /\ \A i \in 1 .. Len(s) : s[i] \in Messages
    BY <1>1, LenProperties, ElementOfSeq
<1>3. k \in 1 .. Len(s)
    BY DEF Readable
<1>4. 1 \in 1 .. Len(s)
    BY <1>2, <1>3
<1>0. k \in Int /\ Len(s) \in Int /\ 1 <= k /\ k <= Len(s)
    BY <1>2, <1>3
<1> HIDE DEF s
<1>5. /\ SubSeq(s, k + 1, Len(s)) \in Seq(Messages)
      /\ Len(SubSeq(s, k + 1, Len(s))) = Len(s) - k
      /\ \A i \in 1 .. Len(s) - k : SubSeq(s, k + 1, Len(s))[i] = s[k + i]
    <2>1. \A i \in k + 1 .. Len(s) : s[i] \in Messages
        BY <1>2, <1>3
    <2>2. k + 1 \in Int /\ Len(s) \in Int
        BY <1>2, <1>3
    <2>3. /\ SubSeq(s, k + 1, Len(s)) \in Seq(Messages)
          /\ Len(SubSeq(s, k + 1, Len(s))) = IF k + 1 <= Len(s) THEN Len(s) - (k + 1) + 1 ELSE 0
          /\ \A i \in 1 .. Len(s) - (k + 1) + 1 : SubSeq(s, k + 1, Len(s))[i] = s[(k + 1) + i - 1]
        BY <2>1, <2>2, SubSeqProperties
    <2>4. Len(SubSeq(s, k + 1, Len(s))) = Len(s) - k
        <3>1. CASE k + 1 <= Len(s)
            <4>1. Len(s) - (k + 1) + 1 = Len(s) - k
                BY <1>2, <1>3
            <4> QED
                BY <2>3, <3>1, <4>1
        <3>2. CASE ~(k + 1 <= Len(s))
            <4>1. Len(s) - k = 0
                BY <3>2, <1>0
            <4> QED
                BY <2>3, <3>2, <4>1
        <3> QED
            BY <3>1, <3>2
    <2>5. ASSUME NEW i \in 1 .. Len(s) - k PROVE SubSeq(s, k + 1, Len(s))[i] = s[k + i]
        <3>1. i \in 1 .. Len(s) - (k + 1) + 1 /\ (k + 1) + i - 1 = k + i
            BY <1>2, <1>3
        <3> QED
            BY <2>3, <3>1
    <2> QED
        BY <2>3, <2>4, <2>5
<1>6. DOMAIN SubSeq(s, k + 1, Len(s)) = 1 .. Len(s) - k
    BY <1>5, LenProperties
<1>7. Parsed(c, k) = s[1] \/ Parsed(c, k) = s[k]
    BY DEF Parsed, s
<1>8. /\ Parsed(c, k) \in Messages
      /\ \E i \in DOMAIN s : i <= k /\ Parsed(c, k) = s[i]
    BY <1>2, <1>3, <1>4, <1>7
<1>9. \A i \in 1 .. Len(s) - k : k + i \in DOMAIN s
    BY <1>2, <1>3
<1> QED
    BY <1>5, <1>6, <1>8, <1>9 DEF s

\* The message in a thread's hands is of the connection its recv was called on, it
\* was unread, and what is left unread is what came after it.
LEMMA ReadFromConn ==
    ASSUME Typed, NEW w \in Workers, RecvData(w)
    PROVE  /\ wconn[w] \in Clients
           /\ wmsg'[w].from = wconn[w]
<1>1. wconn[w] \in Clients
    BY ChatAssumption DEF RecvData, Typed, TypeOK, Carries
<1>2. PICK k \in Readable(wconn[w]) : wmsg' = [wmsg EXCEPT ![w] = Parsed(wconn[w], k)]
    BY DEF RecvData
<1>3. \E i \in DOMAIN inbox[wconn[w]] : wmsg'[w] = inbox[wconn[w]][i]
    BY <1>1, <1>2, Received DEF Typed, TypeOK
<1> QED
    BY <1>1, <1>3 DEF Typed, Unread

\* Taking a task, calling recv and its end.
LEMMA RecvTyped ==
    ASSUME Typed, NEW w \in Workers, TakeTask(w) \/ RecvCall(w) \/ RecvEnd(w)
    PROVE  Typed'
<1> USE ChatAssumption
<1>1. CASE TakeTask(w)
    <2>1. Head(tasks) \in [fd : Fds, cin : Clients] /\ Tail(tasks) \in Seq([fd : Fds, cin : Clients])
        BY <1>1, HeadTailProperties DEF TakeTask, Typed, TypeOK
    <2>2. TypeOK'
        BY <1>1, <2>1 DEF TakeTask, netVars, Typed, TypeOK
    <2>3. Unread'
        BY <1>1 DEF TakeTask, netVars, Typed, Unread
    <2>4. ASSUME NEW v \in Workers PROVE Carries(v)'
        <3>1. wfd'[v] = IF v = w THEN Head(tasks).fd ELSE wfd[v]
            BY <1>1 DEF TakeTask, Typed, TypeOK
        <3>2. wpc'[v] = IF v = w THEN "recv" ELSE wpc[v]
            BY <1>1 DEF TakeTask, Typed, TypeOK
        <3>3. Head(tasks).fd # 0
            BY <2>1 DEF ChatAssumption
        <3> QED
            BY <1>1, <3>1, <3>2, <3>3 DEF TakeTask, netVars, Typed, Carries, EmptyHanded
    <2> QED
        BY <2>2, <2>3, <2>4 DEF Typed
<1>2. CASE RecvCall(w)
    <2>1. wfd[w] \in Fds
        BY <1>2 DEF RecvCall, Typed, TypeOK, Carries
    <2>2. TypeOK'
        BY <1>2, <2>1 DEF RecvCall, netVars, poolVars, Typed, TypeOK
    <2>3. Unread'
        BY <1>2 DEF RecvCall, netVars, Typed, Unread
    <2>4. ASSUME NEW v \in Workers PROVE Carries(v)'
        BY <1>2, <2>1 DEF RecvCall, netVars, poolVars, Typed, TypeOK, Carries, EmptyHanded
    <2> QED
        BY <2>2, <2>3, <2>4 DEF Typed
<1>3. CASE RecvEnd(w)
    <2>2. TypeOK'
        BY <1>3 DEF RecvEnd, AtEnd, netVars, poolVars, Typed, TypeOK
    <2>3. Unread'
        BY <1>3 DEF RecvEnd, netVars, Typed, Unread
    <2>4. ASSUME NEW v \in Workers PROVE Carries(v)'
        BY <1>3 DEF RecvEnd, AtEnd, netVars, poolVars, Typed, TypeOK, Carries, EmptyHanded
    <2> QED
        BY <2>2, <2>3, <2>4 DEF Typed
<1> QED
    BY <1>1, <1>2, <1>3

\* The point that a type of message leads to.
LEMMA Handled ==
    /\ Handler("LOGIN") = "login" /\ Handler("CHAT") = "chat" /\ Handler("HEAD") = "chat"
    /\ Handler("QUIT") = "erase_quit" /\ Handler("TAIL") = "invalid"
BY DEF Handler

\* Whatever recv returns, merged, cut or parsed wrongly, is a message or two.
LEMMA RecvDataTyped == ASSUME Typed, NEW w \in Workers, RecvData(w) PROVE Typed'
<1> USE ChatAssumption
<1> DEFINE c == wconn[w]
<1>1. c \in Clients
    BY DEF RecvData, Typed, TypeOK, Carries
<1>2. PICK k \in Readable(c) :
          /\ inbox' = [inbox EXCEPT ![c] = SubSeq(@, k + 1, Len(@))]
          /\ wmsg' = [wmsg EXCEPT ![w] = Parsed(c, k)]
          /\ wpc' = [wpc EXCEPT ![w] = Handler(Parsed(c, k).type)]
    BY DEF RecvData
<1> DEFINE rest == SubSeq(inbox[c], k + 1, Len(inbox[c]))
           m == Parsed(c, k)
<1>3. /\ rest \in Seq(Messages)
      /\ \A i \in DOMAIN rest : k + i \in DOMAIN inbox[c] /\ rest[i] = inbox[c][k + i]
      /\ m \in Messages
      /\ \E i \in DOMAIN inbox[c] : m = inbox[c][i]
    <2> HIDE DEF c
    <2>1. rest \in Seq(Messages) /\ m \in Messages
        BY <1>1, <1>2, Received
    <2>2. \A i \in DOMAIN rest : k + i \in DOMAIN inbox[c] /\ rest[i] = inbox[c][k + i]
        BY <1>1, <1>2, Received
    <2>3. \E i \in DOMAIN inbox[c] : m = inbox[c][i]
        BY <1>1, <1>2, Received
    <2> QED
        BY <2>1, <2>2, <2>3
<1>4. m.type # "NONE" /\ m.from = c /\ m.n <= chats[c]
    BY <1>1, <1>3 DEF Typed, Unread
<1>5. m.type \in {"LOGIN", "CHAT", "QUIT", "HEAD", "TAIL"}
    BY <1>3, <1>4 DEF Messages
<1>6. inbox' = [inbox EXCEPT ![c] = rest]
    BY <1>2
<1> HIDE DEF rest, m, c
<1>7. TypeOK'
    <2>1. wpc' = [wpc EXCEPT ![w] = Handler(m.type)] /\ wmsg' = [wmsg EXCEPT ![w] = m]
        BY <1>2 DEF m
    <2>2. Handler(m.type) \in {"login", "chat", "erase_quit", "invalid"}
        BY <1>5, Handled
    <2> QED
        BY <1>1, <1>3, <1>6, <2>1, <2>2 DEF RecvData, poolVars, Typed, TypeOK
<1>8. Unread'
    <2>1. chats' = chats
        BY DEF RecvData
    <2> SUFFICES ASSUME NEW d \in Clients, NEW i \in DOMAIN inbox'[d]
                 PROVE  inbox'[d][i].type # "NONE" /\ inbox'[d][i].from = d /\ inbox'[d][i].n <= chats[d]
        BY <2>1, Zenon DEF Unread
    <2>2. inbox'[d] = IF d = c THEN rest ELSE inbox[d]
        BY <1>6 DEF Typed, TypeOK
    <2> QED
        BY <1>3, <2>2 DEF Typed, Unread
<1>9. ASSUME NEW v \in Workers PROVE Carries(v)'
    <2>1. wpc'[v] = (IF v = w THEN Handler(m.type) ELSE wpc[v]) /\ wmsg'[v] = (IF v = w THEN m ELSE wmsg[v])
        BY <1>2 DEF m, Typed, TypeOK
    <2>2. wconn'[v] = (IF v = w THEN None ELSE wconn[v]) /\ wfd' = wfd /\ chats' = chats
        BY DEF RecvData, poolVars, Typed, TypeOK
    <2>3. CASE v = w
        <3>1. wfd[w] # 0
            BY DEF RecvData, Typed, Carries
        <3> QED
            BY <1>1, <1>4, <1>5, <2>1, <2>2, <2>3, <3>1, Handled DEF Carries, EmptyHanded, Spoken
    <2>4. CASE v # w
        BY <2>1, <2>2, <2>4 DEF Typed, Carries
    <2> QED
        BY <2>3, <2>4
<1> QED
    BY <1>7, <1>8, <1>9 DEF Typed

\* Leaving the room.
LEMMA LeaveTyped == ASSUME Typed, NEW w \in Workers, Erase(w) \/ Close(w) PROVE Typed'
<1> USE ChatAssumption
<1>1. CASE Erase(w)
    <2>1. TypeOK'
        BY <1>1 DEF Erase, Erased, netVars, poolVars, Typed, TypeOK
    <2>2. Unread'
        BY <1>1 DEF Erase, netVars, Typed, Unread
    <2>3. ASSUME NEW v \in Workers PROVE Carries(v)'
        BY <1>1 DEF Erase, netVars, poolVars, Typed, TypeOK, Carries, EmptyHanded
    <2> QED
        BY <2>1, <2>2, <2>3 DEF Typed
<1>2. CASE Close(w)
    <2>1. TypeOK'
        <3>1. fds' \in [Fds -> Clients \union {None}] /\ wmsg' \in [Workers -> Messages]
            BY <1>2, NoMessage DEF Close, Closed, Typed, TypeOK
        <3>2. wpc' \in [Workers -> {"idle", "recv", "waiting", "login", "chat", "cast", "invalid",
                                    "erase_gone", "erase_quit", "close_gone", "close_quit"}]
            BY <1>2 DEF Close, Typed, TypeOK
        <3>3. wfd' \in [Workers -> Fds \union {0}] /\ wcin' \in [Workers -> Clients \union {None}]
            <4>1. wfd \in [Workers -> Fds \union {0}] /\ wcin \in [Workers -> Clients \union {None}]
                BY DEF Typed, TypeOK
            <4>2. \/ UNCHANGED <<wfd, wcin>>
                  \/ wfd' = [wfd EXCEPT ![w] = 0] /\ wcin' = [wcin EXCEPT ![w] = None]
                BY <1>2 DEF Close
            <4> QED
                BY <4>1, <4>2
        <3>4. UNCHANGED <<netVars, crashed, apc, tasks, clients, mutex, wconn, wpos>>
            BY <1>2 DEF Close
        <3> QED
            BY <3>1, <3>2, <3>3, <3>4 DEF Typed, TypeOK, netVars
    <2>2. Unread'
        BY <1>2 DEF Close, netVars, Typed, Unread
    <2>3. ASSUME NEW v \in Workers PROVE Carries(v)'
        BY <1>2 DEF Close, netVars, Typed, TypeOK, Carries, EmptyHanded
    <2> QED
        BY <2>1, <2>2, <2>3 DEF Typed
<1> QED
    BY <1>1, <1>2

\* Broadcasting.
LEMMA CastTyped ==
    ASSUME Typed, NEW w \in Workers, Lock(w) \/ Send(w) \/ EndCast(w)
    PROVE  Typed'
<1> USE ChatAssumption
<1>1. CASE Lock(w)
    <2>1. wfd[w] \in Fds
        BY <1>1 DEF Lock, Typed, TypeOK, Carries
    <2>2. TypeOK'
        BY <1>1, <2>1 DEF Lock, netVars, poolVars, Typed, TypeOK
    <2>3. Unread'
        BY <1>1 DEF Lock, netVars, Typed, Unread
    <2>4. ASSUME NEW v \in Workers PROVE Carries(v)'
        BY <1>1 DEF Lock, netVars, poolVars, Typed, TypeOK, Carries, EmptyHanded
    <2> QED
        BY <2>2, <2>3, <2>4 DEF Typed
<1>2. CASE Send(w)
    <2>1. PICK f \in Fds :
              /\ fds[f] # None
              /\ wpos' = [wpos EXCEPT ![w] = f]
              /\ \/ /\ outbox' = [outbox EXCEPT ![fds[f]] = Append(@, wmsg[w])]
                    /\ UNCHANGED <<rst, crashed>>
                 \/ /\ rst' = rst \union {fds[f]}
                    /\ crashed' \in BOOLEAN
                    /\ UNCHANGED outbox
        BY <1>2, Zenon DEF Send
    <2>2. fds[f] \in Clients
        BY <2>1 DEF Typed, TypeOK
    <2>3. Append(outbox[fds[f]], wmsg[w]) \in Seq(Messages)
        BY <2>2, AppendProperties DEF Typed, TypeOK
    <2>4. outbox' \in [Clients -> Seq(Messages)]
        <3>1. ASSUME NEW c \in Clients, NEW s \in Seq(Messages)
              PROVE  [outbox EXCEPT ![c] = s] \in [Clients -> Seq(Messages)]
            BY DEF Typed, TypeOK
        <3>2. [outbox EXCEPT ![fds[f]] = Append(@, wmsg[w])] \in [Clients -> Seq(Messages)]
            BY <2>2, <2>3, <3>1
        <3> QED
            BY <2>1, <3>2 DEF Typed, TypeOK
    <2>5. TypeOK'
        BY <1>2, <2>1, <2>2, <2>4 DEF Send, poolVars, Typed, TypeOK
    <2>6. Unread' /\ \A v \in Workers : Carries(v)'
        BY <1>2 DEF Send, poolVars, Typed, Unread, Carries
    <2> QED
        BY <2>5, <2>6 DEF Typed
<1>3. CASE EndCast(w)
    <2>1. rst' \subseteq Clients
        BY <1>3 DEF EndCast, Typed, TypeOK
    <2>2. TypeOK'
        BY <1>3, <2>1, NoMessage DEF EndCast, poolVars, Typed, TypeOK
    <2>3. Unread'
        BY <1>3 DEF EndCast, Typed, Unread
    <2>4. ASSUME NEW v \in Workers PROVE Carries(v)'
        BY <1>3 DEF EndCast, poolVars, Typed, TypeOK, Carries, EmptyHanded
    <2> QED
        BY <2>2, <2>3, <2>4 DEF Typed
<1> QED
    BY <1>1, <1>2, <1>3

\* Every step keeps the types and what the threads carry.
LEMMA TypedKept == Typed /\ [Next]_vars => Typed'
<1> SUFFICES ASSUME Typed, [Next]_vars PROVE Typed'
    OBVIOUS
<1>1. ASSUME NEW c \in Clients, Connect(c) \/ Say(c) \/ Quit(c) \/ Vanish(c) PROVE Typed'
    BY <1>1, ClientsTyped
<1>2. CASE MainStep
    BY <1>2, MainTyped
<1>3. ASSUME NEW w \in Workers, WorkerStep(w) PROVE Typed'
    BY <1>3, RecvTyped, RecvDataTyped, LeaveTyped, CastTyped DEF WorkerStep
<1>4. CASE UNCHANGED vars
    BY <1>4 DEF vars, netVars, poolVars, Typed, TypeOK, Unread, Carries
<1> QED
    BY <1>1, <1>2, <1>3, <1>4 DEF Next

\* The variables of the server have the values the program can give them, for any
\* number of clients, threads, descriptors and texts.
THEOREM TypeCorrect == Spec => []TypeOK
<1>1. Typed => TypeOK
    BY DEF Typed
<1> QED
    BY <1>1, InitiallyTyped, TypedKept, PTL DEF Spec

\* A thread has a descriptor exactly while it runs handleClient, waits on a
\* connection exactly while it is blocked in recv, and carries a parsed message of a
\* client exactly while it handles one.
THEOREM ThreadsCarry == Spec => []Typed
BY InitiallyTyped, TypedKept, PTL DEF Spec

-----------------------------------------------------------------------------
(* No descriptor is leaked *)

\* A step that opens a descriptor queues it, and one that gives up its care closes it.
LEMMA CareKept == Typed /\ NoFdLeak /\ [Next]_vars => NoFdLeak'
<1> SUFFICES ASSUME Typed, NoFdLeak, [Next]_vars, NEW f \in Fds, fds'[f] # None
             PROVE  \/ \E i \in DOMAIN tasks' : tasks'[i].fd = f
                    \/ \E w \in Workers : wfd'[w] = f
    BY DEF NoFdLeak
<1> USE ChatAssumption
<1>0. tasks \in Seq([fd : Fds, cin : Clients]) /\ f # 0
    BY DEF Typed, TypeOK, ChatAssumption
<1>1. CASE Accept
    <2> DEFINE t == [fd |-> Min(FreeFds), cin |-> Head(backlog)]
    <2>1. tasks' = Append(tasks, t) /\ fds' = [fds EXCEPT ![t.fd] = Head(backlog)] /\ wfd' = wfd
        BY <1>1 DEF Accept
    <2>2. DOMAIN tasks' = 1 .. Len(tasks) + 1 /\ tasks'[Len(tasks) + 1] = t
          /\ DOMAIN tasks = 1 .. Len(tasks) /\ \A i \in 1 .. Len(tasks) : tasks'[i] = tasks[i]
        <3>1. tasks' \in Seq([fd : Fds, cin : Clients])
            BY <1>1, MainTyped DEF MainStep, Typed, TypeOK
        <3>2. tasks \in Seq(Range(tasks) \union {t}) /\ t \in Range(tasks) \union {t}
            BY <1>0, SeqOfRange, SeqMonotonic
        <3> HIDE DEF t
        <3> QED
            BY <2>1, <3>1, <3>2, <1>0, AppendProperties, LenProperties
    <2>3. Len(tasks) \in Nat
        BY <1>0, LenProperties
    <2>4. CASE f = t.fd
        BY <2>2, <2>3, <2>4
    <2>5. CASE f # t.fd
        <3>1. fds[f] # None
            BY <2>1, <2>5 DEF Typed, TypeOK
        <3> QED
            BY <3>1, <2>1, <2>2, <2>3 DEF NoFdLeak
    <2> QED
        BY <2>4, <2>5
<1>2. ASSUME NEW w \in Workers, TakeTask(w)
      PROVE  \/ \E i \in DOMAIN tasks' : tasks'[i].fd = f
             \/ \E v \in Workers : wfd'[v] = f
    <2>1. fds[f] # None
        BY <1>2 DEF TakeTask
    <2>2. wfd[w] # f /\ wfd' = [wfd EXCEPT ![w] = tasks[1].fd]
        <3>1. wfd[w] = 0
            BY <1>2 DEF TakeTask, Typed, Carries
        <3>2. Head(tasks) = tasks[1]
            OBVIOUS
        <3> QED
            BY <1>0, <1>2, <3>1, <3>2 DEF TakeTask
    <2>3. CASE \E v \in Workers : wfd[v] = f
        BY <2>2, <2>3 DEF Typed, TypeOK
    <2>4. CASE \E i \in DOMAIN tasks : tasks[i].fd = f
        <3>1. PICK i \in DOMAIN tasks : tasks[i].fd = f
            BY <2>4
        <3>2. tasks' = Tail(tasks) /\ tasks # <<>>
            BY <1>2 DEF TakeTask
        <3>3. /\ Len(tasks) \in Nat /\ DOMAIN tasks = 1 .. Len(tasks)
              /\ DOMAIN tasks' = 1 .. Len(tasks) - 1
              /\ \A j \in 1 .. Len(tasks) - 1 : tasks'[j] = tasks[j + 1]
            BY <1>0, <3>2, HeadTailProperties, LenProperties
        <3>4. CASE i = 1
            BY <2>2, <3>1, <3>4 DEF Typed, TypeOK
        <3>5. CASE i # 1
            <4>1. i - 1 \in DOMAIN tasks' /\ tasks'[i - 1] = tasks[i]
                BY <3>3, <3>5
            <4> QED
                BY <3>1, <4>1
        <3> QED
            BY <3>4, <3>5
    <2> QED
        BY <2>1, <2>3, <2>4 DEF NoFdLeak
<1>3. ASSUME NEW w \in Workers, Close(w)
      PROVE  \/ \E i \in DOMAIN tasks' : tasks'[i].fd = f
             \/ \E v \in Workers : wfd'[v] = f
    <2>1. wfd[w] # f /\ fds[f] # None /\ tasks' = tasks
        BY <1>3 DEF Close, Closed, Typed, TypeOK
    <2>2. \A v \in Workers \ {w} : wfd'[v] = wfd[v]
        BY <1>3 DEF Close, Typed, TypeOK
    <2> QED
        BY <2>1, <2>2 DEF NoFdLeak
<1>4. CASE UNCHANGED <<fds, tasks, wfd>>
    BY <1>4 DEF NoFdLeak
<1>5. \/ Accept \/ (\E w \in Workers : TakeTask(w) \/ Close(w))
      \/ UNCHANGED <<fds, tasks, wfd>>
    BY ZenonT(30) DEF Next, Connect, Say, Quit, Vanish, MainStep, AcceptError, Stop, WorkerStep, RecvCall,
           RecvData, RecvEnd, Erase, Lock, Send, EndCast, vars, netVars, poolVars
<1> QED
    BY <1>1, <1>2, <1>3, <1>4, <1>5

\* An open descriptor is always in the care of a queued or of a running task, which
\* will close it, whatever numbers other threads close meanwhile.
THEOREM NoFdLeakInvariant == Spec => []NoFdLeak
<1>1. Init => NoFdLeak
    BY DEF Init, NoFdLeak
<1> QED
    BY <1>1, CareKept, ThreadsCarry, PTL DEF Spec

-----------------------------------------------------------------------------
(* One descriptor for a connection, once *)

\* At the start there is no connection to have two descriptors.
LEMMA InitiallyOne == Init => OneDescriptor
BY ChatAssumption DEF Init, OneDescriptor, UnknownOutside, ConnectsOnce, OwnNumber, Outside, Unknown,
   NoMsg, Msg, ChatAssumption

\* A client connects once, and is not in the backlog before that.
LEMMA ConnectOne == ASSUME Typed, OneDescriptor, NEW c \in Clients, Connect(c) PROVE OneDescriptor'
<1>1. backlog \in Seq(Clients) /\ Len(backlog) \in Nat /\ DOMAIN backlog = 1 .. Len(backlog)
    BY LenProperties DEF Typed, TypeOK
<1>2. backlog' = Append(backlog, c)
    BY DEF Connect
<1>3. /\ DOMAIN backlog' = 1 .. Len(backlog) + 1
      /\ \A i \in 1 .. Len(backlog) : backlog'[i] = backlog[i]
      /\ backlog'[Len(backlog) + 1] = c
    BY <1>1, <1>2, AppendProperties, LenProperties
<1>4. cpc[c] = "start" /\ cpc' = [cpc EXCEPT ![c] = "online"] /\ cpc \in [Clients -> {"start", "online", "gone"}]
    BY DEF Connect, Typed, TypeOK
<1>5. \A d \in Clients : Outside(d)' => Outside(d)
    BY <1>1, <1>3, <1>4 DEF Outside
<1>6. UnknownOutside'
    BY <1>5 DEF Connect, poolVars, OneDescriptor, UnknownOutside, Unknown
<1>7. ConnectsOnce'
    <2>1. inbox' = [inbox EXCEPT ![c] = <<Msg("LOGIN", c, 0)>>]
        BY DEF Connect
    <2>2. \A d \in Clients : cpc'[d] = "start" => cpc[d] = "start" /\ d # c /\ inbox'[d] = inbox[d]
        BY <1>4, <2>1
    <2>3. \A i \in DOMAIN backlog : backlog[i] # c
        BY <1>4 DEF OneDescriptor, ConnectsOnce
    <2> QED
        BY <1>1, <1>3, <2>2, <2>3 DEF OneDescriptor, ConnectsOnce
<1>8. OwnNumber'
    BY DEF Connect, poolVars, OneDescriptor, OwnNumber
<1> QED
    BY <1>6, <1>7, <1>8 DEF OneDescriptor

\* What is said or left unsaid does not touch a descriptor.
LEMMA WriteOne ==
    ASSUME Typed, OneDescriptor, NEW c \in Clients, Say(c) \/ Quit(c) \/ Vanish(c)
    PROVE  OneDescriptor'
<1>1. \A d \in Clients :
          /\ cpc'[d] = "start" => cpc[d] = "start"
          /\ cpc[d] = "start" => inbox'[d] = inbox[d]
    BY DEF Say, Quit, Vanish, Typed, TypeOK
<1>2. UNCHANGED <<backlog, outbox, fds, wfd, wconn, wmsg>>
    BY DEF Say, Quit, Vanish, poolVars
<1> QED
    BY <1>1, <1>2 DEF OneDescriptor, UnknownOutside, ConnectsOnce, OwnNumber, Outside, Unknown

\* accept opens a number that was free for a client that had none.
LEMMA AcceptOne == ASSUME Typed, OneDescriptor, Accept PROVE OneDescriptor'
<1>0. PICK c, fd : c = Head(backlog) /\ fd = Min(FreeFds)
    OBVIOUS
<1>1. /\ backlog \in Seq(Clients) /\ Len(backlog) \in Nat /\ DOMAIN backlog = 1 .. Len(backlog)
      /\ c \in Clients /\ 1 \in DOMAIN backlog /\ backlog[1] = c
      /\ DOMAIN backlog' = 1 .. Len(backlog) - 1
      /\ \A i \in 1 .. Len(backlog) - 1 : backlog'[i] = backlog[i + 1]
    BY <1>0, LenProperties, HeadTailProperties, EmptySeq DEF Accept, Typed, TypeOK
<1>2. \A i \in DOMAIN backlog' : i + 1 \in DOMAIN backlog /\ i + 1 # 1 /\ backlog'[i] = backlog[i + 1]
    BY <1>1
<1>3. fds' = [fds EXCEPT ![fd] = c] /\ UNCHANGED <<cpc, inbox, outbox, wfd, wconn, wmsg>>
    BY <1>0 DEF Accept, poolVars
<1>4. Outside(c) /\ Unknown(c) /\ ~Outside(c)'
    <2>1. cpc[c] # "start"
        BY <1>1 DEF OneDescriptor, ConnectsOnce
    <2>2. \A i \in DOMAIN backlog' : backlog'[i] # c
        BY <1>1, <1>2 DEF OneDescriptor, ConnectsOnce
    <2>3. Outside(c)
        BY <1>1 DEF Outside
    <2>4. ~Outside(c)'
        BY <1>3, <2>1, <2>2 DEF Outside
    <2> QED
        BY <1>1, <2>3, <2>4 DEF OneDescriptor, UnknownOutside
<1>5. ASSUME NEW d \in Clients, Outside(d)' PROVE Outside(d) /\ d # c
    <2>1. cpc'[d] = "start" \/ \E i \in DOMAIN backlog' : backlog'[i] = d
        BY <1>5 DEF Outside
    <2>2. cpc[d] = "start" \/ \E i \in DOMAIN backlog : backlog[i] = d
        BY <1>2, <1>3, <2>1
    <2>3. d # c
        BY <1>4, <1>5
    <2> QED
        BY <2>2, <2>3 DEF Outside
<1>6. UnknownOutside'
    BY <1>3, <1>5 DEF OneDescriptor, UnknownOutside, Unknown, Typed, TypeOK
<1>7. ConnectsOnce'
    BY <1>1, <1>2, <1>3 DEF OneDescriptor, ConnectsOnce
<1>8. OwnNumber'
    BY <1>3, <1>4 DEF OneDescriptor, OwnNumber, Unknown, Typed, TypeOK
<1> QED
    BY <1>6, <1>7, <1>8 DEF OneDescriptor

\* What the threads do leaves backlog and cpc alone.
LEMMA WorkerOne ==
    ASSUME Typed, OneDescriptor, NEW w \in Workers, WorkerStep(w)
    PROVE  OneDescriptor'
<1> USE ChatAssumption
<1>1. UNCHANGED <<backlog, cpc>>
    BY DEF WorkerStep, TakeTask, RecvCall, RecvData, RecvEnd, Erase, Close, Lock, Send, EndCast, netVars
<1>2. ASSUME NEW c \in Clients, Outside(c) PROVE Unknown(c)'
    <2>1. Unknown(c)
        BY <1>2 DEF OneDescriptor, UnknownOutside
    <2>2. \A f \in Fds : fds'[f] # c
        <3>1. CASE Close(w)
            BY <3>1, <2>1 DEF Close, Closed, Unknown, Typed, TypeOK, ChatAssumption
        <3>2. CASE ~Close(w)
            BY <3>2, <2>1 DEF Unknown, WorkerStep, TakeTask, RecvCall, RecvData, RecvEnd, Erase, Lock, Send, EndCast
        <3> QED
            BY <3>1, <3>2
    <2>3. ASSUME NEW v \in Workers PROVE wconn'[v] # c
        <3>1. CASE RecvCall(w)
            <4>1. wfd[w] \in Fds
                BY <3>1 DEF RecvCall, Typed, TypeOK, Carries
            <4> QED
                BY <3>1, <4>1, <2>1 DEF RecvCall, Unknown, Typed, TypeOK
        <3>2. CASE RecvData(w) \/ RecvEnd(w)
            BY <3>2, <2>1 DEF RecvData, RecvEnd, Unknown, Typed, TypeOK, ChatAssumption
        <3>3. CASE UNCHANGED wconn
            BY <3>3, <2>1 DEF Unknown
        <3> QED
            BY <3>1, <3>2, <3>3 DEF WorkerStep, TakeTask, Erase, Close, Lock, Send, EndCast
    <2>4. ASSUME NEW v \in Workers PROVE wmsg'[v].from # c
        <3>1. CASE RecvData(w)
            <4>1. wmsg'[w].from = wconn[w]
                BY <3>1, ReadFromConn
            <4>2. v # w => wmsg'[v] = wmsg[v]
                BY <3>1 DEF RecvData, Typed, TypeOK
            <4> QED
                BY <4>1, <4>2, <2>1 DEF Unknown
        <3>2. CASE Close(w) \/ EndCast(w)
            BY <3>2, <2>1 DEF Close, EndCast, Unknown, NoMsg, Msg, Typed, TypeOK, ChatAssumption
        <3>3. CASE UNCHANGED wmsg
            BY <3>3, <2>1 DEF Unknown
        <3> QED
            BY <3>1, <3>2, <3>3 DEF WorkerStep, TakeTask, RecvCall, RecvEnd, Erase, Lock, Send
    <2>5. outbox'[c] = <<>>
        <3>1. CASE Send(w)
            BY <3>1, <2>1 DEF Send, Unknown, Typed, TypeOK
        <3>2. CASE UNCHANGED outbox
            BY <3>2, <2>1 DEF Unknown
        <3> QED
            BY <3>1, <3>2 DEF WorkerStep, TakeTask, RecvCall, RecvData, RecvEnd, Erase, Close, Lock, EndCast, netVars
    <2> QED
        BY <2>2, <2>3, <2>4, <2>5 DEF Unknown
<1>3. UnknownOutside'
    BY <1>1, <1>2 DEF UnknownOutside, Outside
<1>4. ConnectsOnce'
    <2>1. ASSUME NEW c \in Clients, cpc[c] = "start" PROVE inbox'[c] = inbox[c]
        <3>1. CASE RecvData(w)
            <4>1. wconn[w] # c
                BY <2>1 DEF OneDescriptor, UnknownOutside, Outside, Unknown
            <4> QED
                BY <3>1, <4>1 DEF RecvData, Typed, TypeOK
        <3>2. CASE ~RecvData(w)
            BY <3>2 DEF WorkerStep, TakeTask, RecvCall, RecvEnd, Erase, Close, Lock, Send, EndCast, netVars
        <3> QED
            BY <3>1, <3>2
    <2> QED
        BY <1>1, <2>1 DEF OneDescriptor, ConnectsOnce
<1>5. OwnNumber'
    <2> USE DEF OneDescriptor, OwnNumber
    <2>1. CASE TakeTask(w)
        <3>1. wconn[w] = None /\ wmsg[w].from = None
            BY <2>1 DEF TakeTask, Typed, Carries, EmptyHanded, NoMsg, Msg
        <3> QED
            BY <2>1, <3>1, ZenonT(30) DEF TakeTask, netVars, Typed, TypeOK
    <2>2. CASE RecvCall(w)
        <3>1. wfd[w] \in Fds
            BY <2>2 DEF RecvCall, Typed, TypeOK, Carries
        <3>2. /\ wconn'[w] = fds[wfd[w]] /\ \A v \in Workers \ {w} : wconn'[v] = wconn[v]
              /\ UNCHANGED <<fds, wfd, wmsg>>
            BY <2>2 DEF RecvCall, poolVars, Typed, TypeOK
        <3>3. ASSUME NEW v \in Workers, NEW f \in Fds,
                     fds[f] # None, fds[f] \in {wconn'[v], wmsg[v].from}
              PROVE  f = wfd[v]
            <4>1. CASE v = w /\ fds[f] = wconn'[v]
                <5>1. fds[f] = fds[wfd[w]]
                    BY <3>2, <4>1
                <5> QED
                    BY <3>1, <3>3, <4>1, <5>1
            <4>2. CASE v # w \/ fds[f] = wmsg[v].from
                BY <3>2, <3>3, <4>2
            <4> QED
                BY <3>3, <4>1, <4>2
        <3> QED
            BY <3>2, <3>3
    <2>3. CASE RecvData(w)
        <3>1. wmsg'[w].from = wconn[w]
            BY <2>3, ReadFromConn
        <3>2. wconn'[w] = None /\ \A v \in Workers \ {w} : wconn'[v] = wconn[v] /\ wmsg'[v] = wmsg[v]
            BY <2>3 DEF RecvData, Typed, TypeOK
        <3>3. UNCHANGED <<fds, wfd>>
            BY <2>3 DEF RecvData, poolVars
        <3> QED
            BY <3>1, <3>2, <3>3
    <2>4. CASE RecvEnd(w)
        BY <2>4 DEF RecvEnd, poolVars, Typed, TypeOK
    <2>5. CASE Close(w)
        <3>1. wconn[w] = None
            BY <2>5 DEF Close, Typed, Carries
        <3>2. wmsg'[w].from = None /\ \A v \in Workers \ {w} : wmsg'[v] = wmsg[v] /\ wfd'[v] = wfd[v]
            BY <2>5 DEF Close, NoMsg, Msg, Typed, TypeOK
        <3>3. wconn' = wconn /\ \A f \in Fds : fds'[f] # None => fds'[f] = fds[f]
            BY <2>5 DEF Close, Closed, Typed, TypeOK
        <3>4. \A f, g \in Fds : fds'[f] = fds'[g] /\ fds'[f] # None => f = g
            BY <3>3
        <3>5. ASSUME NEW v \in Workers, NEW f \in Fds,
                     fds'[f] # None, fds'[f] \in {wconn'[v], wmsg'[v].from}
              PROVE  f = wfd'[v]
            <4>1. v # w
                BY <3>1, <3>2, <3>3, <3>5
            <4> QED
                BY <3>2, <3>3, <3>5, <4>1
        <3> QED
            BY <3>4, <3>5
    <2>6. CASE EndCast(w)
        BY <2>6 DEF EndCast, poolVars, NoMsg, Msg, Typed, TypeOK
    <2>7. CASE UNCHANGED <<fds, wfd, wconn, wmsg>>
        BY <2>7
    <2> QED
        BY <2>1, <2>2, <2>3, <2>4, <2>5, <2>6, <2>7 DEF WorkerStep, Erase, Lock, Send, poolVars
<1> QED
    BY <1>3, <1>4, <1>5 DEF OneDescriptor

\* Every step keeps the descriptors apart.
LEMMA OneKept == Typed /\ OneDescriptor /\ [Next]_vars => OneDescriptor'
<1> SUFFICES ASSUME Typed, OneDescriptor, [Next]_vars PROVE OneDescriptor'
    OBVIOUS
<1>1. CASE Accept
    BY <1>1, AcceptOne
<1>2. CASE UNCHANGED <<cpc, inbox, outbox, backlog, fds, wfd, wconn, wmsg>>
    BY <1>2 DEF OneDescriptor, UnknownOutside, ConnectsOnce, OwnNumber, Outside, Unknown
<1> QED
    BY <1>1, <1>2, ConnectOne, WriteOne, WorkerOne
       DEF Next, MainStep, AcceptError, Stop, vars, netVars, poolVars

\* No connection has two descriptors, and none comes back after it was closed: the
\* invariant the next theorems rest on.
THEOREM OneDescriptorInvariant == Spec => []OneDescriptor
BY InitiallyOne, OneKept, ThreadsCarry, PTL DEF Spec

-----------------------------------------------------------------------------
(* Nobody hears an echo *)

\* A round of broadcast sends the thread's message to one client, or to none.
LEMMA SendsTo ==
    ASSUME Typed, NEW w \in Workers, Send(w)
    PROVE  \E f \in Fds, c \in Clients :
               /\ fds[f] = c
               /\ IsNext(w, f)
               /\ wpos' = [wpos EXCEPT ![w] = f]
               /\ \A d \in Clients \ {c} : outbox'[d] = outbox[d]
               /\ \/ outbox'[c] = outbox[c]
                  \/ /\ outbox'[c] = Append(outbox[c], wmsg[w])
                     /\ DOMAIN outbox'[c] = 1 .. Len(outbox[c]) + 1
                     /\ Len(outbox'[c]) = Len(outbox[c]) + 1
                     /\ \A i \in 1 .. Len(outbox[c]) : outbox'[c][i] = outbox[c][i]
                     /\ outbox'[c][Len(outbox[c]) + 1] = wmsg[w]
<1>1. PICK f \in Fds :
          /\ IsNext(w, f)
          /\ fds[f] # None
          /\ wpos' = [wpos EXCEPT ![w] = f]
          /\ outbox' \in {outbox, [outbox EXCEPT ![fds[f]] = Append(@, wmsg[w])]}
    BY DEF Send
<1>2. PICK c \in Clients : c = fds[f]
    BY <1>1 DEF Typed, TypeOK
<1>3. outbox[c] \in Seq(Messages) /\ wmsg[w] \in Messages
    BY DEF Typed, TypeOK
<1>4. \A d \in Clients \ {c} : outbox'[d] = outbox[d]
    BY <1>1, <1>2 DEF Typed, TypeOK
<1>5. outbox'[c] = outbox[c] \/ outbox'[c] = Append(outbox[c], wmsg[w])
    BY <1>1, <1>2 DEF Typed, TypeOK
<1> DEFINE s == Append(outbox[c], wmsg[w])
<1>6. /\ DOMAIN s = 1 .. Len(outbox[c]) + 1
      /\ Len(s) = Len(outbox[c]) + 1
      /\ \A i \in 1 .. Len(outbox[c]) : s[i] = outbox[c][i]
      /\ s[Len(outbox[c]) + 1] = wmsg[w]
    BY <1>3, AppendProperties, LenProperties
<1>7. \/ outbox'[c] = outbox[c]
      \/ /\ outbox'[c] = s
         /\ DOMAIN outbox'[c] = 1 .. Len(outbox[c]) + 1
         /\ Len(outbox'[c]) = Len(outbox[c]) + 1
         /\ \A i \in 1 .. Len(outbox[c]) : outbox'[c][i] = outbox[c][i]
         /\ outbox'[c][Len(outbox[c]) + 1] = wmsg[w]
    BY <1>5, <1>6
<1> QED
    BY <1>1, <1>2, <1>4, <1>7, Zenon

\* What a client has got is a sequence.
LEMMA OutboxDomain ==
    ASSUME Typed, NEW c \in Clients
    PROVE  Len(outbox[c]) \in Nat /\ DOMAIN outbox[c] = 1 .. Len(outbox[c])
BY LenProperties DEF Typed, TypeOK

\* Nothing else fills an outbox.
LEMMA OnlySendSends ==
    ASSUME [Next]_vars, \A w \in Workers : ~Send(w)
    PROVE  outbox' = outbox
BY DEF Next, Connect, Say, Quit, Vanish, MainStep, Accept, AcceptError, Stop, WorkerStep, TakeTask,
       RecvCall, RecvData, RecvEnd, Erase, Close, Lock, EndCast, vars, netVars

\* A broadcast passes over the sender, whose only descriptor it came from.
LEMMA EchoKept == Typed /\ OneDescriptor /\ NoEcho /\ [Next]_vars => NoEcho'
<1> SUFFICES ASSUME Typed, OneDescriptor, NoEcho, [Next]_vars PROVE NoEcho'
    OBVIOUS
<1>1. ASSUME NEW w \in Workers, Send(w) PROVE NoEcho'
    <2>1. PICK f \in Fds, c \in Clients :
              /\ fds[f] = c
              /\ IsNext(w, f)
              /\ \A d \in Clients \ {c} : outbox'[d] = outbox[d]
              /\ \/ outbox'[c] = outbox[c]
                 \/ /\ DOMAIN outbox'[c] = 1 .. Len(outbox[c]) + 1
                    /\ \A i \in 1 .. Len(outbox[c]) : outbox'[c][i] = outbox[c][i]
                    /\ outbox'[c][Len(outbox[c]) + 1] = wmsg[w]
        BY <1>1, SendsTo
    <2>2. wmsg[w].type # "LOGIN" => f # wfd[w]
        BY <2>1 DEF IsNext, Left
    <2>3. wmsg[w].type # "LOGIN" => wmsg[w].from # c
        BY <2>1, <2>2, ChatAssumption DEF OneDescriptor, OwnNumber, ChatAssumption
    <2>4. ASSUME NEW d \in Clients, NEW i \in DOMAIN outbox'[d], outbox'[d][i].type # "LOGIN"
          PROVE  outbox'[d][i].from # d
        <3>1. CASE i \in DOMAIN outbox[d] /\ outbox'[d][i] = outbox[d][i]
            BY <2>4, <3>1 DEF NoEcho
        <3>2. CASE d = c /\ outbox'[d][i] = wmsg[w]
            BY <2>3, <2>4, <3>2
        <3> QED
            BY <2>1, <3>1, <3>2, OutboxDomain
    <2> QED
        BY <2>4 DEF NoEcho
<1>2. CASE \A w \in Workers : ~Send(w)
    BY <1>2, OnlySendSends DEF NoEcho
<1> QED
    BY <1>1, <1>2

\* No client gets its own text back, also when descriptors are closed and handed out
\* again between the recv of a text and its broadcast.
THEOREM NoEchoInvariant == Spec => []NoEcho
<1>1. Init => NoEcho
    BY DEF Init, NoEcho
<1> QED
    BY <1>1, EchoKept, ThreadsCarry, OneDescriptorInvariant, PTL DEF Spec

-----------------------------------------------------------------------------
(* Every message is broadcast by one thread, once *)

\* recv gives the thread one unread message and leaves those that follow it.
LEMMA Reads ==
    ASSUME Typed, NEW w \in Workers, RecvData(w)
    PROVE  \E c \in Clients, k \in Nat : \E p \in DOMAIN inbox[c] :
               /\ p <= k
               /\ \A v \in Workers : wmsg'[v] = IF v = w THEN inbox[c][p] ELSE wmsg[v]
               /\ \A d \in Clients \ {c} : inbox'[d] = inbox[d]
               /\ \A i \in DOMAIN inbox'[c] :
                      /\ i \in Nat \ {0} /\ k + i \in DOMAIN inbox[c]
                      /\ inbox'[c][i] = inbox[c][k + i]
<1>1. PICK c \in Clients : c = wconn[w]
    BY ReadFromConn
<1>2. PICK k \in Readable(c) :
          /\ inbox' = [inbox EXCEPT ![c] = SubSeq(@, k + 1, Len(@))]
          /\ wmsg' = [wmsg EXCEPT ![w] = Parsed(c, k)]
    BY <1>1 DEF RecvData
<1>3. PICK p \in DOMAIN inbox[c] : p <= k /\ Parsed(c, k) = inbox[c][p]
    BY <1>2, Received
<1>4. k \in Nat
    BY <1>2, OutboxDomain, LenProperties DEF Readable, Typed, TypeOK
<1>5. \A v \in Workers : wmsg'[v] = IF v = w THEN inbox[c][p] ELSE wmsg[v]
    BY <1>2, <1>3 DEF Typed, TypeOK
<1>6. \A d \in Clients \ {c} : inbox'[d] = inbox[d]
    BY <1>2 DEF Typed, TypeOK
<1>7. inbox'[c] = SubSeq(inbox[c], k + 1, Len(inbox[c]))
    BY <1>2 DEF Typed, TypeOK
<1>8. inbox'[c] \in Seq(Messages)
    BY <1>2, <1>7, Received
<1>9. \A i \in DOMAIN inbox'[c] :
          i \in Nat \ {0} /\ k + i \in DOMAIN inbox[c] /\ inbox'[c][i] = inbox[c][k + i]
    BY <1>2, <1>7, <1>8, Received, LenProperties
<1> QED
    BY <1>3, <1>4, <1>5, <1>6, <1>9

\* What is in a thread's hands is a message or none.
LEMMA Hands ==
    ASSUME Typed, NEW w \in Workers
    PROVE  /\ wmsg[w].type \in Spoken =>
                  /\ wmsg[w].from \in Clients
                  /\ wmsg[w].n \in Nat /\ chats[wmsg[w].from] \in Nat
                  /\ wmsg[w].n <= chats[wmsg[w].from]
           /\ NoMsg.type \notin Spoken
<1>1. NoMsg.type \notin Spoken
    BY DEF NoMsg, Msg, Spoken
<1>2. wmsg[w].n \in Nat /\ \A c \in Clients : chats[c] \in Nat
    BY ChatAssumption DEF Typed, TypeOK, Messages, ChatAssumption
<1> QED
    BY <1>1, <1>2 DEF Typed, Carries

\* What is unread is a message of the client it comes from.
LEMMA Unsaid ==
    ASSUME Typed, NEW c \in Clients, NEW i \in DOMAIN inbox[c]
    PROVE  /\ inbox[c][i] \in Messages /\ inbox[c][i].n \in Nat /\ chats[c] \in Nat
           /\ inbox[c][i].from = c /\ inbox[c][i].n <= chats[c]
<1>1. inbox[c] \in Seq(Messages)
    BY DEF Typed, TypeOK
<1>2. inbox[c][i] \in Messages
    BY <1>1, LenProperties, ElementOfSeq
<1> QED
    BY <1>2, ChatAssumption DEF Typed, TypeOK, Unread, Messages, ChatAssumption

\* What was broadcast is a message.
LEMMA Heard ==
    ASSUME Typed, NEW d \in Clients, NEW k \in DOMAIN outbox[d]
    PROVE  outbox[d][k] \in Messages /\ outbox[d][k].n \in Nat
<1>1. outbox[d] \in Seq(Messages)
    BY DEF Typed, TypeOK
<1>2. outbox[d][k] \in Messages
    BY <1>1, LenProperties, ElementOfSeq
<1> QED
    BY <1>2, ChatAssumption DEF Messages, ChatAssumption

\* The LOGIN of a client that connects is its first message.
LEMMA ConnectOnce == ASSUME Typed, OneDescriptor, SentOnce, NEW c \in Clients, Connect(c) PROVE SentOnce'
<1> DEFINE m == Msg("LOGIN", c, 0)
<1>1. cpc[c] = "start" /\ cpc' = [cpc EXCEPT ![c] = "online"]
    BY DEF Connect
<1>2. /\ \A d \in Clients \ {c} : inbox'[d] = inbox[d]
      /\ \A i \in DOMAIN inbox'[c] : i = 1 /\ inbox'[c][i].from = c
    BY DEF Connect, Typed, TypeOK, Msg
<1>3. UNCHANGED <<chats, outbox, wpc, wmsg>>
    BY DEF Connect
<1>4. \A w \in Workers : wmsg[w].from # c
    BY <1>1 DEF OneDescriptor, UnknownOutside, Outside, Unknown
<1>5. \A d \in Clients : \A k \in DOMAIN outbox[d] : outbox[d][k].from # c
    BY <1>1 DEF SentOnce, SentWritten
<1>6. UnreadOnce'
    BY <1>2, <1>3, <1>5 DEF SentOnce, UnreadOnce
<1>7. HeldOnce'
    BY <1>2, <1>3, <1>4 DEF SentOnce, HeldOnce
<1>8. SentWritten'
    BY <1>1, <1>3 DEF SentOnce, SentWritten, Typed, TypeOK
<1> QED
    BY <1>6, <1>7, <1>8 DEF SentOnce

\* A text that is said is a new one.
LEMMA SayOnce == ASSUME Typed, SentOnce, NEW c \in Clients, Say(c) PROVE SentOnce'
<1>1. chats' = [chats EXCEPT ![c] = @ + 1] /\ UNCHANGED <<cpc, outbox, wpc, wmsg>>
    BY DEF Say
<1>2. /\ \A d \in Clients : chats[d] \in Nat /\ chats'[d] \in Nat /\ chats[d] <= chats'[d]
      /\ chats'[c] = chats[c] + 1
    BY <1>1, ChatAssumption DEF Typed, TypeOK, ChatAssumption
<1>3. \A d \in Clients \ {c} : inbox'[d] = inbox[d]
    BY DEF Say, Typed, TypeOK
<1>4. inbox[c] \in Seq(Messages) /\ Len(inbox[c]) \in Nat /\ DOMAIN inbox[c] = 1 .. Len(inbox[c])
    BY LenProperties DEF Typed, TypeOK
<1> DEFINE n == chats[c] + 1
<1>5. \A i \in DOMAIN inbox'[c] :
          \/ i \in DOMAIN inbox[c] /\ inbox'[c][i] = inbox[c][i]
          \/ i = Len(inbox[c]) + 1 /\ inbox'[c][i].n = n
          \/ i = Len(inbox[c]) + 2 /\ inbox'[c][i].n = n /\ inbox'[c][i].type \notin Spoken
    <2>0. n \in 0 .. MaxChats
        BY <1>2, ChatAssumption DEF Say, MayWrite, Typed, TypeOK, ChatAssumption
    <2>1. CASE inbox' = [inbox EXCEPT ![c] = Append(@, Msg("CHAT", c, n))]
        <3>1. Msg("CHAT", c, n) \in Messages /\ Msg("CHAT", c, n).n = n
            BY <2>0, ChatAssumption, MessageOf DEF Msg
        <3>2. inbox'[c] = Append(inbox[c], Msg("CHAT", c, n))
            BY <2>1 DEF Typed, TypeOK
        <3> QED
            BY <1>4, <3>1, <3>2, AppendProperties, LenProperties
    <2>2. CASE inbox' = [inbox EXCEPT ![c] = @ \o <<Msg("HEAD", c, n), Msg("TAIL", c, n)>>]
        <3> DEFINE t == <<Msg("HEAD", c, n), Msg("TAIL", c, n)>>
        <3>1. Msg("HEAD", c, n) \in Messages /\ Msg("TAIL", c, n) \in Messages
            BY <2>0, ChatAssumption, MessageOf
        <3>2. t \in Seq(Messages) /\ Len(t) = 2
            BY <3>1
        <3>3. t[1].n = n /\ t[2].n = n /\ t[2].type \notin Spoken
            BY DEF Msg, Spoken
        <3>4. inbox'[c] = inbox[c] \o t
            BY <2>2 DEF Typed, TypeOK
        <3> HIDE DEF t
        <3>5. /\ Len(inbox'[c]) = Len(inbox[c]) + 2 /\ DOMAIN inbox'[c] = 1 .. Len(inbox[c]) + 2
              /\ \A i \in 1 .. Len(inbox[c]) + 2 :
                     inbox'[c][i] = IF i <= Len(inbox[c]) THEN inbox[c][i] ELSE t[i - Len(inbox[c])]
            <4>1. /\ inbox'[c] \in Seq(Messages)
                  /\ Len(inbox'[c]) = Len(inbox[c]) + Len(t)
                  /\ \A i \in 1 .. Len(inbox[c]) + Len(t) :
                         inbox'[c][i] = IF i <= Len(inbox[c]) THEN inbox[c][i] ELSE t[i - Len(inbox[c])]
                <5>1. /\ inbox[c] \o t \in Seq(Messages)
                      /\ Len(inbox[c] \o t) = Len(inbox[c]) + Len(t)
                      /\ \A i \in 1 .. Len(inbox[c]) + Len(t) :
                             (inbox[c] \o t)[i] = IF i <= Len(inbox[c]) THEN inbox[c][i] ELSE t[i - Len(inbox[c])]
                    BY <1>4, <3>2, ConcatProperties, Zenon
                <5> QED
                    BY <3>4, <5>1, Zenon
            <4>2. DOMAIN inbox'[c] = 1 .. Len(inbox'[c])
                BY <4>1, LenProperties
            <4> QED
                BY <3>2, <4>1, <4>2
        <3>6. SUFFICES ASSUME NEW i \in 1 .. Len(inbox[c]) + 2, i > Len(inbox[c])
                       PROVE  \/ i = Len(inbox[c]) + 1 /\ t[i - Len(inbox[c])].n = n
                              \/ i = Len(inbox[c]) + 2 /\ t[i - Len(inbox[c])].n = n
                                 /\ t[i - Len(inbox[c])].type \notin Spoken
            BY <1>4, <3>5, SMTT(30)
        <3>7. i - Len(inbox[c]) \in {1, 2}
            BY <1>4, <3>6
        <3> QED
            BY <1>4, <3>3, <3>6, <3>7
    <2> QED
        BY <2>1, <2>2 DEF Say
<1>6. \A i \in DOMAIN inbox[c] : inbox[c][i].n # n
    BY <1>2, Unsaid
<1>7. \A d \in Clients : \A k \in DOMAIN outbox[d] :
          outbox[d][k].type \in Spoken /\ (outbox[d][k].from = c => outbox[d][k].n # n)
    BY <1>2, Heard DEF SentOnce, SentWritten
<1>8. \A w \in Workers : wmsg[w].type \in Spoken /\ wmsg[w].from = c => wmsg[w].n # n
    BY <1>2, Hands
<1>9. \A i \in DOMAIN inbox'[c] : inbox'[c][i].from = c
    BY ClientsTyped DEF Typed, Unread
<1> HIDE DEF n
<1>10. UnreadOnce'
    <2>1. ASSUME NEW d \in Clients, NEW i \in DOMAIN inbox'[d], NEW j \in DOMAIN inbox'[d],
                 inbox'[d][i].type \in Spoken, inbox'[d][i] = inbox'[d][j]
          PROVE  i = j
        <3>1. CASE d # c
            BY <2>1, <3>1, <1>3 DEF SentOnce, UnreadOnce
        <3>2. CASE d = c /\ i \in DOMAIN inbox[c] /\ j \in DOMAIN inbox[c]
                   /\ inbox'[d][i] = inbox[c][i] /\ inbox'[d][j] = inbox[c][j]
            BY <2>1, <3>2 DEF SentOnce, UnreadOnce
        <3>3. CASE d = c /\ (inbox'[c][i].n = n \/ inbox'[c][j].n = n)
            BY <2>1, <3>3, <1>5, <1>6
        <3> QED
            BY <1>5, <3>1, <3>2, <3>3
    <2>2. ASSUME NEW b \in Clients, NEW d \in Clients, NEW i \in DOMAIN inbox'[b], NEW k \in DOMAIN outbox[d]
          PROVE  inbox'[b][i] # outbox[d][k]
        <3>1. CASE i \in DOMAIN inbox[b] /\ inbox'[b][i] = inbox[b][i]
            BY <3>1 DEF SentOnce, UnreadOnce
        <3>2. CASE b = c /\ inbox'[c][i].n = n
            BY <3>2, <1>7, <1>9
        <3> QED
            BY <3>1, <3>2, <1>3, <1>5
    <2> QED
        BY <2>1, <2>2, <1>1 DEF UnreadOnce
<1>11. HeldOnce'
    <2>1. ASSUME NEW b \in Clients, NEW w \in Workers, NEW i \in DOMAIN inbox'[b], inbox'[b][i].type \in Spoken
          PROVE  inbox'[b][i] # wmsg[w]
        <3>1. CASE i \in DOMAIN inbox[b] /\ inbox'[b][i] = inbox[b][i]
            BY <2>1, <3>1 DEF SentOnce, HeldOnce
        <3>2. CASE b = c /\ inbox'[c][i].n = n
            BY <2>1, <3>2, <1>8, <1>9
        <3> QED
            BY <3>1, <3>2, <1>3, <1>5
    <2> QED
        BY <2>1, <1>1 DEF SentOnce, HeldOnce
<1>12. SentWritten'
    BY <1>1, <1>2, Heard DEF SentOnce, SentWritten
<1> QED
    BY <1>10, <1>11, <1>12 DEF SentOnce

\* A QUIT is a new message, and who vanishes leaves no other.
LEMMA LeaveOnce ==
    ASSUME Typed, SentOnce, NEW c \in Clients, Quit(c) \/ Vanish(c)
    PROVE  SentOnce'
<1>1. /\ \A d \in Clients : cpc'[d] = "start" => cpc[d] = "start"
      /\ UNCHANGED <<chats, outbox, wpc, wmsg>>
    BY DEF Quit, Vanish, Typed, TypeOK
<1>2. inbox[c] \in Seq(Messages) /\ Len(inbox[c]) \in Nat /\ DOMAIN inbox[c] = 1 .. Len(inbox[c])
    BY LenProperties DEF Typed, TypeOK
<1>3. \A d \in Clients : \A i \in DOMAIN inbox'[d] :
          \/ i \in DOMAIN inbox[d] /\ inbox'[d][i] = inbox[d][i]
          \/ inbox'[d][i].type \notin Spoken
    <2>1. CASE Quit(c)
        <3> DEFINE m == Msg("QUIT", c, 0)
        <3>1. m \in Messages /\ m.type \notin Spoken
            <4>1. 0 \in 0 .. MaxChats
                BY ChatAssumption DEF ChatAssumption
            <4> QED
                BY <4>1, ChatAssumption, MessageOf DEF Msg, Spoken
        <3>2. inbox' = [inbox EXCEPT ![c] = Append(@, m)]
            BY <2>1 DEF Quit
        <3> HIDE DEF m
        <3>3. \A i \in DOMAIN Append(inbox[c], m) :
                  \/ i \in DOMAIN inbox[c] /\ Append(inbox[c], m)[i] = inbox[c][i]
                  \/ Append(inbox[c], m)[i] = m
            BY <1>2, <3>1, AppendProperties, LenProperties
        <3>4. \A d \in Clients : inbox'[d] = IF d = c THEN Append(inbox[c], m) ELSE inbox[d]
            BY <3>2 DEF Typed, TypeOK
        <3> QED
            BY <3>1, <3>3, <3>4
    <2>2. CASE Vanish(c)
        BY <2>2 DEF Vanish
    <2> QED
        BY <2>1, <2>2
<1>4. UnreadOnce'
    <2>1. \A d \in Clients : \A k \in DOMAIN outbox[d] : outbox[d][k].type \in Spoken
        BY DEF SentOnce, SentWritten
    <2> QED
        BY <1>1, <1>3, <2>1 DEF SentOnce, UnreadOnce
<1>5. HeldOnce'
    BY <1>1, <1>3 DEF SentOnce, HeldOnce
<1>6. SentWritten'
    BY <1>1 DEF SentOnce, SentWritten
<1> QED
    BY <1>4, <1>5, <1>6 DEF SentOnce

\* recv moves a message from the connection to one thread.
LEMMA ReadOnce == ASSUME Typed, SentOnce, NEW w \in Workers, RecvData(w) PROVE SentOnce'
<1>1. PICK c \in Clients, k \in Nat : \E p \in DOMAIN inbox[c] :
          /\ p <= k
          /\ \A v \in Workers : wmsg'[v] = IF v = w THEN inbox[c][p] ELSE wmsg[v]
          /\ \A d \in Clients \ {c} : inbox'[d] = inbox[d]
          /\ \A i \in DOMAIN inbox'[c] :
                 i \in Nat \ {0} /\ k + i \in DOMAIN inbox[c] /\ inbox'[c][i] = inbox[c][k + i]
    BY Reads
<1>2. PICK p \in DOMAIN inbox[c] :
          /\ p <= k
          /\ \A v \in Workers : wmsg'[v] = IF v = w THEN inbox[c][p] ELSE wmsg[v]
          /\ \A d \in Clients \ {c} : inbox'[d] = inbox[d]
          /\ \A i \in DOMAIN inbox'[c] :
                 i \in Nat \ {0} /\ k + i \in DOMAIN inbox[c] /\ inbox'[c][i] = inbox[c][k + i]
    BY <1>1
<1>3. UNCHANGED <<cpc, chats, outbox>>
    BY DEF RecvData
<1>4. p \in Nat
    BY LenProperties DEF Typed, TypeOK
<1>5. \A i \in DOMAIN inbox'[c] : k + i # p /\ k + i \in DOMAIN inbox[c] /\ inbox'[c][i] = inbox[c][k + i]
    BY <1>2, <1>4
<1>6. UnreadOnce'
    <2>1. ASSUME NEW i \in DOMAIN inbox'[c], NEW j \in DOMAIN inbox'[c],
                 inbox'[c][i].type \in Spoken, inbox'[c][i] = inbox'[c][j]
          PROVE  i = j
        <3>1. k + i = k + j
            BY <2>1, <1>2 DEF SentOnce, UnreadOnce
        <3> QED
            BY <3>1, <1>2
    <2>2. ASSUME NEW b \in Clients, NEW d \in Clients, NEW i \in DOMAIN inbox'[b], NEW l \in DOMAIN outbox[d]
          PROVE  inbox'[b][i] # outbox[d][l]
        BY <1>2 DEF SentOnce, UnreadOnce
    <2>3. ASSUME NEW b \in Clients \ {c}, NEW i \in DOMAIN inbox'[b], NEW j \in DOMAIN inbox'[b],
                 inbox'[b][i].type \in Spoken, inbox'[b][i] = inbox'[b][j]
          PROVE  i = j
        BY <2>3, <1>2 DEF SentOnce, UnreadOnce
    <2> QED
        BY <2>1, <2>2, <2>3, <1>3 DEF UnreadOnce
<1>7. HeldOnce'
    <2>1. ASSUME NEW b \in Clients, NEW v \in Workers, NEW i \in DOMAIN inbox'[b],
                 inbox'[b][i].type \in Spoken
          PROVE  inbox'[b][i] # wmsg'[v]
        <3>1. CASE v # w
            BY <2>1, <3>1, <1>2 DEF SentOnce, HeldOnce
        <3>2. CASE v = w /\ b = c
            BY <2>1, <3>2, <1>2, <1>5 DEF SentOnce, UnreadOnce
        <3>3. CASE v = w /\ b # c
            <4>1. inbox[c][p].from = c /\ inbox[b][i].from = b
                BY <3>3, <1>2, Unsaid
            <4> QED
                BY <3>3, <4>1, <1>2
        <3> QED
            BY <3>1, <3>2, <3>3
    <2>2. ASSUME NEW u \in Workers, NEW v \in Workers, u # v, wmsg'[u].type \in Spoken
          PROVE  wmsg'[u] # wmsg'[v]
        BY <2>2, <1>2 DEF SentOnce, HeldOnce
    <2>3. ASSUME NEW d \in Clients, NEW v \in Workers, NEW l \in DOMAIN outbox[d], outbox[d][l] = wmsg'[v]
          PROVE  wpc'[v] = "cast"
        <3>1. v # w
            BY <2>3, <1>2 DEF SentOnce, UnreadOnce
        <3>2. wpc'[v] = wpc[v]
            BY <3>1 DEF RecvData, Typed, TypeOK
        <3> QED
            BY <2>3, <3>1, <3>2, <1>2 DEF SentOnce, HeldOnce
    <2> QED
        BY <2>1, <2>2, <2>3, <1>3 DEF HeldOnce
<1>8. SentWritten'
    BY <1>3 DEF SentOnce, SentWritten
<1> QED
    BY <1>6, <1>7, <1>8 DEF SentOnce

\* A send writes the message the thread holds to a client that has not had it.
LEMMA SendOnce == ASSUME Typed, OneDescriptor, SentOnce, NEW w \in Workers, Send(w) PROVE SentOnce'
<1>1. PICK f \in Fds, c \in Clients :
          /\ \A d \in Clients \ {c} : outbox'[d] = outbox[d]
          /\ \/ outbox'[c] = outbox[c]
             \/ /\ DOMAIN outbox'[c] = 1 .. Len(outbox[c]) + 1
                /\ \A i \in 1 .. Len(outbox[c]) : outbox'[c][i] = outbox[c][i]
                /\ outbox'[c][Len(outbox[c]) + 1] = wmsg[w]
    BY SendsTo
<1>2. \A d \in Clients : \A k \in DOMAIN outbox'[d] :
          \/ k \in DOMAIN outbox[d] /\ outbox'[d][k] = outbox[d][k]
          \/ outbox'[d][k] = wmsg[w]
    BY <1>1, OutboxDomain
<1>3. UNCHANGED <<cpc, chats, inbox, wpc, wmsg>> /\ wpc[w] = "cast"
    BY DEF Send
<1>4. wmsg[w].type \in Spoken /\ wmsg[w].from \in Clients /\ wmsg[w].n <= chats[wmsg[w].from]
    BY <1>3 DEF Typed, Carries, EmptyHanded
<1>5. cpc[wmsg[w].from] # "start"
    BY <1>4 DEF OneDescriptor, UnknownOutside, Outside, Unknown
<1>6. UnreadOnce'
    BY <1>2, <1>3, <1>4 DEF SentOnce, UnreadOnce, HeldOnce
<1>7. HeldOnce'
    BY <1>2, <1>3, <1>4 DEF SentOnce, HeldOnce
<1>8. SentWritten'
    BY <1>2, <1>3, <1>4, <1>5 DEF SentOnce, SentWritten
<1> QED
    BY <1>6, <1>7, <1>8 DEF SentOnce

\* Every step keeps messages from being there twice.
LEMMA OnceKept == Typed /\ OneDescriptor /\ SentOnce /\ [Next]_vars => SentOnce'
<1> SUFFICES ASSUME Typed, OneDescriptor, SentOnce, [Next]_vars PROVE SentOnce'
    OBVIOUS
<1>1. ASSUME NEW c \in Clients, Connect(c) \/ Say(c) \/ Quit(c) \/ Vanish(c) PROVE SentOnce'
    BY <1>1, ConnectOnce, SayOnce, LeaveOnce
<1>2. ASSUME NEW w \in Workers, RecvData(w) \/ Send(w) PROVE SentOnce'
    BY <1>2, ReadOnce, SendOnce
<1>3. ASSUME NEW w \in Workers, Close(w) \/ EndCast(w) PROVE SentOnce'
    <2>1. UNCHANGED <<cpc, chats, inbox, outbox>>
        BY <1>3 DEF Close, EndCast, netVars
    <2>2. \A v \in Workers : \/ wmsg'[v] = NoMsg
                             \/ v # w /\ wmsg'[v] = wmsg[v] /\ wpc'[v] = wpc[v]
        BY <1>3 DEF Close, EndCast, Typed, TypeOK
    <2>3. NoMsg.type \notin Spoken
        BY DEF NoMsg, Msg, Spoken
    <2>4. UnreadOnce' /\ SentWritten'
        BY <2>1 DEF SentOnce, UnreadOnce, SentWritten
    <2>5. HeldOnce'
        BY <2>1, <2>2, <2>3 DEF SentOnce, HeldOnce, SentWritten
    <2> QED
        BY <2>4, <2>5 DEF SentOnce
<1>4. ASSUME NEW w \in Workers, TakeTask(w) \/ RecvCall(w) \/ RecvEnd(w) \/ Erase(w) \/ Lock(w) PROVE SentOnce'
    <2>1. UNCHANGED <<cpc, chats, inbox, outbox, wmsg>>
        BY <1>4 DEF TakeTask, RecvCall, RecvEnd, Erase, Lock, netVars
    <2>2. \A v \in Workers : wpc[v] = "cast" => wpc'[v] = "cast"
        BY <1>4 DEF TakeTask, RecvCall, RecvEnd, Erase, Lock, Typed, TypeOK
    <2> QED
        BY <2>1, <2>2 DEF SentOnce, UnreadOnce, HeldOnce, SentWritten
<1>5. CASE MainStep \/ UNCHANGED vars
    BY <1>5 DEF MainStep, Accept, AcceptError, Stop, vars, netVars, SentOnce, UnreadOnce, HeldOnce, SentWritten
<1> QED
    BY <1>1, <1>2, <1>3, <1>4, <1>5 DEF Next, WorkerStep

\* However bytes are merged and descriptors reused, a message is unread, or in the
\* hands of one thread, or has been broadcast, and never two of them.
THEOREM SentOnceInvariant == Spec => []SentOnce
<1>1. Init => SentOnce
    BY DEF Init, SentOnce, UnreadOnce, HeldOnce, SentWritten, NoMsg, Msg, Spoken
<1> QED
    BY <1>1, OnceKept, ThreadsCarry, OneDescriptorInvariant, PTL DEF Spec

-----------------------------------------------------------------------------
(* The same order for all *)

\* Every step keeps client_mutex with who broadcasts.
LEMMA MutexKept == Typed /\ MutexHeld /\ [Next]_vars => MutexHeld'
<1> SUFFICES ASSUME Typed, MutexHeld, [Next]_vars PROVE MutexHeld'
    OBVIOUS
<1> USE ChatAssumption DEF ChatAssumption
<1>1. ASSUME NEW w \in Workers, Lock(w) PROVE MutexHeld'
    BY <1>1 DEF Lock, MayEnter, MutexHeld, Typed, TypeOK
<1>2. ASSUME NEW w \in Workers, EndCast(w) PROVE MutexHeld'
    BY <1>2 DEF EndCast, MutexHeld, Typed, TypeOK
<1>3. ASSUME NEW w \in Workers, RecvData(w) PROVE MutexHeld'
    <2>0. PICK c \in Clients : c = wconn[w]
        BY <1>3, ReadFromConn
    <2>1. PICK k \in Readable(c) : wpc' = [wpc EXCEPT ![w] = Handler(Parsed(c, k).type)]
        BY <1>3, <2>0 DEF RecvData
    <2>2. Parsed(c, k).type \in {"LOGIN", "CHAT", "QUIT", "HEAD", "TAIL"}
        BY <2>1, Received DEF Typed, Unread, Messages
    <2>3. Handler(Parsed(c, k).type) # "cast"
        BY <2>2, Handled
    <2> QED
        BY <1>3, <2>1, <2>3 DEF RecvData, MutexHeld, Typed, TypeOK
<1>4. ASSUME NEW w \in Workers, TakeTask(w) \/ RecvCall(w) \/ RecvEnd(w) \/ Erase(w) \/ Close(w)
      PROVE  MutexHeld'
    BY <1>4 DEF TakeTask, RecvCall, RecvEnd, AtEnd, Erase, Close, MutexHeld, Typed, TypeOK
<1>5. CASE UNCHANGED <<mutex, wpc>>
    BY <1>5 DEF MutexHeld
<1> QED
    BY <1>1, <1>2, <1>3, <1>4, <1>5 DEF Next, Connect, Say, Quit, Vanish, MainStep, Accept, AcceptError,
       Stop, WorkerStep, Send, vars

\* The thread in the loop of broadcast holds client_mutex.
THEOREM MutexInvariant == Spec => []MutexHeld
<1>1. Init => MutexHeld
    BY ChatAssumption DEF Init, MutexHeld, ChatAssumption
<1> QED
    BY <1>1, MutexKept, ThreadsCarry, PTL DEF Spec

\* What is being broadcast comes behind all that was, in every outbox it has reached.
LEMMA BehindKept ==
    Typed /\ OneDescriptor /\ SentOnce /\ MutexHeld /\ CastBehind /\ [Next]_vars => CastBehind'
<1> SUFFICES ASSUME Typed, OneDescriptor, SentOnce, MutexHeld, CastBehind, [Next]_vars
             PROVE  CastBehind'
    OBVIOUS
<1> USE ChatAssumption
<1>1. ASSUME NEW w \in Workers, Send(w) PROVE CastBehind'
    <2>1. PICK f \in Fds, c \in Clients :
              /\ fds[f] = c
              /\ IsNext(w, f)
              /\ wpos' = [wpos EXCEPT ![w] = f]
              /\ \A d \in Clients \ {c} : outbox'[d] = outbox[d]
              /\ \/ outbox'[c] = outbox[c]
                 \/ /\ DOMAIN outbox'[c] = 1 .. Len(outbox[c]) + 1
                    /\ Len(outbox'[c]) = Len(outbox[c]) + 1
                    /\ \A i \in 1 .. Len(outbox[c]) : outbox'[c][i] = outbox[c][i]
                    /\ outbox'[c][Len(outbox[c]) + 1] = wmsg[w]
        BY <1>1, SendsTo
    <2>2. UNCHANGED <<fds, wpc, wmsg>> /\ wpc[w] = "cast"
        BY <1>1 DEF Send
    <2>3. f > wpos[w] /\ f \in Nat /\ wpos[w] \in Nat /\ Fds \subseteq Nat
        <3>1. Fds \subseteq Nat
            BY DEF ChatAssumption
        <3>2. wpos[w] \in Fds \union {0}
            BY DEF Typed, TypeOK
        <3>3. f > wpos[w]
            BY <2>1 DEF IsNext, Left
        <3>4. f \in Nat
            BY <3>1
        <3>5. wpos[w] \in Nat
            <4>1. CASE wpos[w] \in Fds
                BY <3>1, <4>1, Zenon
            <4>2. CASE wpos[w] = 0
                BY <4>2
            <4> QED
                BY <3>2, <4>1, <4>2
        <3> QED
            BY <3>1, <3>3, <3>4, <3>5, Zenon
    <2>4. wpos'[w] = f
        BY <2>1 DEF Typed, TypeOK
    <2>5. \A k \in DOMAIN outbox[c] : outbox[c][k] # wmsg[w]
        BY <2>1, <2>2, <2>3 DEF CastBehind
    <2>6. ASSUME NEW v \in Workers, NEW d \in Clients, NEW k \in DOMAIN outbox'[d],
                 wpc'[v] = "cast", outbox'[d][k] = wmsg'[v]
          PROVE  k = Len(outbox'[d]) /\ \A g \in Fds : fds'[g] = d => g <= wpos'[v]
        <3>1. v = w
            BY <2>2, <2>6 DEF MutexHeld
        <3>2. CASE outbox'[d] = outbox[d]
            <4>1. k = Len(outbox'[d]) /\ \A g \in Fds : fds[g] = d => g <= wpos[w]
                BY <2>2, <2>6, <3>1, <3>2 DEF CastBehind
            <4> QED
                BY <4>1, <2>2, <2>3, <2>4, <3>1
        <3>3. CASE outbox'[d] # outbox[d]
            <4>1. d = c /\ k = Len(outbox'[d])
                BY <2>1, <2>2, <2>5, <2>6, <3>1, <3>3, OutboxDomain
            <4>2. \A g \in Fds : fds[g] = c => g = f
                BY <2>1 DEF OneDescriptor, OwnNumber, ChatAssumption
            <4> QED
                BY <2>2, <2>3, <2>4, <3>1, <4>1, <4>2
        <3> QED
            BY <3>2, <3>3
    <2> QED
        BY <2>6 DEF CastBehind
<1>2. ASSUME NEW w \in Workers, Lock(w) PROVE CastBehind'
    <2>1. \A d \in Clients : \A k \in DOMAIN outbox[d] : outbox[d][k] # wmsg[w]
        BY <1>2 DEF Lock, SentOnce, HeldOnce
    <2>2. UNCHANGED <<outbox, wmsg, fds, wpos>> /\ \A v \in Workers \ {w} : wpc'[v] = wpc[v]
        BY <1>2 DEF Lock, netVars, Typed, TypeOK
    <2> QED
        BY <2>1, <2>2 DEF CastBehind
<1>3. CASE Accept
    <2>1. PICK c, fd : /\ c = Head(backlog)
                       /\ fds' = [fds EXCEPT ![fd] = c]
                       /\ backlog # <<>>
        BY <1>3 DEF Accept
    <2>2. c \in Clients /\ backlog[1] = c /\ 1 \in DOMAIN backlog
        BY <2>1, HeadTailProperties, LenProperties, EmptySeq DEF Typed, TypeOK
    <2>3. outbox[c] = <<>>
        BY <2>2 DEF OneDescriptor, UnknownOutside, Outside, Unknown
    <2>4. \A f \in Fds : fds'[f] = c \/ fds'[f] = fds[f]
        BY <2>1 DEF Typed, TypeOK
    <2>5. UNCHANGED <<outbox, wpc, wmsg, wpos>>
        BY <1>3 DEF Accept
    <2> QED
        BY <2>3, <2>4, <2>5 DEF CastBehind
<1>4. ASSUME NEW w \in Workers,
             TakeTask(w) \/ RecvCall(w) \/ RecvData(w) \/ RecvEnd(w) \/ Erase(w) \/ Close(w) \/ EndCast(w)
      PROVE  CastBehind'
    <2>1. outbox' = outbox
        BY <1>4 DEF TakeTask, RecvCall, RecvData, RecvEnd, Erase, Close, EndCast, netVars
    <2>2. \A v \in Workers \ {w} : wpc'[v] = wpc[v] /\ wmsg'[v] = wmsg[v] /\ wpos'[v] = wpos[v]
        BY <1>4 DEF TakeTask, RecvCall, RecvData, RecvEnd, Erase, Close, EndCast, Typed, TypeOK
    <2>3. wpc'[w] # "cast"
        <3>1. ~Lock(w) /\ mutex' # w /\ w # None
            <4>1. mutex # w \/ EndCast(w)
                BY <1>4 DEF TakeTask, RecvCall, RecvData, RecvEnd, Erase, Close, MutexHeld
            <4>2. mutex' = mutex \/ EndCast(w)
                BY <1>4 DEF TakeTask, RecvCall, RecvData, RecvEnd, Erase, Close
            <4>3. EndCast(w) => mutex' = None
                BY DEF EndCast
            <4>4. ~Lock(w)
                BY <1>4, <4>2, <4>3 DEF Lock, MayEnter, ChatAssumption
            <4> QED
                BY <4>1, <4>2, <4>3, <4>4 DEF ChatAssumption
        <3>2. MutexHeld'
            BY MutexKept
        <3> QED
            BY <3>1, <3>2 DEF MutexHeld
    <2>4. \A f \in Fds : fds'[f] = None \/ fds'[f] = fds[f]
        BY <1>4 DEF TakeTask, RecvCall, RecvData, RecvEnd, Erase, Close, Closed, EndCast, Typed, TypeOK
    <2> QED
        BY <2>1, <2>2, <2>3, <2>4 DEF CastBehind, ChatAssumption
<1>5. CASE UNCHANGED <<outbox, wpc, wmsg, wpos, fds>>
    BY <1>5 DEF CastBehind
<1> QED
    BY <1>1, <1>2, <1>3, <1>4, <1>5 DEF Next, Connect, Say, Quit, Vanish, MainStep, AcceptError,
       Stop, WorkerStep, vars, netVars, poolVars

\* A send keeps the order, because no other broadcast is under way.
LEMMA OrderKept ==
    Typed /\ SameOrderForAll /\ MutexHeld /\ CastBehind' /\ [Next]_vars => SameOrderForAll'
<1> SUFFICES ASSUME Typed, SameOrderForAll, MutexHeld, CastBehind', [Next]_vars
             PROVE  SameOrderForAll'
    OBVIOUS
<1>1. ASSUME NEW w \in Workers, Send(w) PROVE SameOrderForAll'
    <2>1. PICK f \in Fds, c \in Clients :
              /\ \A d \in Clients \ {c} : outbox'[d] = outbox[d]
              /\ \/ outbox'[c] = outbox[c]
                 \/ /\ DOMAIN outbox'[c] = 1 .. Len(outbox[c]) + 1
                    /\ \A i \in 1 .. Len(outbox[c]) : outbox'[c][i] = outbox[c][i]
                    /\ outbox'[c][Len(outbox[c]) + 1] = wmsg[w]
        BY <1>1, SendsTo
    \* What is not the message of this broadcast was received before.
    <2>2. \A d \in Clients : \A k \in DOMAIN outbox'[d] :
              outbox'[d][k] # wmsg[w] => k \in DOMAIN outbox[d] /\ outbox'[d][k] = outbox[d][k]
        BY <2>1, OutboxDomain
    \* The message of this broadcast is the last one.
    <2>3. \A d \in Clients : \A k \in DOMAIN outbox'[d] :
              outbox'[d][k] = wmsg[w] => k = Len(outbox'[d])
        BY <1>1 DEF Send, CastBehind
    <2>4. ASSUME NEW d \in Clients, NEW k \in DOMAIN outbox'[d]
          PROVE  k \in Int /\ Len(outbox'[d]) \in Int /\ k <= Len(outbox'[d])
        <3>1. Typed'
            BY <1>1, CastTyped
        <3>2. outbox'[d] \in Seq(Messages)
            BY <3>1 DEF Typed, TypeOK
        <3>3. DOMAIN outbox'[d] = 1 .. Len(outbox'[d]) /\ Len(outbox'[d]) \in Nat
            BY <3>2, LenProperties
        <3> QED
            BY <3>3
    <2>5. ASSUME NEW a \in Clients, NEW b \in Clients,
                 NEW i \in DOMAIN outbox'[a], NEW j \in DOMAIN outbox'[a],
                 NEW k \in DOMAIN outbox'[b], NEW l \in DOMAIN outbox'[b],
                 outbox'[a][i] = outbox'[b][k], outbox'[a][j] = outbox'[b][l], i < j
          PROVE  k < l
        <3>1. outbox'[a][i] # wmsg[w]
            BY <2>3, <2>4, <2>5
        <3>2. CASE outbox'[a][j] = wmsg[w]
            <4>1. l = Len(outbox'[b]) /\ k # l
                BY <2>3, <2>5, <3>1, <3>2
            <4> QED
                BY <2>4, <4>1
        <3>3. CASE outbox'[a][j] # wmsg[w]
            BY <2>2, <2>5, <3>1, <3>3 DEF SameOrderForAll
        <3> QED
            BY <3>2, <3>3
    <2> QED
        BY <2>5 DEF SameOrderForAll
<1>2. CASE \A w \in Workers : ~Send(w)
    BY <1>2, OnlySendSends DEF SameOrderForAll
<1> QED
    BY <1>1, <1>2

\* client_mutex makes broadcasts atomic towards each other: two clients that both
\* receive two messages receive them in the same order, and nobody receives one twice.
THEOREM SameOrderInvariant == Spec => []SameOrderForAll
<1>1. Init => CastBehind /\ SameOrderForAll
    BY DEF Init, CastBehind, SameOrderForAll
<1>2. Spec => []CastBehind
    BY <1>1, BehindKept, ThreadsCarry, OneDescriptorInvariant, SentOnceInvariant, MutexInvariant, PTL DEF Spec
<1> QED
    BY <1>1, <1>2, OrderKept, ThreadsCarry, MutexInvariant, PTL DEF Spec

-----------------------------------------------------------------------------
(* The room empties *)

\* As long as no text fills the buffer of recv, nothing of one is read apart.
LEMMA ShortKept == Typed /\ NoLongText /\ [Next]_vars => NoLongText'
<1> SUFFICES ASSUME Typed, NoLongText, [Next]_vars, habit'.verbose = {}
             PROVE  /\ \A c \in Clients : \A i \in DOMAIN inbox'[c] : inbox'[c][i].type \notin {"HEAD", "TAIL"}
                    /\ \A w \in Workers : wpc'[w] # "invalid"
                    /\ \A f \in clients' : \E w \in Workers : wfd'[w] = f /\ wpc'[w] # "close_gone"
    BY DEF NoLongText
<1> USE ChatAssumption
<1>0. habit.verbose = {}
    BY DEF Next, Connect, Say, Quit, Vanish, MainStep, Accept, AcceptError, Stop, WorkerStep, TakeTask,
           RecvCall, RecvData, RecvEnd, Erase, Close, Lock, Send, EndCast, vars, netVars
<1>1. ASSUME NEW c \in Clients, NEW i \in DOMAIN inbox'[c] PROVE inbox'[c][i].type \notin {"HEAD", "TAIL"}
    <2> DEFINE Old == \E j \in DOMAIN inbox[c] : inbox'[c][i] = inbox[c][j]
    <2>1. CASE Old
        BY <1>0, <2>1 DEF NoLongText
    <2>2. ASSUME NEW d \in Clients, Connect(d) PROVE Old \/ inbox'[c][i].type = "LOGIN"
        BY <2>2 DEF Connect, Msg, Typed, TypeOK
    <2>3. ASSUME NEW d \in Clients, Say(d) \/ Quit(d)
          PROVE  Old \/ inbox'[c][i].type \in {"CHAT", "QUIT"}
        <3>1. PICK m : m.type \in {"CHAT", "QUIT"} /\ inbox' = [inbox EXCEPT ![d] = Append(@, m)]
            BY <1>0, <2>3 DEF Say, Quit, Msg
        <3>2. inbox[d] \in Seq(Messages \union {m}) /\ m \in Messages \union {m}
            BY SeqMonotonic DEF Typed, TypeOK
        <3>3. \A k \in DOMAIN Append(inbox[d], m) :
                  \/ k \in DOMAIN inbox[d] /\ Append(inbox[d], m)[k] = inbox[d][k]
                  \/ Append(inbox[d], m)[k] = m
            BY <3>2, AppendProperties, LenProperties
        <3>4. inbox'[c] = IF c = d THEN Append(inbox[d], m) ELSE inbox[c]
            BY <3>1 DEF Typed, TypeOK
        <3> QED
            BY <3>1, <3>3, <3>4
    <2>4. ASSUME NEW w \in Workers, RecvData(w) PROVE Old
        BY <2>4, Reads
    <2>5. CASE inbox' = inbox
        BY <2>1, <2>5
    <2> QED
        BY <2>1, <2>2, <2>3, <2>4, <2>5 DEF Next, Vanish, MainStep, Accept, AcceptError, Stop, WorkerStep,
           TakeTask, RecvCall, RecvEnd, Erase, Close, Lock, Send, EndCast, vars, netVars
<1>2. ASSUME NEW w \in Workers, RecvData(w)
      PROVE  \E pc \in {"login", "chat", "erase_quit"} : wpc' = [wpc EXCEPT ![w] = pc]
    <2>1. PICK c \in Clients : c = wconn[w]
        BY <1>2, ReadFromConn
    <2>2. PICK k \in Readable(c) : wpc' = [wpc EXCEPT ![w] = Handler(Parsed(c, k).type)]
        BY <1>2, <2>1 DEF RecvData
    <2>3. Parsed(c, k).type \in {"LOGIN", "CHAT", "QUIT"}
        BY <1>0, <2>2, Received DEF NoLongText, Typed, Unread, Messages
    <2> QED
        BY <2>2, <2>3, Handled
<1>3. ASSUME NEW w \in Workers PROVE wpc'[w] # "invalid"
    <2>1. ASSUME NEW v \in Workers, RecvData(v) PROVE wpc'[w] # "invalid"
        <3>1. PICK pc \in {"login", "chat", "erase_quit"} : wpc' = [wpc EXCEPT ![v] = pc]
            BY <1>2, <2>1
        <3> QED
            BY <1>0, <3>1 DEF NoLongText, Typed, TypeOK
    <2>2. ASSUME NEW v \in Workers,
                 TakeTask(v) \/ RecvCall(v) \/ RecvEnd(v) \/ Erase(v) \/ Close(v) \/ Lock(v) \/ EndCast(v)
          PROVE  wpc'[w] # "invalid"
        BY <1>0, <2>2 DEF NoLongText, Typed, TypeOK, TakeTask, RecvCall, RecvEnd, AtEnd, Erase, Close, Lock, EndCast
    <2>3. CASE wpc' = wpc
        BY <1>0, <2>3 DEF NoLongText
    <2> QED
        BY <2>1, <2>2, <2>3 DEF Next, Connect, Say, Quit, Vanish, MainStep, Accept, AcceptError, Stop,
           WorkerStep, Send, vars
<1>4. ASSUME NEW f \in clients' PROVE \E w \in Workers : wfd'[w] = f /\ wpc'[w] # "close_gone"
    <2> DEFINE Kept(w) == wfd'[w] = f /\ wpc'[w] # "close_gone"
    <2>0. f \in clients => \E v \in Workers : wfd[v] = f /\ wpc[v] # "close_gone"
        BY <1>0 DEF NoLongText
    <2>1. ASSUME NEW w \in Workers, Lock(w) PROVE \E v \in Workers : Kept(v)
        <3>1. \A v \in Workers : wfd'[v] = wfd[v] /\ wpc'[v] = IF v = w THEN "cast" ELSE wpc[v]
            BY <2>1 DEF Lock, poolVars, Typed, TypeOK
        <3>2. f \in clients \/ f = wfd[w]
            BY <2>1 DEF Lock
        <3> QED
            BY <2>0, <3>1, <3>2
    <2>2. ASSUME NEW w \in Workers, Erase(w) PROVE \E v \in Workers : Kept(v)
        <3>1. f \in clients /\ f # wfd[w]
            BY <2>2 DEF Erase, Erased
        <3>2. \A v \in Workers : wfd'[v] = wfd[v] /\ (v # w => wpc'[v] = wpc[v])
            BY <2>2 DEF Erase, poolVars, Typed, TypeOK
        <3> QED
            BY <2>0, <3>1, <3>2
    <2>3. ASSUME NEW w \in Workers, TakeTask(w) \/ Close(w) PROVE \E v \in Workers : Kept(v)
        <3>1. f \in clients /\ f \in Fds
            BY <2>3 DEF TakeTask, Close, Typed, TypeOK
        <3>2. PICK v \in Workers : wfd[v] = f /\ wpc[v] # "close_gone"
            BY <2>0, <3>1
        <3>3. wpc[v] # "invalid" /\ wpc[v] # "idle"
            BY <1>0, <3>1, <3>2 DEF NoLongText, Typed, Carries, ChatAssumption
        <3>4. wfd'[v] = wfd[v] /\ wpc'[v] # "close_gone"
            BY <2>3, <3>2, <3>3 DEF TakeTask, Close, Typed, TypeOK
        <3> QED
            BY <3>2, <3>4
    <2>4. ASSUME NEW w \in Workers, RecvCall(w) \/ RecvData(w) \/ RecvEnd(w) \/ EndCast(w)
          PROVE  \E v \in Workers : Kept(v)
        <3>1. f \in clients /\ wfd' = wfd
            BY <2>4 DEF RecvCall, RecvData, RecvEnd, EndCast, poolVars
        <3>2. wpc'[w] # "close_gone" /\ \A v \in Workers \ {w} : wpc'[v] = wpc[v]
            BY <1>2, <2>4 DEF RecvCall, RecvEnd, AtEnd, EndCast, Typed, TypeOK
        <3> QED
            BY <2>0, <3>1, <3>2
    <2>5. CASE UNCHANGED <<clients, wfd, wpc>>
        BY <2>0, <2>5
    <2> QED
        BY <2>1, <2>2, <2>3, <2>4, <2>5 DEF Next, Connect, Say, Quit, Vanish, MainStep, Accept, AcceptError,
           Stop, WorkerStep, Send, vars, poolVars
<1> QED
    BY <1>1, <1>3, <1>4

\* As long as no text is longer than the buffer, everybody who left is out of the room
\* when the pool is at rest.
THEOREM RestingRoomInvariant == Spec => []RestingRoomIsEmpty
<1>1. Init => NoLongText
    BY DEF Init, NoLongText
<1>2. Typed /\ NoLongText => RestingRoomIsEmpty
    <2> SUFFICES ASSUME Typed, NoLongText, habit.verbose = {}, PoolAtRest, NEW f \in clients
                 PROVE  FALSE
        BY DEF RestingRoomIsEmpty
    <2>1. PICK w \in Workers : wfd[w] = f
        BY DEF NoLongText
    <2>2. wfd[w] = 0
        BY DEF PoolAtRest, Typed, Carries
    <2> QED
        BY <2>1, <2>2, ChatAssumption DEF Typed, TypeOK, ChatAssumption
<1> QED
    BY <1>1, <1>2, ShortKept, ThreadsCarry, PTL DEF Spec
=============================================================================

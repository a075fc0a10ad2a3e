------------------------------ MODULE Dictionary ------------------------------
(***************************************************************************)
(* 07_projects/04_Dictionary: server processes whose DataManager fills the *)
(* dictionary table when they start, and clients that ask for words.       *)
(*                                                                         *)
(* The database is external: it keeps what was committed, drops the        *)
(* transaction of a process that ends, refuses a word that is there        *)
(* (PRIMARY KEY), and makes an insert wait for another transaction that    *)
(* holds the word.  The serving part of the server is not written yet; it  *)
(* is assumed to answer requests in order, QUIT excepted, which is how the *)
(* client uses it.  A request is its type and its number; an answer longer *)
(* than the client's buffer of 128 bytes comes in two pieces.              *)
(***************************************************************************)
EXTENDS Integers, Sequences, FiniteSets, FiniteSetsExt, SequencesExt

CONSTANTS
    Servers, Clients,
    Files,          \* dict.txt: sequences of lines
    NoEntry,        \* a line without a space: no entry
    Missing,        \* there is no file
    Batch,          \* entries in one insert: 2000 in the code
    MaxCrashes,     \* bound: ends of server processes
    MaxRequests     \* bound: requests of one client

ASSUME DictionaryAssumption ==
    /\ IsFiniteSet(Servers) /\ IsFiniteSet(Clients)
    /\ \A f \in Files : f # Missing => f \in Seq(Range(f))
    /\ Batch \in Nat \ {0} /\ MaxCrashes \in Nat /\ MaxRequests \in Nat

Nobody == "nobody"
NoTx == {NoEntry}

VARIABLES
    file,       \* what dict.txt holds
    schema,     \* whether the databases exist
    dict,       \* the words of the table, as committed
    spc,        \* where each server is
    tx,         \* the words its transaction has inserted
    pos,        \* how many lines it has read
    batch,      \* the lines of the insert it prepares
    trouble,    \* history: servers that could not import
    crashes,
    cpc,        \* where each client is
    asked,      \* how many requests it has sent, QUIT excepted
    want,       \* the request it waits for
    conn, link, \* the server it is connected to, and the state of that
    req, ans,   \* requests and answers on their way
    session,    \* what the server thinks: the user is logged in
    long,       \* history: clients that got an answer in two pieces
    crossed     \* history: clients that took something for an answer that was not

dbVars == <<file, schema, dict>>
srvVars == <<spc, tx, pos, batch, trouble, crashes>>
cliVars == <<cpc, asked, want>>
netVars == <<conn, link, req, ans, session, long>>
vars == <<dbVars, srvVars, cliVars, netVars, crossed>>

Nothing == [type |-> "NONE", no |-> 0]

Init ==
    /\ file \in Files
    /\ schema = FALSE /\ dict = {}
    /\ spc = [s \in Servers |-> "start"]
    /\ tx = [s \in Servers |-> NoTx]
    /\ pos = [s \in Servers |-> 0]
    /\ batch = [s \in Servers |-> {}]
    /\ trouble = {} /\ crashes = 0
    /\ cpc = [c \in Clients |-> "off"]
    /\ asked = [c \in Clients |-> 0]
    /\ want = [c \in Clients |-> Nothing]
    /\ conn = [c \in Clients |-> Nobody]
    /\ link = [c \in Clients |-> "bad"]
    /\ req = [c \in Clients |-> <<>>]
    /\ ans = [c \in Clients |-> <<>>]
    /\ session = [c \in Clients |-> FALSE]
    /\ long = {} /\ crossed = {}

-----------------------------------------------------------------------------
(* DataManager *)

Moves(s, from, to) == spc[s] = from /\ spc' = [spc EXCEPT ![s] = to]

\* The constructor: an error is caught here and shows when the tables are made.
CreateDatabases(s) ==
    /\ Moves(s, "start", "usr")
    /\ schema' \in {schema, TRUE}
    /\ UNCHANGED <<file, dict, tx, pos, batch, trouble, crashes, cliVars, netVars, crossed>>

\* The tables of users; without a database the error leaves the constructor.
InitalizeUsrDB(s) ==
    /\ Moves(s, "usr", IF schema THEN "dict" ELSE "start")
    /\ UNCHANGED <<dbVars, tx, pos, batch, trouble, crashes, cliVars, netVars, crossed>>

\* count: only an empty table is filled.  The lock is the process's own.
InitalizeDictDB(s) ==
    /\ Moves(s, "dict", IF dict = {} THEN "open" ELSE "serve")
    /\ UNCHANGED <<dbVars, tx, pos, batch, trouble, crashes, cliVars, netVars, crossed>>

\* What importDict keeps is gone when it returns.
Forget(s) ==
    /\ tx' = [tx EXCEPT ![s] = NoTx]
    /\ pos' = [pos EXCEPT ![s] = 0]
    /\ batch' = [batch EXCEPT ![s] = {}]

\* importDict: without a file the server goes on without words.
OpenFile(s) ==
    /\ Moves(s, "open", IF file = Missing THEN "serve" ELSE "insert")
    /\ trouble' = IF file = Missing THEN trouble \union {s} ELSE trouble
    /\ tx' = [tx EXCEPT ![s] = IF file = Missing THEN NoTx ELSE {}]
    /\ UNCHANGED <<dbVars, pos, batch, crashes, cliVars, netVars, crossed>>

Size == IF file = Missing THEN 0 ELSE Len(file)
EntryLines == {i \in 1 .. Size : file[i] # NoEntry}
Words(lines) == {file[i] : i \in lines}

\* getline, until there are entries enough for an insert.
ReadLine(s) ==
    /\ spc[s] = "insert"
    /\ pos[s] < Size /\ Cardinality(batch[s]) < Batch
    /\ pos' = [pos EXCEPT ![s] = @ + 1]
    /\ batch' = [batch EXCEPT ![s] = @ \union ({pos[s] + 1} \intersect EntryLines)]
    /\ UNCHANGED <<dbVars, spc, tx, trouble, crashes, cliVars, netVars, crossed>>

\* Every Batch entries, and what is left of them at the end.
Executes(s) ==
    /\ spc[s] = "insert"
    /\ batch[s] # {}
    /\ Cardinality(batch[s]) = Batch \/ pos[s] = Size

\* Another transaction holds one of the words: the insert waits for its end.
Held(s) == \E t \in Servers \ {s} : tx[t] \intersect Words(batch[s]) # {}

Distinct(lines) == \A i, j \in lines : file[i] = file[j] => i = j

Refused(s) == Words(batch[s]) \intersect (dict \union tx[s]) # {} \/ ~Distinct(batch[s])

\* Slip: every batch is committed.
InsertAndCommit(s) ==
    /\ Executes(s)
    /\ ~Held(s) /\ ~Refused(s)
    /\ dict' = dict \union Words(batch[s])
    /\ batch' = [batch EXCEPT ![s] = {}]
    /\ UNCHANGED <<file, schema, spc, tx, pos, trouble, crashes, cliVars, netVars, crossed>>

Insert(s) ==
    /\ Executes(s)
    /\ ~Held(s) /\ ~Refused(s)
    /\ tx' = [tx EXCEPT ![s] = @ \union Words(batch[s])]
    /\ batch' = [batch EXCEPT ![s] = {}]
    /\ UNCHANGED <<dbVars, spc, pos, trouble, crashes, cliVars, netVars, crossed>>

RollsBack(s) ==
    /\ Moves(s, "insert", "serve")
    /\ Forget(s)
    /\ trouble' = trouble \union {s}
    /\ UNCHANGED <<dbVars, crashes, cliVars, netVars, crossed>>

\* A word that is there already: rollback, and the server goes on as it is.
Refuse(s) ==
    /\ Executes(s)
    /\ ~Held(s) /\ Refused(s)
    /\ RollsBack(s)

\* Any other error of the database, at any time.
Fail(s) == RollsBack(s)

\* Slip: the entries after the last full insert are left out.
CommitFull(s) ==
    /\ pos[s] = Size
    /\ Moves(s, "insert", "serve")
    /\ dict' = dict \union tx[s]
    /\ Forget(s)
    /\ UNCHANGED <<file, schema, trouble, crashes, cliVars, netVars, crossed>>

Commit(s) ==
    /\ pos[s] = Size /\ batch[s] = {}
    /\ Moves(s, "insert", "serve")
    /\ dict' = dict \union tx[s]
    /\ Forget(s)
    /\ UNCHANGED <<file, schema, trouble, crashes, cliVars, netVars, crossed>>

\* A server process ends at any time, by an exception or killed, and may be
\* started again.  Requests it has not read turn the end into a reset.
Crash(s) ==
    /\ spc[s] # "start"
    /\ crashes < MaxCrashes
    /\ crashes' = crashes + 1
    /\ spc' = [spc EXCEPT ![s] = "start"]
    /\ Forget(s)
    /\ trouble' = trouble \ {s}
    /\ link' = [c \in Clients |->
           IF conn[c] # s \/ link[c] # "up" THEN link[c]
           ELSE IF req[c] = <<>> THEN "closed" ELSE "reset"]
    /\ req' = [c \in Clients |-> IF conn[c] = s THEN <<>> ELSE req[c]]
    /\ session' = [c \in Clients |-> session[c] /\ conn[c] # s]
    /\ UNCHANGED <<dbVars, cliVars, conn, ans, long, crossed>>

-----------------------------------------------------------------------------
(* The serving part, as the client uses it *)

Pieces(q, ok, twoPieces) ==
    IF twoPieces THEN <<[of |-> q, part |-> "head", ok |-> FALSE], [of |-> q, part |-> "rest", ok |-> FALSE]>>
    ELSE <<[of |-> q, part |-> "whole", ok |-> ok]>>

\* LOGIN and REGISTER are granted or not; no line of dict.txt fills the client's
\* buffer, a history may.
Serve(c) ==
    /\ link[c] = "up" /\ req[c] # <<>>
    /\ LET q == Head(req[c])
       IN  /\ req' = [req EXCEPT ![c] = Tail(@)]
           /\ \/ /\ q.type = "QUIT"
                 /\ session' = [session EXCEPT ![c] = FALSE]
                 /\ UNCHANGED <<ans, long>>
              \/ \E ok, two \in BOOLEAN :
                    /\ q.type # "QUIT"
                    /\ q.type \in {"QUERY", "HISTORY"} => ok
                    /\ two => q.type = "HISTORY"
                    /\ ans' = [ans EXCEPT ![c] = @ \o Pieces(q, ok, two)]
                    /\ long' = IF two THEN long \union {c} ELSE long
                    /\ session' = [session EXCEPT ![c] = @ \/ (q.type = "LOGIN" /\ ok)]
    /\ UNCHANGED <<dbVars, srvVars, cliVars, conn, link, crossed>>

-----------------------------------------------------------------------------
(* The client *)

\* The constructor; a failed connect is reported, and the menu comes all the same.
Connect(c) ==
    /\ cpc[c] = "off"
    /\ cpc' = [cpc EXCEPT ![c] = "menu"]
    /\ \/ \E s \in Servers :
             /\ spc[s] = "serve"
             /\ conn' = [conn EXCEPT ![c] = s]
             /\ link' = [link EXCEPT ![c] = "up"]
       \/ (\A s \in Servers : spc[s] # "serve") /\ UNCHANGED <<conn, link>>
    /\ UNCHANGED <<dbVars, srvVars, asked, want, req, ans, session, long, crossed>>

\* send: the first one after the server has gone is answered by a reset, the
\* next one raises SIGPIPE; on a closed socket it only fails.
Send(c, qs, next) ==
    /\ req' = [req EXCEPT ![c] = IF link[c] = "up" THEN @ \o qs ELSE @]
    /\ link' = [link EXCEPT ![c] = IF @ = "closed" THEN "reset" ELSE @]
    /\ cpc' = [cpc EXCEPT ![c] = IF link[c] = "reset" THEN "gone" ELSE next]

Offered(c) == CASE cpc[c] = "menu" -> {"REGISTER", "LOGIN"}
                [] cpc[c] = "dash" -> {"QUERY", "HISTORY"}
                [] OTHER -> {}
BackTo(type) == IF type \in {"REGISTER", "LOGIN"} THEN "menu" ELSE "dash"

\* Slip: the answer to a history is not awaited.
HistoryUnread(c) ==
    /\ asked[c] < MaxRequests
    /\ \E type \in Offered(c) :
          LET q == [type |-> type, no |-> asked[c] + 1]
          IN  /\ Send(c, <<q>>, IF type = "HISTORY" THEN "dash" ELSE "wait")
              /\ want' = [want EXCEPT ![c] = q]
    /\ asked' = [asked EXCEPT ![c] = @ + 1]
    /\ UNCHANGED <<dbVars, srvVars, conn, ans, session, long, crossed>>

Ask(c) ==
    /\ asked[c] < MaxRequests
    /\ \E type \in Offered(c) :
          LET q == [type |-> type, no |-> asked[c] + 1]
          IN  /\ Send(c, <<q>>, "wait")
              /\ want' = [want EXCEPT ![c] = q]
    /\ asked' = [asked EXCEPT ![c] = @ + 1]
    /\ UNCHANGED <<dbVars, srvVars, conn, ans, session, long, crossed>>

\* One recv: the first piece that is there, or several of them run together.
\* What is not one whole message may parse as anything.
Receive(c) ==
    /\ cpc[c] = "wait"
    /\ \E n \in 1 .. Len(ans[c]), ok \in BOOLEAN :
          LET first == Head(ans[c])
              complete == n = 1 /\ first.part = "whole"
          IN  /\ complete => ok = first.ok
              /\ ans' = [ans EXCEPT ![c] = SubSeq(@, n + 1, Len(@))]
              /\ crossed' = IF complete /\ first.of = want[c] THEN crossed ELSE crossed \union {c}
              /\ cpc' = [cpc EXCEPT ![c] = IF want[c].type = "LOGIN" /\ ok
                                           THEN "dash" ELSE BackTo(want[c].type)]
    /\ UNCHANGED <<dbVars, srvVars, asked, want, conn, link, req, session, long>>

\* recv <= 0: the function returns to the menu it came from.
RecvError(c) ==
    /\ cpc[c] = "wait"
    /\ ans[c] = <<>> /\ link[c] # "up"
    /\ cpc' = [cpc EXCEPT ![c] = BackTo(want[c].type)]
    /\ UNCHANGED <<dbVars, srvVars, asked, want, netVars, crossed>>

Quit == [type |-> "QUIT", no |-> 0]

\* Slip: logging out waits for an answer.
LogoutWaits(c) ==
    /\ cpc[c] = "dash"
    /\ Send(c, <<Quit>>, "wait")
    /\ want' = [want EXCEPT ![c] = Quit]
    /\ UNCHANGED <<dbVars, srvVars, asked, conn, ans, session, long, crossed>>

\* Slip: the dashboard comes back after logging out.
LogoutStays(c) ==
    /\ cpc[c] = "dash"
    /\ Send(c, <<Quit>>, "dash")
    /\ UNCHANGED <<dbVars, srvVars, asked, want, conn, ans, session, long, crossed>>

\* Back from the dashboard: QUIT, which nobody answers.
Logout(c) ==
    /\ cpc[c] = "dash"
    /\ Send(c, <<Quit>>, "menu")
    /\ UNCHANGED <<dbVars, srvVars, asked, want, conn, ans, session, long, crossed>>

\* Exit from the menu: QUIT there and once more in the destructor.
Exit(c) ==
    /\ cpc[c] = "menu"
    /\ Send(c, <<Quit, Quit>>, "gone")
    /\ UNCHANGED <<dbVars, srvVars, asked, want, conn, ans, session, long, crossed>>

-----------------------------------------------------------------------------
Start(s) == CreateDatabases(s) \/ InitalizeUsrDB(s) \/ InitalizeDictDB(s)
Import(s) == OpenFile(s) \/ ReadLine(s) \/ Insert(s) \/ Refuse(s) \/ Commit(s)
Client(c) == Receive(c) \/ RecvError(c)

Next ==
    \/ \E s \in Servers : Start(s) \/ Import(s) \/ Fail(s) \/ Crash(s)
    \/ \E c \in Clients : Connect(c) \/ Ask(c) \/ Client(c) \/ Logout(c) \/ Exit(c) \/ Serve(c)

Spec == Init /\ [][Next]_vars

\* Programs run, the database answers, the server serves; nobody has to ask.
FairSpec ==
    /\ Spec
    /\ \A s \in Servers : WF_vars(Start(s)) /\ WF_vars(Import(s))
    /\ \A c \in Clients : WF_vars(Client(c)) /\ WF_vars(Serve(c))

-----------------------------------------------------------------------------
(* Properties *)

Requests == [type : {"NONE", "REGISTER", "LOGIN", "QUERY", "HISTORY", "QUIT"}, no : Nat]

TypeOK ==
    /\ schema \in BOOLEAN
    /\ dict \subseteq Words(EntryLines)
    /\ spc \in [Servers -> {"start", "usr", "dict", "open", "insert", "serve"}]
    /\ tx \in [Servers -> (SUBSET Words(EntryLines)) \union {NoTx}]
    /\ \A s \in Servers : spc[s] = "insert" <=> tx[s] # NoTx
    /\ pos \in [Servers -> 0 .. Size] /\ batch \in [Servers -> SUBSET EntryLines]
    /\ trouble \subseteq Servers /\ crashes \in 0 .. MaxCrashes
    /\ cpc \in [Clients -> {"off", "menu", "wait", "dash", "gone"}]
    /\ asked \in [Clients -> 0 .. MaxRequests] /\ want \in [Clients -> Requests]
    /\ conn \in [Clients -> Servers \union {Nobody}]
    /\ link \in [Clients -> {"bad", "up", "closed", "reset"}]
    /\ req \in [Clients -> Seq(Requests)]
    /\ ans \in [Clients -> Seq([of : Requests, part : {"whole", "head", "rest"}, ok : BOOLEAN])]
    /\ session \in [Clients -> BOOLEAN]
    /\ long \subseteq Clients /\ crossed \subseteq Clients

\* The table holds the whole file or nothing, whatever fails and whoever else is
\* importing; a file in which a word comes twice is never taken in at all.
AllOrNothing ==
    dict # {} => dict = Words(EntryLines) /\ Distinct(EntryLines)

\* A server that did not report a failed import serves the whole dictionary, even
\* if another one was importing when it looked at the table.
ServesWhole ==
    \A s \in Servers : spc[s] = "serve" => dict = Words(EntryLines) \/ s \in trouble

AnswersMatch == crossed \subseteq long

SessionAgreed ==
    \A c \in Clients \ long :
        /\ link[c] = "up"
        /\ cpc[c] = "dash" \/ (cpc[c] = "wait" /\ BackTo(want[c].type) = "dash")
        => session[c]

\* As long as every answer fits its buffer, what a client takes for the answer is the
\* answer to its request, and a client whose dashboard is open is logged in at the
\* server it is connected to.
InStep == AnswersMatch /\ SessionAgreed

\* Nobody hangs: two servers that import at the same time do not wait for each other
\* for ever, whether or not the database gives up waiting for a lock; and a client
\* that waits for an answer goes on, although the server may be gone.
NobodyHangs ==
    /\ \A s \in Servers : spc[s] = "insert" ~> spc[s] # "insert"
    /\ \A c \in Clients : cpc[c] = "wait" ~> cpc[c] # "wait"
=============================================================================

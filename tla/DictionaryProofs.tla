--------------------------- MODULE DictionaryProofs ---------------------------
(***************************************************************************)
(* That the table of Dictionary holds the whole file or nothing and that   *)
(* clients and servers stay in step, for any number of either, any files,  *)
(* any size of an insert and any number of crashes.                        *)
(*                                                                         *)
(* Two importing processes cannot both have inserted: each begins with the *)
(* first entry of the file, which the other one's transaction holds.  That *)
(* takes an order on what a process has read: the lines it has inserted    *)
(* come before those it is about to insert, and there are no others.       *)
(*                                                                         *)
(* Between a client and its server there is one request or one answer at a *)
(* time, QUIT excepted, which nobody answers; and no QUIT is on its way    *)
(* while the dashboard is open.                                            *)
(***************************************************************************)
EXTENDS Dictionary, TLAPS

Answers == [of : Requests, part : {"whole", "head", "rest"}, ok : BOOLEAN]

-----------------------------------------------------------------------------
(* The inductive invariants *)

Importing(s) == spc[s] = "insert"

\* The lines of the file whose entries are in the transaction.
Inserted(s) == {i \in EntryLines : i <= pos[s]} \ batch[s]

\* Nothing is behind the line that was read last, and what was inserted is before what
\* is to be inserted.
InOrder ==
    \A s \in Servers :
        /\ \A j \in batch[s] : j <= pos[s]
        /\ \A i \in Inserted(s), j \in batch[s] : i < j

\* Who does not import has read nothing.
AtRest == \A s \in Servers : ~Importing(s) => pos[s] = 0 /\ batch[s] = {}

TxIsInserted ==
    \A s \in Servers : Importing(s) => tx[s] = Words(Inserted(s)) /\ Distinct(Inserted(s))

\* One process has inserted at most, and none if the table is full.
OneInserts ==
    /\ \A s, t \in Servers : Importing(s) /\ Importing(t) /\ tx[s] # {} /\ tx[t] # {} => s = t
    /\ dict # {} => \A s \in Servers : Importing(s) => tx[s] = {}

ImportInv == AtRest /\ InOrder /\ TxIsInserted /\ OneInserts /\ AllOrNothing

\* Who has got the answers it has waited for in one piece.
Short(c) == c \notin long

\* Requests on their way: QUITs, and behind them the one that is waited for.
RequestsInStep(c) ==
    /\ link[c] # "up" => req[c] = <<>>
    /\ \A i \in 1 .. Len(req[c]) :
          req[c][i].type = "QUIT" \/ (i = Len(req[c]) /\ cpc[c] = "wait" /\ req[c][i] = want[c])
    /\ cpc[c] = "wait" => want[c].type # "QUIT"

\* An answer on its way is the one that is waited for, and no request is then.
AnswersInStep(c) ==
    /\ Len(ans[c]) <= 1
    /\ ans[c] # <<>> =>
          /\ cpc[c] = "wait" /\ req[c] = <<>>
          /\ ans[c][1].of = want[c] /\ ans[c][1].part = "whole"

InDashboard(c) == cpc[c] = "dash" \/ (cpc[c] = "wait" /\ BackTo(want[c].type) = "dash")

\* While the dashboard is open, or is about to open, the server takes the user for
\* logged in, and has no QUIT to read.
SessionKept(c) ==
    /\ InDashboard(c) => \A i \in 1 .. Len(req[c]) : req[c][i].type # "QUIT"
    /\ link[c] = "up" /\ InDashboard(c) => session[c]
    /\ link[c] = "up" /\ ans[c] # <<>> /\ want[c].type = "LOGIN" /\ ans[c][1].ok => session[c]

KeepsStep(c) == RequestsInStep(c) /\ AnswersInStep(c) /\ SessionKept(c) /\ c \notin crossed

ClientInv == \A c \in Clients : Short(c) => KeepsStep(c)

-----------------------------------------------------------------------------
(* Types *)

StorageTyped ==
    /\ file \in Files /\ schema \in BOOLEAN
    /\ dict \subseteq Words(EntryLines)
    /\ spc \in [Servers -> {"start", "usr", "dict", "open", "insert", "serve"}]
    /\ tx \in [Servers -> (SUBSET Words(EntryLines)) \union {NoTx}]
    /\ \A s \in Servers : spc[s] = "insert" <=> tx[s] # NoTx
    /\ pos \in [Servers -> 0 .. Size] /\ batch \in [Servers -> SUBSET EntryLines]
    /\ trouble \subseteq Servers /\ crashes \in 0 .. MaxCrashes

ClientTyped ==
    /\ cpc \in [Clients -> {"off", "menu", "wait", "dash", "gone"}]
    /\ asked \in [Clients -> 0 .. MaxRequests] /\ want \in [Clients -> Requests]
    /\ conn \in [Clients -> Servers \union {Nobody}]
    /\ link \in [Clients -> {"bad", "up", "closed", "reset"}]
    /\ req \in [Clients -> Seq(Requests)]
    /\ ans \in [Clients -> Seq(Answers)]
    /\ session \in [Clients -> BOOLEAN]
    /\ long \subseteq Clients /\ crossed \subseteq Clients

Typed == StorageTyped /\ ClientTyped

\* A file has a size, and no word of it is the mark of a process without transaction.
LEMMA FileFacts ==
    ASSUME file \in Files
    PROVE  Size \in Nat /\ EntryLines \subseteq 1 .. Size /\ NoEntry \notin Words(EntryLines)
<1>1. Size \in Nat
    BY DictionaryAssumption DEF Size
<1> QED BY <1>1 DEF EntryLines, Words

\* The words and lines of a file are the same while it is the same.
LEMMA SameFile ==
    ASSUME file' = file
    PROVE  /\ Size' = Size /\ EntryLines' = EntryLines
           /\ \A lines : Words(lines)' = Words(lines) /\ Distinct(lines)' = Distinct(lines)
    BY DEF Size, EntryLines, Words, Distinct

\* At the start every variable has its type.
LEMMA InitiallyTyped == Init => Typed
<1> SUFFICES ASSUME Init PROVE Typed
    OBVIOUS
<1>1. Size \in Nat
    BY FileFacts DEF Init
<1>2. StorageTyped
    <2>1. tx \in [Servers -> (SUBSET Words(EntryLines)) \union {NoTx}]
        BY DEF Init
    <2>2. \A s \in Servers : spc[s] = "start" /\ tx[s] = NoTx
        BY DEF Init
    <2>3. pos \in [Servers -> 0 .. Size] /\ batch \in [Servers -> SUBSET EntryLines] /\ crashes \in 0 .. MaxCrashes
        BY <1>1, DictionaryAssumption DEF Init
    <2>4. /\ file \in Files /\ schema \in BOOLEAN /\ dict \subseteq Words(EntryLines) /\ trouble \subseteq Servers
          /\ spc \in [Servers -> {"start", "usr", "dict", "open", "insert", "serve"}]
        BY DEF Init
    <2> QED BY <2>1, <2>2, <2>3, <2>4 DEF StorageTyped
<1>3. Nothing \in Requests
    BY DEF Nothing, Requests
<1>4. ClientTyped
    BY <1>3, DictionaryAssumption DEF Init, ClientTyped
<1> QED BY <1>2, <1>4 DEF Typed

\* What a server does by itself keeps the types of its variables.
LEMMA ServerTyped ==
    ASSUME StorageTyped, NEW s \in Servers, Start(s) \/ Import(s) \/ Fail(s) \/ Crash(s)
    PROVE  StorageTyped' /\ file' = file
<1>1. file' = file
    BY DEF Start, Import, Fail, Crash, CreateDatabases, InitalizeUsrDB, InitalizeDictDB, OpenFile,
           ReadLine, Insert, Refuse, RollsBack, Commit, dbVars
<1>2. /\ Size \in Nat /\ Size' = Size /\ EntryLines' = EntryLines
      /\ Words(EntryLines)' = Words(EntryLines) /\ NoEntry \notin Words(EntryLines)
    BY <1>1, FileFacts, SameFile DEF StorageTyped
<1> DEFINE W == Words(EntryLines)
<1>3. ASSUME CreateDatabases(s) PROVE StorageTyped'
    BY <1>1, <1>2, <1>3 DEF StorageTyped, CreateDatabases, Moves
<1>4. ASSUME InitalizeUsrDB(s) PROVE StorageTyped'
    BY <1>1, <1>2, <1>4 DEF StorageTyped, InitalizeUsrDB, Moves, dbVars
<1>5. ASSUME InitalizeDictDB(s) PROVE StorageTyped'
    BY <1>1, <1>2, <1>5 DEF StorageTyped, InitalizeDictDB, Moves, dbVars
<1>6. ASSUME OpenFile(s) PROVE StorageTyped'
    BY <1>1, <1>2, <1>6 DEF StorageTyped, OpenFile, Moves, dbVars, NoTx
<1>7. ASSUME ReadLine(s) PROVE StorageTyped'
    BY <1>1, <1>2, <1>7 DEF StorageTyped, ReadLine, dbVars
<1>8. ASSUME Insert(s) PROVE StorageTyped'
    <2>1. Words(batch[s]) \subseteq W
        BY DEF StorageTyped, Words
    <2>2. tx[s] \in SUBSET W /\ tx[s] # NoTx /\ tx[s] \union Words(batch[s]) # NoTx
        BY <1>2, <1>8, <2>1 DEF StorageTyped, Insert, Executes, NoTx
    <2> QED BY <1>1, <1>2, <1>8, <2>1, <2>2 DEF StorageTyped, Insert, Executes, dbVars
<1>9. ASSUME RollsBack(s) PROVE StorageTyped'
    BY <1>1, <1>2, <1>9 DEF StorageTyped, RollsBack, Forget, Moves, dbVars
<1>10. ASSUME Commit(s) PROVE StorageTyped'
    <2>1. tx[s] \in SUBSET W
        BY <1>10 DEF StorageTyped, Commit, Moves
    <2> QED BY <1>1, <1>2, <1>10, <2>1 DEF StorageTyped, Commit, Forget, Moves
<1>11. ASSUME Crash(s) PROVE StorageTyped'
    BY <1>1, <1>2, <1>11, DictionaryAssumption DEF StorageTyped, Crash, Forget, dbVars
<1> QED BY <1>1, <1>3, <1>4, <1>5, <1>6, <1>7, <1>8, <1>9, <1>10, <1>11
        DEF Start, Import, Fail, Refuse

\* Requests are sent and answers taken one after the other.
LEMMA QueueTyped ==
    ASSUME NEW S, NEW q \in Seq(S)
    PROVE  /\ \A e \in S : q \o <<e>> \in Seq(S) /\ q \o <<e, e>> \in Seq(S)
           /\ q # <<>> => Tail(q) \in Seq(S) /\ Head(q) \in S
           /\ \A n \in 1 .. Len(q) : SubSeq(q, n + 1, Len(q)) \in Seq(S)
<1>1. \A n \in 1 .. Len(q) : SubSeq(q, n + 1, Len(q)) \in Seq(S)
    OBVIOUS
<1>2. q # <<>> => Tail(q) \in Seq(S) /\ Head(q) \in S
    OBVIOUS
<1>3. \A e \in S : <<e>> \in Seq(S) /\ <<e, e>> \in Seq(S)
    OBVIOUS
<1>4. \A r \in Seq(S) : q \o r \in Seq(S)
    OBVIOUS
<1> QED BY <1>1, <1>2, <1>3, <1>4

\* An answer in one piece or two.
LEMMA PiecesTyped ==
    ASSUME NEW q \in Requests, NEW ok \in BOOLEAN, NEW two \in BOOLEAN
    PROVE  /\ Pieces(q, ok, two) \in Seq(Answers)
           /\ ~two => Pieces(q, ok, two) = <<[of |-> q, part |-> "whole", ok |-> ok]>>
<1>1. [of |-> q, part |-> "head", ok |-> FALSE] \in Answers
    BY DEF Answers
<1>2. [of |-> q, part |-> "rest", ok |-> FALSE] \in Answers
    BY DEF Answers
<1>3. [of |-> q, part |-> "whole", ok |-> ok] \in Answers
    BY DEF Answers
<1> HIDE DEF Answers
<1>4. \A x, y \in Answers : <<x, y>> \in Seq(Answers) /\ <<x>> \in Seq(Answers)
    OBVIOUS
<1> QED BY <1>1, <1>2, <1>3, <1>4 DEF Pieces

\* A client sends requests.
LEMMA SendTyped ==
    ASSUME ClientTyped, NEW c \in Clients, NEW qs \in Seq(Requests), NEW next \in {"menu", "wait", "dash", "gone"},
           Send(c, qs, next)
    PROVE  /\ req' \in [Clients -> Seq(Requests)]
           /\ link' \in [Clients -> {"bad", "up", "closed", "reset"}]
           /\ cpc' \in [Clients -> {"off", "menu", "wait", "dash", "gone"}]
<1>1. req[c] \o qs \in Seq(Requests)
    BY DEF ClientTyped
<1> QED BY <1>1 DEF ClientTyped, Send

\* What is asked for is a request, and so is the word of parting.
LEMMA RequestTyped ==
    /\ Quit \in Requests /\ <<Quit>> \in Seq(Requests) /\ <<Quit, Quit>> \in Seq(Requests)
    /\ \A q \in Requests : <<q>> \in Seq(Requests)
    /\ \A type \in {"REGISTER", "LOGIN", "QUERY", "HISTORY"}, n \in Nat :
           [type |-> type, no |-> n + 1] \in Requests
<1>1. Quit \in Requests
    BY DEF Quit, Requests
<1>2. \A q \in Requests : <<q>> \in Seq(Requests) /\ <<q, q>> \in Seq(Requests)
    OBVIOUS
<1>3. \A type \in {"REGISTER", "LOGIN", "QUERY", "HISTORY"}, n \in Nat :
           [type |-> type, no |-> n + 1] \in Requests
    BY DEF Requests
<1> QED BY <1>1, <1>2, <1>3

\* What a client does, and what is done for it, keeps the types of its variables.
LEMMA ClientStepTyped ==
    ASSUME ClientTyped, NEW c \in Clients,
           Connect(c) \/ Ask(c) \/ Client(c) \/ Logout(c) \/ Exit(c) \/ Serve(c)
    PROVE  ClientTyped'
<1>1. ASSUME Connect(c) PROVE ClientTyped'
    <2>1. cpc' \in [Clients -> {"off", "menu", "wait", "dash", "gone"}]
        BY <1>1 DEF ClientTyped, Connect
    <2>2. UNCHANGED <<asked, want, req, ans, session, long, crossed>>
        BY <1>1 DEF Connect
    <2>3. /\ conn' \in [Clients -> Servers \union {Nobody}]
          /\ link' \in [Clients -> {"bad", "up", "closed", "reset"}]
        <3>1. CASE UNCHANGED <<conn, link>>
            BY <3>1 DEF ClientTyped
        <3>2. ASSUME NEW s \in Servers, conn' = [conn EXCEPT ![c] = s], link' = [link EXCEPT ![c] = "up"]
              PROVE  /\ conn' \in [Clients -> Servers \union {Nobody}]
                     /\ link' \in [Clients -> {"bad", "up", "closed", "reset"}]
            BY <3>2 DEF ClientTyped
        <3> QED
            BY <1>1, <3>1, <3>2 DEF Connect
    <2> QED
        BY <2>1, <2>2, <2>3 DEF ClientTyped
<1>2. ASSUME Ask(c) PROVE ClientTyped'
    <2>1. PICK type \in Offered(c) : LET q == [type |-> type, no |-> asked[c] + 1]
                                    IN  Send(c, <<q>>, "wait") /\ want' = [want EXCEPT ![c] = q]
        BY <1>2 DEF Ask
    <2>2. type \in {"REGISTER", "LOGIN", "QUERY", "HISTORY"}
        BY DEF Offered
    <2>3. PICK q : q = [type |-> type, no |-> asked[c] + 1]
        OBVIOUS
    <2>4. q \in Requests /\ <<q>> \in Seq(Requests)
        BY <2>2, <2>3, RequestTyped DEF ClientTyped
    <2>5. Send(c, <<q>>, "wait") /\ want' = [want EXCEPT ![c] = q]
        BY <2>1, <2>3
    <2>6. asked' \in [Clients -> 0 .. MaxRequests]
        BY <1>2, DictionaryAssumption DEF ClientTyped, Ask
    <2> QED BY <1>2, <2>4, <2>5, <2>6, SendTyped DEF ClientTyped, Ask
<1>3. ASSUME Receive(c) PROVE ClientTyped'
    <2>1. PICK n \in 1 .. Len(ans[c]) : ans' = [ans EXCEPT ![c] = SubSeq(@, n + 1, Len(@))]
        BY <1>3 DEF Receive
    <2>2. SubSeq(ans[c], n + 1, Len(ans[c])) \in Seq(Answers)
        BY QueueTyped DEF ClientTyped
    <2>3. ans' \in [Clients -> Seq(Answers)]
        BY <2>1, <2>2 DEF ClientTyped
    <2>4. crossed' \subseteq Clients /\ cpc' \in [Clients -> {"off", "menu", "wait", "dash", "gone"}]
        BY <1>3 DEF ClientTyped, Receive, BackTo
    <2> QED BY <1>3, <2>3, <2>4 DEF ClientTyped, Receive
<1>4. ASSUME RecvError(c) PROVE ClientTyped'
    BY <1>4 DEF ClientTyped, RecvError, BackTo, netVars
<1>5. ASSUME Logout(c) PROVE ClientTyped'
    BY <1>5, RequestTyped, SendTyped DEF ClientTyped, Logout
<1>6. ASSUME Exit(c) PROVE ClientTyped'
    BY <1>6, RequestTyped, SendTyped DEF ClientTyped, Exit
<1>7. ASSUME Serve(c) PROVE ClientTyped'
    <2>1. req[c] \in Seq(Requests) /\ req[c] # <<>> /\ Head(req[c]) \in Requests /\ Tail(req[c]) \in Seq(Requests)
        BY <1>7, QueueTyped DEF ClientTyped, Serve
    <2>2. req' \in [Clients -> Seq(Requests)]
        BY <1>7, <2>1 DEF ClientTyped, Serve
    <2>3. ans' \in [Clients -> Seq(Answers)] /\ session' \in [Clients -> BOOLEAN] /\ long' \subseteq Clients
        <3>1. CASE Head(req[c]).type = "QUIT"
            BY <1>7, <3>1 DEF ClientTyped, Serve
        <3>2. CASE Head(req[c]).type # "QUIT"
            <4>1. PICK ok, two \in BOOLEAN :
                     /\ ans' = [ans EXCEPT ![c] = @ \o Pieces(Head(req[c]), ok, two)]
                     /\ long' = IF two THEN long \union {c} ELSE long
                     /\ session' = [session EXCEPT ![c] = @ \/ (Head(req[c]).type = "LOGIN" /\ ok)]
                BY <1>7, <3>2 DEF Serve
            <4>2. ans[c] \o Pieces(Head(req[c]), ok, two) \in Seq(Answers)
                <5>1. ans[c] \in Seq(Answers) /\ Pieces(Head(req[c]), ok, two) \in Seq(Answers)
                    BY <2>1, PiecesTyped DEF ClientTyped
                <5> QED BY <5>1
            <4> QED BY <4>1, <4>2 DEF ClientTyped
        <3> QED BY <3>1, <3>2
    <2> QED BY <1>7, <2>2, <2>3 DEF ClientTyped, Serve, cliVars
<1> QED BY <1>1, <1>2, <1>3, <1>4, <1>5, <1>6, <1>7 DEF Client

\* A crash leaves a client with its connection closed or reset.
LEMMA CrashTyped ==
    ASSUME ClientTyped, NEW s \in Servers, Crash(s)
    PROVE  ClientTyped'
<1>1. /\ link' \in [Clients -> {"bad", "up", "closed", "reset"}]
      /\ session' \in [Clients -> BOOLEAN]
    BY DEF ClientTyped, Crash
<1>2. req' \in [Clients -> Seq(Requests)]
    <2>1. <<>> \in Seq(Requests)
        OBVIOUS
    <2> QED BY <2>1 DEF ClientTyped, Crash
<1> QED BY <1>1, <1>2 DEF ClientTyped, Crash, cliVars

ServerStep(s) == Start(s) \/ Import(s) \/ Fail(s)
ClientStep(c) == Connect(c) \/ Ask(c) \/ Client(c) \/ Logout(c) \/ Exit(c) \/ Serve(c)

\* Who steps leaves the others' variables alone: a server those of the clients unless
\* it crashes, a client those of the servers.
LEMMA NextCases ==
    ASSUME [Next]_vars
    PROVE  \/ \E s \in Servers : ServerStep(s) /\ UNCHANGED <<cliVars, netVars, crossed>>
           \/ \E s \in Servers : Crash(s)
           \/ \E c \in Clients : ClientStep(c) /\ UNCHANGED <<dbVars, srvVars>>
           \/ UNCHANGED vars
<1>1. ASSUME NEW s \in Servers, ServerStep(s) PROVE UNCHANGED <<cliVars, netVars, crossed>>
    BY <1>1 DEF ServerStep, Start, Import, Fail, CreateDatabases, InitalizeUsrDB, InitalizeDictDB, OpenFile,
           ReadLine, Insert, Refuse, RollsBack, Commit
<1>2. ASSUME NEW c \in Clients, ClientStep(c) PROVE UNCHANGED <<dbVars, srvVars>>
    BY <1>2 DEF ClientStep, Client, Connect, Ask, Receive, RecvError, Logout, Exit, Serve
<1> QED BY <1>1, <1>2 DEF Next, ServerStep, ClientStep

\* Nothing changes for the storage while its variables do not, and neither for clients.
LEMMA StorageSame ==
    ASSUME UNCHANGED <<dbVars, srvVars>>
    PROVE  (StorageTyped => StorageTyped') /\ (ImportInv => ImportInv') /\ (ServesWhole => ServesWhole')
<1>1. file' = file /\ dict' = dict /\ schema' = schema /\ spc' = spc /\ tx' = tx /\ pos' = pos /\ batch' = batch
      /\ trouble' = trouble /\ crashes' = crashes
    BY DEF dbVars, srvVars
<1>2. Size' = Size /\ EntryLines' = EntryLines
    BY <1>1, SameFile
<1>3. StorageTyped => StorageTyped'
    BY <1>1, <1>2 DEF StorageTyped, Words
<1>4. ImportInv => ImportInv'
    BY <1>1, <1>2 DEF ImportInv, AtRest, InOrder, TxIsInserted, OneInserts, AllOrNothing, Inserted, Importing,
                      Words, Distinct
<1>5. ServesWhole => ServesWhole'
    BY <1>1, <1>2 DEF ServesWhole, Words
<1> QED BY <1>3, <1>4, <1>5

\* Nothing changes between clients and servers while their variables do not.
LEMMA ClientsSame ==
    ASSUME UNCHANGED <<cliVars, netVars, crossed>>
    PROVE  (ClientTyped => ClientTyped') /\ (ClientInv => ClientInv')
    BY DEF cliVars, netVars, ClientTyped, ClientInv, KeepsStep, RequestsInStep, AnswersInStep, SessionKept, InDashboard, Short

\* Every step keeps the types.
LEMMA TypedKept == Typed /\ [Next]_vars => Typed'
<1> SUFFICES ASSUME Typed, [Next]_vars PROVE Typed'
    OBVIOUS
<1>1. ASSUME NEW s \in Servers, ServerStep(s), UNCHANGED <<cliVars, netVars, crossed>> PROVE Typed'
    BY <1>1, ServerTyped, ClientsSame DEF Typed, ServerStep
<1>2. ASSUME NEW s \in Servers, Crash(s) PROVE Typed'
    BY <1>2, ServerTyped, CrashTyped DEF Typed
<1>3. ASSUME NEW c \in Clients, ClientStep(c), UNCHANGED <<dbVars, srvVars>> PROVE Typed'
    BY <1>3, ClientStepTyped, StorageSame DEF Typed, ClientStep
<1>4. ASSUME UNCHANGED vars PROVE Typed'
    BY <1>4, ClientsSame, StorageSame DEF Typed, vars
<1> QED BY <1>1, <1>2, <1>3, <1>4, NextCases

\* Every variable has its type in every state.
THEOREM TypeCorrect == Spec => []TypeOK
<1>1. Typed => TypeOK
    BY DEF Typed, StorageTyped, ClientTyped, TypeOK, Answers
<1>2. Spec => []Typed
    BY InitiallyTyped, TypedKept, PTL DEF Spec
<1> QED BY <1>1, <1>2, PTL

-----------------------------------------------------------------------------
(* The table *)

\* At the start the table is empty and nobody imports.
LEMMA InitiallyEmpty == Init => ImportInv /\ ServesWhole
<1> SUFFICES ASSUME Init PROVE ImportInv /\ ServesWhole
    OBVIOUS
<1>1. Size \in Nat
    BY FileFacts DEF Init
<1>2. dict = {} /\ \A s \in Servers : spc[s] = "start" /\ batch[s] = {} /\ pos[s] = 0
    BY DEF Init
<1>3. \A s \in Servers : Inserted(s) = {}
    BY <1>1, <1>2 DEF Inserted, EntryLines
<1> QED BY <1>2, <1>3 DEF ImportInv, AtRest, ServesWhole, InOrder, TxIsInserted, OneInserts, AllOrNothing, Importing

\* A server that steps leaves the transactions of the others alone.
LEMMA OthersImport ==
    ASSUME StorageTyped, NEW s \in Servers, file' = file,
           \A t \in Servers \ {s} : spc'[t] = spc[t] /\ tx'[t] = tx[t] /\ pos'[t] = pos[t] /\ batch'[t] = batch[t]
    PROVE  \A t \in Servers \ {s} : /\ Inserted(t)' = Inserted(t)
                                  /\ Importing(t)' = Importing(t)
    BY SameFile DEF Inserted, Importing

\* A server that reads no line, inserts nothing and does not commit keeps what holds
\* of the imports: it begins with nothing or ends with nothing.
LEMMA IdleKept ==
    ASSUME StorageTyped, ImportInv, NEW s \in Servers, file' = file, dict' = dict,
           StorageTyped',
           \A t \in Servers \ {s} : spc'[t] = spc[t] /\ tx'[t] = tx[t] /\ pos'[t] = pos[t] /\ batch'[t] = batch[t],
           pos'[s] = 0 /\ batch'[s] = {},
           Importing(s)' => tx'[s] = {}
    PROVE  ImportInv'
<1>1. \A t \in Servers \ {s} : Inserted(t)' = Inserted(t) /\ Importing(t)' = Importing(t)
    BY OthersImport
<1>2. Inserted(s)' = {}
    <2>1. Size \in Nat /\ EntryLines' = EntryLines /\ EntryLines \subseteq 1 .. Size
        BY FileFacts, SameFile DEF StorageTyped
    <2> QED BY <2>1 DEF Inserted
<1>3. \A lines : Words(lines)' = Words(lines) /\ Distinct(lines)' = Distinct(lines)
    BY SameFile
<1>4. InOrder'
    BY <1>1, <1>2 DEF ImportInv, InOrder
<1>5. TxIsInserted'
    <2>1. Words({}) = {} /\ Distinct({})
        BY DEF Words, Distinct
    <2>2. Importing(s)' => tx'[s] = Words({})' /\ Distinct({})'
        BY <2>1, <1>3
    <2>3. ASSUME NEW t \in Servers \ {s}, Importing(t)'
          PROVE  tx'[t] = Words(Inserted(t))' /\ Distinct(Inserted(t))'
        <3>1. tx[t] = Words(Inserted(t)) /\ Distinct(Inserted(t))
            BY <1>1, <2>3 DEF ImportInv, TxIsInserted
        <3> QED BY <3>1, <1>1 DEF Words, Distinct
    <2>4. Importing(s)' => tx'[s] = Words(Inserted(s))' /\ Distinct(Inserted(s))'
        BY <2>2, <1>2 DEF Words, Distinct
    <2> QED BY <2>3, <2>4 DEF TxIsInserted
<1>6. OneInserts'
    BY <1>1 DEF ImportInv, OneInserts
<1>7. AllOrNothing'
    BY <1>3, SameFile DEF ImportInv, AllOrNothing
<1>8. AtRest'
    BY <1>1 DEF ImportInv, AtRest
<1> QED BY <1>4, <1>5, <1>6, <1>7, <1>8 DEF ImportInv

\* The next line is behind all that were read: it becomes part of the insert that is
\* prepared, or it is no entry.
LEMMA ReadKept ==
    ASSUME StorageTyped, ImportInv, NEW s \in Servers, ReadLine(s)
    PROVE  ImportInv'
<1>1. /\ file' = file /\ dict' = dict /\ spc' = spc /\ tx' = tx
      /\ pos[s] \in Nat /\ pos'[s] = pos[s] + 1
      /\ batch'[s] = batch[s] \union ({pos[s] + 1} \intersect EntryLines)
      /\ \A t \in Servers \ {s} : pos'[t] = pos[t] /\ batch'[t] = batch[t]
    BY FileFacts DEF StorageTyped, ReadLine, dbVars
<1>2. EntryLines' = EntryLines /\ EntryLines \subseteq Nat /\ batch[s] \subseteq EntryLines
    BY <1>1, FileFacts, SameFile DEF StorageTyped
<1>3. Inserted(s)' = Inserted(s)
    <2>1. \A j \in batch[s] : j <= pos[s]
        BY DEF ImportInv, InOrder
    <2>2. ASSUME NEW i \in EntryLines
          PROVE  i <= pos[s] + 1 /\ i \notin batch'[s] <=> i <= pos[s] /\ i \notin batch[s]
        BY <1>1, <1>2, <2>1, <2>2
    <2> QED BY <1>1, <1>2, <2>2 DEF Inserted
<1>4. \A t \in Servers : Inserted(t)' = Inserted(t) /\ Importing(t)' = Importing(t)
    BY <1>1, <1>3, OthersImport DEF Importing
<1>5. InOrder'
    <2>1. ASSUME NEW j \in batch'[s] PROVE j <= pos'[s] /\ \A i \in Inserted(s) : i < j
        <3>1. CASE j \in batch[s]
            BY <1>1, <1>2, <3>1 DEF ImportInv, InOrder
        <3>2. CASE j = pos[s] + 1
            BY <1>1, <1>2, <3>2 DEF Inserted
        <3> QED BY <1>1, <2>1, <3>1, <3>2
    <2> QED BY <1>1, <1>4, <2>1 DEF ImportInv, InOrder
<1>6. TxIsInserted'
    BY <1>1, <1>4 DEF ImportInv, TxIsInserted, Words, Distinct
<1>7. OneInserts'
    BY <1>1, <1>4 DEF ImportInv, OneInserts
<1>8. AllOrNothing'
    BY <1>1, <1>2 DEF ImportInv, AllOrNothing, Words, Distinct
<1>9. AtRest'
    <2>1. Importing(s)
        BY DEF ReadLine, Importing
    <2> QED BY <2>1, <1>1, <1>4 DEF ImportInv, AtRest
<1> QED BY <1>5, <1>6, <1>7, <1>8, <1>9 DEF ImportInv

\* Who is about to insert first has a line that any other one has inserted: both read
\* the file from its start.
LEMMA FirstLineShared ==
    ASSUME StorageTyped, ImportInv, NEW s \in Servers, NEW t \in Servers,
           batch[s] # {}, Inserted(s) = {}, Inserted(t) # {}
    PROVE  \E i \in batch[s] : i \in Inserted(t)
<1>1. EntryLines \subseteq Nat /\ batch[s] \subseteq EntryLines /\ batch[t] \subseteq EntryLines
      /\ pos[s] \in Nat /\ pos[t] \in Nat
    BY FileFacts DEF StorageTyped
<1>2. PICK b \in batch[s] : b <= pos[s]
    BY DEF ImportInv, InOrder
<1>3. PICK j \in Inserted(t) : j \in EntryLines /\ j <= pos[t]
    BY DEF Inserted
<1>4. CASE j <= pos[s]
    BY <1>3, <1>4 DEF Inserted
<1>5. CASE ~(j <= pos[s])
    <2>0. b \in EntryLines /\ b \in Nat /\ j \in Nat
        BY <1>1, <1>2, <1>3
    <2>1. b \in EntryLines /\ b < j /\ b <= pos[t]
        BY <2>0, <1>1, <1>2, <1>3, <1>5
    <2>2. b \notin batch[t]
        BY <1>1, <1>3, <2>0, <2>1 DEF ImportInv, InOrder
    <2> QED BY <2>1, <2>2 DEF Inserted
<1> QED BY <1>4, <1>5

\* An insert adds the lines that were prepared to those before them: words that are
\* nowhere in the table or the transaction, and in no other transaction.
LEMMA InsertKept ==
    ASSUME StorageTyped, ImportInv, NEW s \in Servers, Insert(s)
    PROVE  ImportInv'
<1>1. /\ file' = file /\ dict' = dict /\ spc' = spc /\ pos' = pos
      /\ tx'[s] = tx[s] \union Words(batch[s]) /\ batch'[s] = {}
      /\ \A t \in Servers \ {s} : tx'[t] = tx[t] /\ batch'[t] = batch[t]
      /\ Importing(s) /\ batch[s] # {} /\ ~Held(s) /\ ~Refused(s)
    BY DEF StorageTyped, Insert, Executes, dbVars, Importing
<1>2. EntryLines' = EntryLines /\ batch[s] \subseteq EntryLines
    BY <1>1, SameFile DEF StorageTyped
<1>3. /\ \A lines : Words(lines)' = Words(lines) /\ Distinct(lines)' = Distinct(lines)
      /\ \A t \in Servers : Importing(t)' = Importing(t)
    BY <1>1, SameFile DEF Importing
<1>4. \A t \in Servers \ {s} : Inserted(t)' = Inserted(t)
    BY <1>1, OthersImport
<1>5. Inserted(s)' = Inserted(s) \union batch[s]
    <2>1. \A j \in batch[s] : j <= pos[s] /\ j \in EntryLines
        BY <1>2 DEF ImportInv, InOrder
    <2> QED BY <1>1, <1>2, <2>1 DEF Inserted
<1>6. InOrder'
    BY <1>1, <1>4 DEF ImportInv, InOrder
<1>7. tx[s] = Words(Inserted(s)) /\ Distinct(Inserted(s))
    BY <1>1 DEF ImportInv, TxIsInserted
<1>8. TxIsInserted'
    <2>1. tx'[s] = Words(Inserted(s) \union batch[s])
        BY <1>1, <1>7 DEF Words
    <2>2. Distinct(Inserted(s) \union batch[s])
        <3>1. Distinct(batch[s]) /\ Words(batch[s]) \intersect tx[s] = {}
            BY <1>1 DEF Refused
        <3>2. \A i \in Inserted(s), j \in batch[s] : file[i] # file[j]
            BY <1>7, <3>1 DEF Words
        <3> QED BY <1>7, <3>1, <3>2 DEF Distinct
    <2>3. tx'[s] = Words(Inserted(s))' /\ Distinct(Inserted(s))'
        BY <1>1, <1>5, <2>1, <2>2 DEF Words, Distinct
    <2>4. ASSUME NEW t \in Servers \ {s}, Importing(t)'
          PROVE  tx'[t] = Words(Inserted(t))' /\ Distinct(Inserted(t))'
        <3>1. tx[t] = Words(Inserted(t)) /\ Distinct(Inserted(t))
            BY <1>3, <2>4 DEF ImportInv, TxIsInserted
        <3> QED BY <3>1, <1>1, <1>4 DEF Words, Distinct
    <2> QED BY <2>3, <2>4 DEF TxIsInserted
<1>9. dict = {}
    <2>1. PICK j : j \in batch[s]
        BY <1>1
    <2>2. file[j] \in Words(batch[s]) /\ file[j] \in Words(EntryLines)
        BY <1>2, <2>1 DEF Words
    <2>3. file[j] \notin dict
        BY <1>1, <2>2 DEF Refused
    <2> QED BY <2>2, <2>3 DEF ImportInv, AllOrNothing
<1>10. ASSUME NEW t \in Servers \ {s}, Importing(t), tx[t] # {} PROVE FALSE
    <2>1. tx[s] # {}
        <3>1. SUFFICES ASSUME tx[s] = {} PROVE FALSE
            OBVIOUS
        <3>2. Inserted(s) = {}
            BY <1>7, <3>1 DEF Words
        <3>3. tx[t] = Words(Inserted(t))
            BY <1>10 DEF ImportInv, TxIsInserted
        <3>4. Inserted(t) # {}
            BY <1>10, <3>3 DEF Words
        <3>5. PICK i \in batch[s] : i \in Inserted(t)
            BY <1>1, <3>2, <3>4, FirstLineShared
        <3>6. file[i] \in Words(batch[s]) /\ file[i] \in tx[t]
            BY <3>3, <3>5 DEF Words
        <3> QED BY <1>1, <3>6 DEF Held
    <2> QED BY <1>1, <1>10, <2>1 DEF ImportInv, OneInserts
<1>11. OneInserts'
    BY <1>1, <1>3, <1>9, <1>10 DEF OneInserts
<1>12. AllOrNothing'
    BY <1>1, <1>9 DEF AllOrNothing
<1>13. AtRest'
    BY <1>1, <1>3 DEF ImportInv, AtRest
<1> QED BY <1>6, <1>8, <1>11, <1>12, <1>13 DEF ImportInv

\* Where the file ends, the transaction that is committed holds all of it: the table
\* does then, or is what it was if there is no entry in the file.
LEMMA CommitFills ==
    ASSUME StorageTyped, ImportInv, NEW s \in Servers, Commit(s)
    PROVE  dict' = Words(EntryLines) /\ Distinct(EntryLines)
<1>1. /\ Importing(s) /\ pos[s] = Size /\ batch[s] = {} /\ dict' = dict \union tx[s]
      /\ dict \subseteq Words(EntryLines)
    BY DEF Commit, Moves, Importing, StorageTyped
<1>2. Inserted(s) = EntryLines
    BY <1>1, FileFacts DEF Inserted, StorageTyped
<1>3. tx[s] = Words(EntryLines) /\ Distinct(EntryLines)
    BY <1>1, <1>2 DEF ImportInv, TxIsInserted
<1> QED BY <1>1, <1>3

\* A commit fills the table while the others have inserted nothing.
LEMMA CommitKept ==
    ASSUME StorageTyped, ImportInv, NEW s \in Servers, Commit(s)
    PROVE  ImportInv'
<1>1. /\ file' = file
      /\ Importing(s) /\ dict' = dict \union tx[s]
      /\ spc'[s] = "serve" /\ pos'[s] = 0 /\ batch'[s] = {}
      /\ \A t \in Servers \ {s} : spc'[t] = spc[t] /\ tx'[t] = tx[t] /\ pos'[t] = pos[t] /\ batch'[t] = batch[t]
    BY DEF StorageTyped, Commit, Forget, Moves, Importing
<1>2. Size \in Nat /\ EntryLines' = EntryLines /\ EntryLines \subseteq 1 .. Size
    BY <1>1, FileFacts, SameFile DEF StorageTyped
<1>3. \A t \in Servers \ {s} : Inserted(t)' = Inserted(t) /\ Importing(t)' = Importing(t)
    BY <1>1, OthersImport
<1>4. Inserted(s)' = {} /\ ~Importing(s)'
    BY <1>1, <1>2 DEF Inserted, Importing
<1>5. InOrder'
    BY <1>1, <1>3, <1>4 DEF ImportInv, InOrder
<1>6. TxIsInserted'
    <2>1. ASSUME NEW t \in Servers \ {s}, Importing(t)'
          PROVE  tx'[t] = Words(Inserted(t))' /\ Distinct(Inserted(t))'
        <3>1. tx[t] = Words(Inserted(t)) /\ Distinct(Inserted(t))
            BY <1>3, <2>1 DEF ImportInv, TxIsInserted
        <3> QED BY <3>1, <1>1, <1>3 DEF Words, Distinct
    <2> QED BY <1>4, <2>1 DEF TxIsInserted
<1>7. OneInserts'
    <2>1. ASSUME NEW t \in Servers \ {s}, Importing(t), dict' # {} PROVE tx[t] = {}
        <3>1. CASE tx[s] = {}
            BY <1>1, <2>1, <3>1 DEF ImportInv, OneInserts
        <3>2. CASE tx[s] # {}
            BY <1>1, <2>1, <3>2 DEF ImportInv, OneInserts
        <3> QED BY <3>1, <3>2
    <2> QED BY <1>1, <1>3, <1>4, <2>1 DEF ImportInv, OneInserts
<1>8. AllOrNothing'
    BY <1>1, <1>2, CommitFills DEF AllOrNothing, Words, Distinct
<1>9. AtRest'
    BY <1>1, <1>3 DEF ImportInv, AtRest
<1> QED BY <1>5, <1>6, <1>7, <1>8, <1>9 DEF ImportInv

\* Whatever a server does, what holds of the imports goes on to hold.
LEMMA ServerKept ==
    ASSUME StorageTyped, ImportInv, NEW s \in Servers, ServerStep(s) \/ Crash(s)
    PROVE  ImportInv'
<1>1. StorageTyped' /\ file' = file
    BY ServerTyped DEF ServerStep
<1>2. ~Importing(s) => pos[s] = 0 /\ batch[s] = {}
    BY DEF ImportInv, AtRest
<1>3. ASSUME CreateDatabases(s) \/ InitalizeUsrDB(s) \/ InitalizeDictDB(s) PROVE ImportInv'
    <2>1. /\ dict' = dict /\ tx' = tx /\ pos' = pos /\ batch' = batch /\ spc[s] # "insert" /\ spc'[s] # "insert"
          /\ \A t \in Servers \ {s} : spc'[t] = spc[t]
        BY <1>3 DEF CreateDatabases, InitalizeUsrDB, InitalizeDictDB, Moves, dbVars, StorageTyped
    <2>2. ~Importing(s)' /\ ~Importing(s)
        BY <2>1 DEF Importing
    <2> QED BY <1>1, <1>2, <2>1, <2>2, IdleKept
<1>4. ASSUME OpenFile(s) PROVE ImportInv'
    <2>1. /\ dict' = dict /\ pos' = pos /\ batch' = batch /\ spc[s] = "open"
          /\ spc'[s] = IF file = Missing THEN "serve" ELSE "insert"
          /\ tx'[s] = IF file = Missing THEN NoTx ELSE {}
          /\ \A t \in Servers \ {s} : spc'[t] = spc[t] /\ tx'[t] = tx[t]
        BY <1>4 DEF OpenFile, Moves, dbVars, StorageTyped
    <2>2. ~Importing(s) /\ (Importing(s)' => tx'[s] = {})
        BY <2>1 DEF Importing
    <2> QED BY <1>1, <1>2, <2>1, <2>2, IdleKept
<1>5. ASSUME RollsBack(s) \/ Crash(s) PROVE ImportInv'
    <2>1. /\ dict' = dict /\ pos'[s] = 0 /\ batch'[s] = {} /\ spc'[s] # "insert"
          /\ \A t \in Servers \ {s} : spc'[t] = spc[t] /\ tx'[t] = tx[t] /\ pos'[t] = pos[t] /\ batch'[t] = batch[t]
        BY <1>5 DEF RollsBack, Crash, Forget, Moves, dbVars, StorageTyped
    <2>2. ~Importing(s)'
        BY <2>1 DEF Importing
    <2> QED BY <1>1, <2>1, <2>2, IdleKept
<1> QED BY <1>3, <1>4, <1>5, ReadKept, InsertKept, CommitKept
        DEF ServerStep, Start, Import, Fail, Refuse

\* What was prepared comes after what was inserted, and one process at most has inserted.
THEOREM ImportInvariant == Spec => [](StorageTyped /\ ImportInv)
<1>1. Init => StorageTyped /\ ImportInv
    BY InitiallyTyped, InitiallyEmpty DEF Typed
<1>2. StorageTyped /\ ImportInv /\ [Next]_vars => StorageTyped' /\ ImportInv'
    <2> SUFFICES ASSUME StorageTyped, ImportInv, [Next]_vars PROVE StorageTyped' /\ ImportInv'
        OBVIOUS
    <2>1. ASSUME NEW s \in Servers, ServerStep(s) \/ Crash(s) PROVE StorageTyped' /\ ImportInv'
        BY <2>1, ServerTyped, ServerKept DEF ServerStep
    <2>2. ASSUME UNCHANGED <<dbVars, srvVars>> PROVE StorageTyped' /\ ImportInv'
        BY <2>2, StorageSame
    <2> QED BY <2>1, <2>2, NextCases DEF vars
<1> QED BY <1>1, <1>2, PTL DEF Spec

\* With any number of servers that start at any time, fail and crash, the table holds
\* the whole file or nothing, and a file with a word in it twice is not taken in.
THEOREM AllOrNothingInvariant == Spec => []AllOrNothing
<1>1. ImportInv => AllOrNothing
    BY DEF ImportInv
<1> QED BY <1>1, ImportInvariant, PTL

\* A server that serves has reported trouble or has seen the table full; and a table that
\* is full stays so.
LEMMA ServesKept ==
    ASSUME StorageTyped, ImportInv, ServesWhole, NEW s \in Servers, ServerStep(s) \/ Crash(s)
    PROVE  ServesWhole'
<1>1. file' = file /\ Words(EntryLines)' = Words(EntryLines)
    BY ServerTyped, SameFile DEF ServerStep
<1> DEFINE Others == \A t \in Servers \ {s} : spc'[t] = spc[t] /\ (t \in trouble' <=> t \in trouble)
<1>2. ASSUME dict' = dict, Others, spc'[s] = "serve" => dict = Words(EntryLines) \/ s \in trouble'
      PROVE  ServesWhole'
    BY <1>1, <1>2 DEF ServesWhole
<1>3. ASSUME CreateDatabases(s) \/ InitalizeUsrDB(s) PROVE ServesWhole'
    <2>1. dict' = dict /\ Others /\ spc'[s] # "serve"
        BY <1>3 DEF CreateDatabases, InitalizeUsrDB, Moves, dbVars, StorageTyped
    <2> QED BY <1>2, <2>1
<1>4. ASSUME InitalizeDictDB(s) PROVE ServesWhole'
    <2>1. dict' = dict /\ Others /\ spc'[s] = IF dict = {} THEN "open" ELSE "serve"
        BY <1>4 DEF InitalizeDictDB, Moves, dbVars, StorageTyped
    <2>2. dict # {} => dict = Words(EntryLines)
        BY DEF ImportInv, AllOrNothing
    <2> QED BY <1>2, <2>1, <2>2
<1>5. ASSUME OpenFile(s) PROVE ServesWhole'
    <2>1. dict' = dict /\ Others /\ (spc'[s] = "serve" => s \in trouble')
        BY <1>5 DEF OpenFile, Moves, dbVars, StorageTyped
    <2> QED BY <1>2, <2>1
<1>6. ASSUME ReadLine(s) \/ Insert(s) PROVE ServesWhole'
    <2>1. dict' = dict /\ Others /\ spc'[s] = "insert"
        BY <1>6 DEF ReadLine, Insert, Executes, dbVars, StorageTyped
    <2> QED BY <1>2, <2>1
<1>7. ASSUME RollsBack(s) PROVE ServesWhole'
    <2>1. dict' = dict /\ Others /\ s \in trouble'
        BY <1>7 DEF RollsBack, Moves, dbVars, StorageTyped
    <2> QED BY <1>2, <2>1
<1>8. ASSUME Commit(s) PROVE ServesWhole'
    <2>1. dict' = Words(EntryLines)
        BY <1>8, CommitFills
    <2> QED BY <1>1, <2>1 DEF ServesWhole
<1>9. ASSUME Crash(s) PROVE ServesWhole'
    <2>1. dict' = dict /\ Others /\ spc'[s] = "start"
        BY <1>9 DEF Crash, dbVars, StorageTyped
    <2> QED BY <1>2, <2>1
<1> QED BY <1>3, <1>4, <1>5, <1>6, <1>7, <1>8, <1>9 DEF ServerStep, Start, Import, Fail, Refuse

\* A server that did not report a failed import serves the whole dictionary, even if
\* another one was importing when it looked at the table.
THEOREM ServesWholeInvariant == Spec => []ServesWhole
<1>1. Init => ServesWhole
    BY InitiallyEmpty
<1>2. StorageTyped /\ ImportInv /\ ServesWhole /\ [Next]_vars => ServesWhole'
    <2> SUFFICES ASSUME StorageTyped, ImportInv, ServesWhole, [Next]_vars PROVE ServesWhole'
        OBVIOUS
    <2>1. ASSUME NEW s \in Servers, ServerStep(s) \/ Crash(s) PROVE ServesWhole'
        BY <2>1, ServesKept
    <2>2. ASSUME UNCHANGED <<dbVars, srvVars>> PROVE ServesWhole'
        BY <2>2, StorageSame
    <2> QED BY <2>1, <2>2, NextCases DEF vars
<1> QED BY <1>1, <1>2, ImportInvariant, PTL DEF Spec

-----------------------------------------------------------------------------
(* Clients and servers in step *)

\* At the start nothing is on its way.
LEMMA InitiallyInStep == Init => ClientInv
<1> SUFFICES ASSUME Init, NEW c \in Clients PROVE KeepsStep(c)
    BY DEF ClientInv
<1>1. cpc[c] = "off" /\ link[c] = "bad" /\ req[c] = <<>> /\ ans[c] = <<>> /\ crossed = {}
    BY DEF Init
<1> QED BY <1>1 DEF KeepsStep, RequestsInStep, AnswersInStep, SessionKept, InDashboard

\* Nobody else's step is felt.
LEMMA NotFelt ==
    ASSUME NEW c, KeepsStep(c),
           cpc'[c] = cpc[c] /\ want'[c] = want[c] /\ link'[c] = link[c] /\ req'[c] = req[c],
           ans'[c] = ans[c] /\ session'[c] = session[c] /\ (c \in crossed' => c \in crossed)
    PROVE  KeepsStep(c)'
    BY DEF KeepsStep, RequestsInStep, AnswersInStep, SessionKept, InDashboard

\* A connection that is new has carried nothing.
LEMMA ConnectInStep ==
    ASSUME ClientTyped, NEW c \in Clients, KeepsStep(c), Connect(c)
    PROVE  KeepsStep(c)'
<1>1. /\ cpc[c] = "off" /\ cpc'[c] = "menu" /\ want'[c] = want[c] /\ req'[c] = req[c] /\ ans'[c] = ans[c]
      /\ session'[c] = session[c] /\ crossed' = crossed
      /\ link'[c] = "up" \/ link'[c] = link[c]
    BY DEF ClientTyped, Connect
<1> QED BY <1>1 DEF KeepsStep, RequestsInStep, AnswersInStep, SessionKept, InDashboard

\* What is sent stands behind what is on its way, if the connection is up.
LEMMA SentBehind ==
    ASSUME ClientTyped, NEW c \in Clients, NEW qs \in Seq(Requests), NEW next \in {"menu", "wait", "dash", "gone"},
           Send(c, qs, next), link[c] # "up" => req[c] = <<>>
    PROVE  /\ req'[c] = IF link[c] = "up" THEN req[c] \o qs ELSE <<>>
           /\ cpc'[c] = IF link[c] = "reset" THEN "gone" ELSE next
           /\ link'[c] = IF link[c] = "closed" THEN "reset" ELSE link[c]
    BY DEF ClientTyped, Send

\* One behind the other is one, then the other.
LEMMA BehindIsLater ==
    ASSUME NEW S, NEW r \in Seq(S), NEW q \in S
    PROVE  /\ r \o <<q>> \in Seq(S) /\ Len(r \o <<q>>) = Len(r) + 1
           /\ \A i \in 1 .. Len(r) : (r \o <<q>>)[i] = r[i]
           /\ (r \o <<q>>)[Len(r) + 1] = q
           /\ \A i \in 1 .. Len(r) + 1 : i \in 1 .. Len(r) \/ i = Len(r) + 1
<1>1. <<q>> \in Seq(S) /\ Len(<<q>>) = 1 /\ <<q>>[1] = q
    OBVIOUS
<1> QED BY <1>1

\* A request is asked for when there is no answer and no other request on its way, and
\* in the dashboard no QUIT either.
LEMMA AskInStep ==
    ASSUME ClientTyped, NEW c \in Clients, KeepsStep(c), Ask(c)
    PROVE  KeepsStep(c)'
<1>1. PICK type \in Offered(c) : LET q == [type |-> type, no |-> asked[c] + 1]
                                IN  Send(c, <<q>>, "wait") /\ want' = [want EXCEPT ![c] = q]
    BY DEF Ask
<1>2. PICK q : q = [type |-> type, no |-> asked[c] + 1]
    OBVIOUS
<1>3. /\ type \in {"REGISTER", "LOGIN", "QUERY", "HISTORY"} /\ cpc[c] \in {"menu", "dash"}
      /\ cpc[c] = "dash" <=> BackTo(type) = "dash"
    BY DEF Offered, BackTo
<1>4. q \in Requests /\ <<q>> \in Seq(Requests) /\ q.type = type
    BY <1>2, <1>3, RequestTyped DEF ClientTyped
<1>5. Send(c, <<q>>, "wait") /\ want'[c] = q
    BY <1>1, <1>2 DEF ClientTyped
<1>6. ans' = ans /\ session' = session /\ crossed' = crossed
    BY DEF Ask
<1>7. PICK r, p \in Seq(Requests) :
         /\ r = req[c] /\ p = req'[c]
         /\ IF link[c] = "up" THEN p = r \o <<q>> ELSE p = <<>>
         /\ cpc'[c] \in {"wait", "gone"} /\ (link[c] = "up" => cpc'[c] = "wait")
         /\ link'[c] = "up" => link[c] = "up"
    <2>1. link[c] # "up" => req[c] = <<>>
        BY DEF KeepsStep, RequestsInStep
    <2>2. /\ req'[c] = IF link[c] = "up" THEN req[c] \o <<q>> ELSE <<>>
          /\ cpc'[c] = IF link[c] = "reset" THEN "gone" ELSE "wait"
          /\ link'[c] = IF link[c] = "closed" THEN "reset" ELSE link[c]
        BY <1>4, <1>5, <2>1, SentBehind
    <2>3. req[c] \in Seq(Requests) /\ req'[c] \in Seq(Requests)
        BY <1>4, <1>5, SendTyped DEF ClientTyped
    <2> QED BY <2>2, <2>3
<1>8. ans[c] = <<>> /\ \A i \in 1 .. Len(r) : r[i].type = "QUIT"
    BY <1>3, <1>7 DEF KeepsStep, RequestsInStep, AnswersInStep
<1>9. ASSUME NEW i \in 1 .. Len(p)
      PROVE  link[c] = "up" /\ ((i \in 1 .. Len(r) /\ p[i] = r[i]) \/ (i = Len(p) /\ p[i] = q))
    <2>1. link[c] = "up" /\ p = r \o <<q>>
        BY <1>7
    <2>2. /\ Len(p) = Len(r) + 1 /\ p[Len(r) + 1] = q
          /\ \A j \in 1 .. Len(r) : p[j] = r[j]
          /\ \A j \in 1 .. Len(r) + 1 : j \in 1 .. Len(r) \/ j = Len(r) + 1
        BY <1>4, <2>1, BehindIsLater
    <2> QED BY <2>1, <2>2
<1>10. RequestsInStep(c)'
    <2>1. ASSUME NEW i \in 1 .. Len(p)
          PROVE  p[i].type = "QUIT" \/ (i = Len(p) /\ cpc'[c] = "wait" /\ p[i] = want'[c])
        BY <1>5, <1>7, <1>8, <1>9
    <2>2. link'[c] # "up" => p = <<>>
        <3>1. link'[c] # "up" => link[c] # "up"
            BY <1>4, <1>5, SentBehind DEF KeepsStep, RequestsInStep
        <3> QED BY <3>1, <1>7
    <2>3. want'[c].type # "QUIT"
        BY <1>3, <1>4, <1>5
    <2> QED BY <1>7, <2>1, <2>2, <2>3 DEF RequestsInStep
<1>11. AnswersInStep(c)'
    BY <1>6, <1>8 DEF KeepsStep, AnswersInStep
<1>12. SessionKept(c)'
    <2>1. InDashboard(c)' => cpc[c] = "dash"
        BY <1>3, <1>4, <1>5, <1>7 DEF InDashboard
    <2>2. ASSUME cpc[c] = "dash", NEW i \in 1 .. Len(p) PROVE p[i].type # "QUIT"
        <3>1. \A j \in 1 .. Len(r) : r[j].type # "QUIT"
            BY <1>7, <2>2 DEF KeepsStep, SessionKept, InDashboard
        <3> QED BY <1>3, <1>4, <1>9, <3>1
    <2>3. cpc[c] = "dash" /\ link[c] = "up" => session[c]
        BY DEF KeepsStep, SessionKept, InDashboard
    <2> QED BY <1>6, <1>7, <1>8, <2>1, <2>2, <2>3 DEF SessionKept
<1> QED BY <1>6, <1>10, <1>11, <1>12 DEF KeepsStep

\* The answer that is received is the one that was waited for, and was the only one.
LEMMA ReceiveInStep ==
    ASSUME ClientTyped, NEW c \in Clients, KeepsStep(c), Receive(c)
    PROVE  KeepsStep(c)'
<1>1. PICK n \in 1 .. Len(ans[c]), ok \in BOOLEAN :
         LET first == Head(ans[c])
             complete == n = 1 /\ first.part = "whole"
         IN  /\ complete => ok = first.ok
             /\ ans' = [ans EXCEPT ![c] = SubSeq(@, n + 1, Len(@))]
             /\ crossed' = IF complete /\ first.of = want[c] THEN crossed ELSE crossed \union {c}
             /\ cpc' = [cpc EXCEPT ![c] = IF want[c].type = "LOGIN" /\ ok
                                          THEN "dash" ELSE BackTo(want[c].type)]
    BY DEF Receive
<1>2. PICK a \in Seq(Answers) : a = ans[c]
    BY DEF ClientTyped
<1>3. Len(a) = 1 /\ n = 1 /\ a # <<>>
    <2>1. PICK l \in Nat : l = Len(a) /\ l <= 1 /\ n \in 1 .. l
        BY <1>2 DEF KeepsStep, AnswersInStep
    <2>2. l = 1 /\ n = 1
        BY <2>1
    <2>3. Len(<<>>) # 1
        OBVIOUS
    <2>4. Len(a) = 1 /\ n = 1
        BY <2>1, <2>2
    <2>5. a # <<>>
        BY <2>3, <2>4, Zenon
    <2> QED BY <2>4, <2>5, Zenon
<1>4. Head(a) = a[1] /\ SubSeq(a, n + 1, Len(a)) = <<>>
    BY <1>3
<1>5. /\ a[1].of = want[c] /\ a[1].part = "whole" /\ req[c] = <<>> /\ cpc[c] = "wait"
    BY <1>2, <1>3 DEF KeepsStep, AnswersInStep
<1>6. ok = a[1].ok /\ crossed' = crossed /\ ans'[c] = <<>>
    BY <1>1, <1>2, <1>3, <1>4, <1>5 DEF ClientTyped
<1>7. cpc'[c] = IF want[c].type = "LOGIN" /\ ok THEN "dash" ELSE BackTo(want[c].type)
    BY <1>1 DEF ClientTyped
<1>8. want' = want /\ link' = link /\ req' = req /\ session' = session
    BY DEF Receive
<1>9. cpc'[c] # "wait"
    BY <1>7 DEF BackTo
<1>10. RequestsInStep(c)'
    BY <1>5, <1>8, <1>9 DEF KeepsStep, RequestsInStep
<1>11. AnswersInStep(c)'
    BY <1>6 DEF AnswersInStep
<1>12. SessionKept(c)'
    <2>1. ASSUME InDashboard(c)', link[c] = "up" PROVE session[c]
        <3>1. cpc'[c] = "dash"
            BY <1>9, <2>1 DEF InDashboard
        <3>2. CASE want[c].type = "LOGIN" /\ ok
            BY <1>2, <1>3, <1>6, <2>1, <3>2 DEF KeepsStep, SessionKept
        <3>3. CASE ~(want[c].type = "LOGIN" /\ ok)
            <4>1. InDashboard(c)
                BY <1>5, <1>7, <3>1, <3>3 DEF InDashboard
            <4> QED BY <2>1, <4>1 DEF KeepsStep, SessionKept
        <3> QED BY <3>2, <3>3
    <2> QED BY <1>5, <1>6, <1>8, <2>1 DEF SessionKept
<1> QED BY <1>6, <1>10, <1>11, <1>12 DEF KeepsStep

\* A client that finds its server gone goes back to its menu.
LEMMA RecvErrorInStep ==
    ASSUME ClientTyped, NEW c \in Clients, KeepsStep(c), RecvError(c)
    PROVE  KeepsStep(c)'
<1>1. /\ ans[c] = <<>> /\ link[c] # "up" /\ cpc'[c] # "wait"
      /\ want' = want /\ link' = link /\ req' = req /\ session' = session /\ ans' = ans /\ crossed' = crossed
    BY DEF ClientTyped, RecvError, BackTo, netVars
<1>2. req[c] = <<>>
    BY <1>1 DEF KeepsStep, RequestsInStep
<1> QED BY <1>1, <1>2 DEF KeepsStep, RequestsInStep, AnswersInStep, SessionKept, InDashboard

\* A QUIT is sent when no answer is waited for, and the dashboard is closed then.
LEMMA QuitInStep ==
    ASSUME ClientTyped, NEW c \in Clients, KeepsStep(c), Logout(c) \/ Exit(c)
    PROVE  KeepsStep(c)'
<1>1. PICK qs \in {<<Quit>>, <<Quit, Quit>>}, next \in {"menu", "gone"} : Send(c, qs, next)
    BY DEF Logout, Exit
<1>2. qs \in Seq(Requests) /\ \A i \in 1 .. Len(qs) : qs[i].type = "QUIT"
    <2>1. Quit.type = "QUIT"
        BY DEF Quit
    <2>2. \A i \in 1 .. Len(qs) : qs[i] = Quit
        OBVIOUS
    <2> QED BY <2>1, <2>2, RequestTyped
<1>3. /\ cpc[c] \in {"dash", "menu"} /\ want' = want /\ session' = session /\ ans' = ans /\ crossed' = crossed
    BY DEF Logout, Exit
<1>4. ans[c] = <<>> /\ (link[c] # "up" => req[c] = <<>>)
    BY <1>3 DEF KeepsStep, AnswersInStep, RequestsInStep
<1>5. /\ req'[c] = IF link[c] = "up" THEN req[c] \o qs ELSE <<>>
      /\ cpc'[c] \in {"menu", "gone"}
      /\ link'[c] = "up" <=> link[c] = "up"
    BY <1>1, <1>2, <1>4, SentBehind
<1>6. PICK r \in Seq(Requests) : r = req[c] /\ \A i \in 1 .. Len(r) : r[i].type = "QUIT"
    BY <1>3 DEF ClientTyped, KeepsStep, RequestsInStep
<1>7. \A i \in 1 .. Len(r \o qs) : (r \o qs)[i].type = "QUIT"
    BY <1>2, <1>6
<1>8. \A i \in 1 .. Len(req'[c]) : req'[c][i].type = "QUIT"
    <2>1. CASE link[c] = "up"
        BY <1>5, <1>6, <1>7, <2>1
    <2>2. CASE link[c] # "up"
        BY <1>5, <2>2
    <2> QED BY <2>1, <2>2
<1>9. RequestsInStep(c)'
    BY <1>5, <1>8 DEF RequestsInStep
<1>10. AnswersInStep(c)' /\ SessionKept(c)'
    BY <1>3, <1>4, <1>5 DEF AnswersInStep, SessionKept, InDashboard
<1> QED BY <1>3, <1>9, <1>10 DEF KeepsStep

\* What is left of a queue when its first element is taken.
LEMMA FrontTaken ==
    ASSUME NEW S, NEW s \in Seq(S), s # <<>>
    PROVE  /\ Head(s) \in S /\ Head(s) = s[1]
           /\ Tail(s) \in Seq(S) /\ Len(Tail(s)) = Len(s) - 1
           /\ \A i \in 1 .. Len(Tail(s)) : Tail(s)[i] = s[i + 1] /\ i + 1 \in 1 .. Len(s)
<1>1. Len(s) \in Nat /\ Len(s) # 0
    OBVIOUS
<1>2. Tail(s) \in Seq(S) /\ Len(Tail(s)) = Len(s) - 1
    OBVIOUS
<1>3. Head(s) \in S /\ Head(s) = s[1]
    OBVIOUS
<1>4. ASSUME NEW i \in 1 .. Len(s) - 1 PROVE Tail(s)[i] = s[i + 1] /\ i + 1 \in 1 .. Len(s)
    BY <1>1
<1> QED
    BY <1>2, <1>3, <1>4

\* The server reads a QUIT and closes the session, or the one request that is waited
\* for, and its answer is the only one on its way.
LEMMA ServeInStep ==
    ASSUME ClientTyped, NEW c \in Clients, KeepsStep(c), Serve(c), Short(c)'
    PROVE  KeepsStep(c)'
<1>1. PICK r \in Seq(Requests) : r = req[c] /\ r # <<>> /\ link[c] = "up"
    BY DEF ClientTyped, Serve
<1>2. PICK q \in Requests : q = Head(r) /\ q = r[1]
    BY <1>1, FrontTaken
<1>3. PICK p \in Seq(Requests) :
         p = Tail(r) /\ Len(p) = Len(r) - 1 /\ \A i \in 1 .. Len(p) : p[i] = r[i + 1] /\ i + 1 \in 1 .. Len(r)
    BY <1>1, FrontTaken
<1>4. /\ req'[c] = p /\ want' = want /\ cpc' = cpc /\ link' = link /\ crossed' = crossed
    BY <1>1, <1>3 DEF ClientTyped, Serve, cliVars
<1>5. ans[c] = <<>>
    BY <1>1 DEF KeepsStep, AnswersInStep
<1>6. \A i \in 1 .. Len(r) :
         r[i].type = "QUIT" \/ (i = Len(r) /\ cpc[c] = "wait" /\ r[i] = want[c])
    BY <1>1 DEF KeepsStep, RequestsInStep
<1>7. RequestsInStep(c)'
    <2>1. ASSUME NEW i \in 1 .. Len(p)
          PROVE  p[i].type = "QUIT" \/ (i = Len(p) /\ cpc[c] = "wait" /\ p[i] = want[c])
        <3>1. i + 1 \in 1 .. Len(r) /\ p[i] = r[i + 1]
            BY <1>3
        <3>2. Len(p) \in Nat /\ Len(r) \in Nat /\ Len(p) = Len(r) - 1 /\ i \in Int
            BY <1>3
        <3>3. i + 1 = Len(r) => i = Len(p)
            BY <3>2
        <3> QED BY <1>6, <3>1, <3>3
    <2> QED BY <1>1, <1>4, <2>1 DEF KeepsStep, RequestsInStep
<1>8. CASE q.type = "QUIT"
    <2>1. ans' = ans
        BY <1>1, <1>2, <1>8 DEF Serve
    <2>2. ~InDashboard(c)
        BY <1>1, <1>2, <1>8 DEF KeepsStep, SessionKept
    <2> QED BY <1>4, <1>5, <1>7, <2>1, <2>2 DEF KeepsStep, AnswersInStep, SessionKept, InDashboard
<1>9. CASE q.type # "QUIT"
    <2>1. PICK ok, two \in BOOLEAN :
             /\ ans' = [ans EXCEPT ![c] = @ \o Pieces(q, ok, two)]
             /\ long' = IF two THEN long \union {c} ELSE long
             /\ session' = [session EXCEPT ![c] = @ \/ (q.type = "LOGIN" /\ ok)]
        BY <1>1, <1>2, <1>9 DEF Serve
    <2>2. ~two
        BY <2>1 DEF Short
    <2>3. PICK x \in Answers : x = [of |-> q, part |-> "whole", ok |-> ok]
        BY DEF Answers
    <2>4. ans'[c] = <<x>>
        <3>1. Pieces(q, ok, two) = <<x>>
            BY <2>2, <2>3, PiecesTyped
        <3>2. <<>> \o <<x>> = <<x>>
            OBVIOUS
        <3> QED BY <1>5, <2>1, <3>1, <3>2 DEF ClientTyped
    <2>5. 1 = Len(r) /\ cpc[c] = "wait" /\ q = want[c] /\ p = <<>>
        <3>1. 1 \in 1 .. Len(r)
            BY <1>1
        <3>2. 1 = Len(r) /\ cpc[c] = "wait" /\ q = want[c]
            BY <1>2, <1>6, <1>9, <3>1
        <3> QED BY <1>3, <3>2
    <2>6. Len(<<x>>) = 1 /\ <<x>>[1] = x /\ x.of = q /\ x.part = "whole" /\ x.ok = ok
        BY <2>3
    <2>7. AnswersInStep(c)'
        BY <1>4, <2>4, <2>5, <2>6 DEF AnswersInStep
    <2>8. session'[c] = (session[c] \/ (q.type = "LOGIN" /\ ok))
        BY <2>1 DEF ClientTyped
    <2>9. SessionKept(c)'
        <3>1. InDashboard(c)' <=> InDashboard(c)
            BY <1>4 DEF InDashboard
        <3>2. \A i \in 1 .. Len(req'[c]) : req'[c][i].type # "QUIT"
            BY <1>4, <2>5
        <3>3. link[c] = "up" /\ InDashboard(c) => session'[c]
            BY <2>8 DEF KeepsStep, SessionKept
        <3>4. want[c].type = "LOGIN" /\ ans'[c][1].ok => session'[c]
            BY <2>4, <2>5, <2>6, <2>8
        <3> QED BY <1>4, <3>1, <3>2, <3>3, <3>4 DEF SessionKept
    <2> QED BY <1>4, <1>7, <2>7, <2>9 DEF KeepsStep
<1> QED BY <1>8, <1>9

\* A crash loses the requests and the session together.
LEMMA CrashInStep ==
    ASSUME ClientTyped, NEW c \in Clients, KeepsStep(c), NEW s \in Servers, Crash(s)
    PROVE  KeepsStep(c)'
<1>1. cpc' = cpc /\ want' = want /\ ans' = ans /\ crossed' = crossed
    BY DEF Crash, cliVars
<1>2. CASE conn[c] = s
    <2>1. req'[c] = <<>> /\ link'[c] # "up"
        BY <1>2 DEF Crash
    <2> QED BY <1>1, <2>1 DEF KeepsStep, RequestsInStep, AnswersInStep, SessionKept
<1>3. CASE conn[c] # s
    <2>1. req'[c] = req[c] /\ link'[c] = link[c] /\ session'[c] = session[c]
        BY <1>3 DEF ClientTyped, Crash
    <2> QED BY <1>1, <2>1, NotFelt
<1> QED BY <1>2, <1>3

\* Every step keeps clients and servers in step.
LEMMA InStepKept ==
    ASSUME ClientTyped, ClientInv, [Next]_vars
    PROVE  ClientInv'
<1>1. ASSUME NEW s \in Servers, Crash(s) PROVE ClientInv'
    <2>1. long' = long
        BY <1>1 DEF Crash
    <2> QED BY <1>1, <2>1, CrashInStep DEF ClientInv, Short
<1>2. ASSUME NEW c \in Clients, ClientStep(c) PROVE ClientInv'
    <2>1. long \subseteq long' /\ \A d \in Clients \ {c} : d \in long' => d \in long
        BY <1>2 DEF ClientStep, Client, Connect, Ask, Receive, RecvError, Logout, Exit, Serve, netVars
    <2>2. ASSUME NEW d \in Clients \ {c}
          PROVE  /\ cpc'[d] = cpc[d] /\ want'[d] = want[d] /\ link'[d] = link[d] /\ req'[d] = req[d]
                 /\ ans'[d] = ans[d] /\ session'[d] = session[d] /\ (d \in crossed' => d \in crossed)
        BY <1>2 DEF ClientTyped, ClientStep, Client, Connect, Ask, Receive, RecvError, Logout, Exit, Serve,
                    Send, netVars, cliVars
    <2>3. ASSUME NEW d \in Clients \ {c}, Short(d)' PROVE KeepsStep(d)'
        BY <2>1, <2>2, <2>3, NotFelt DEF ClientInv, Short
    <2>4. ASSUME Short(c)' PROVE KeepsStep(c)'
        <3>1. KeepsStep(c)
            BY <2>1, <2>4 DEF ClientInv, Short
        <3> QED BY <1>2, <2>4, <3>1, ConnectInStep, AskInStep, ReceiveInStep, RecvErrorInStep,
                   QuitInStep, ServeInStep DEF ClientStep, Client
    <2> QED BY <2>3, <2>4 DEF ClientInv
<1> QED BY <1>1, <1>2, NextCases, ClientsSame DEF vars

\* As long as every answer fits its buffer, whatever crashes and whoever asks for what:
\* a client takes nothing for an answer that is not, and while its dashboard is open the
\* server takes its user for logged in.
THEOREM InStepInvariant == Spec => []InStep
<1>1. Init => Typed /\ ClientInv
    BY InitiallyTyped, InitiallyInStep
<1>2. Typed /\ ClientInv /\ [Next]_vars => Typed' /\ ClientInv'
    BY TypedKept, InStepKept DEF Typed
<1>3. Typed /\ ClientInv => InStep
    BY DEF Typed, ClientTyped, ClientInv, KeepsStep, SessionKept, InDashboard, Short, InStep, AnswersMatch, SessionAgreed
<1> QED BY <1>1, <1>2, <1>3, PTL DEF Spec
=============================================================================

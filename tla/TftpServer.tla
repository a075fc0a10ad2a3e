----------------------------- MODULE TftpServer -----------------------------
(***************************************************************************)
(* The TFTP server of 07_projects/01_TFTP: one thread, one UDP socket, one *)
(* transfer at a time.  run() waits for a request; the handler of that     *)
(* request then reads the same socket until its transfer is over.          *)
(*                                                                         *)
(* Every recvfrom of the server overwrites "cli", the address the next     *)
(* packet is sent to, with the sender of whatever has arrived.             *)
(*                                                                         *)
(* The repository declares a TFTP client and does not implement it; the    *)
(* clients here are those of RFC 1350, as the server's replies presume.    *)
(* UDP may lose, duplicate and reorder packets.  "net" is the set of those *)
(* in flight: an equal packet sent twice at a time counts once, as if the  *)
(* other had been lost.                                                    *)
(*                                                                         *)
(* Each client reads or writes a file of its own, of NB blocks; only the   *)
(* last is shorter than 512 bytes.  A block is [file, i], the i-th of a    *)
(* file.  Who comes, over which network and with how many blocks is chosen *)
(* in Init.                                                                *)
(***************************************************************************)
EXTENDS Naturals, Sequences, FiniteSets

CONSTANTS
    Getters,        \* clients that may download
    Putters,        \* clients that may upload
    Refused,        \* clients that ask for a file that is not there
    Ascii,          \* clients that ask for another mode than octet
    BlockMod,       \* block numbers are taken modulo this (65536 in the code)
    Settings        \* [who comes, blocks in a file, retransmissions by one client
                    \* (a bound), whether the network loses and duplicates packets]

Clients == Getters \union Putters \union Refused \union Ascii

ASSUME TftpAssumption ==
    /\ BlockMod \in Nat \ {0, 1}
    /\ Settings \subseteq [who : SUBSET Clients, blocks : Nat \ {0}, tries : Nat,
                           loses : BOOLEAN, repeats : BOOLEAN]

VARIABLES
    setting,    \* which setting this is; it never changes
    net,        \* packets in flight
    spc,        \* the server: "request" (run), "rrq" or "wrq" (the handlers)
    cli,        \* the address recvfrom has stored last
    target,     \* the file the handler has opened: its owner
    num,        \* the block number, an unsigned short
    pos,        \* blocks read from or written to the opened file
    disk,       \* what the uploaded files hold
    job,        \* what each client is about
    cst,        \* "idle", "busy", "done" or "failed"
    got,        \* blocks a downloading client has stored
    sent,       \* blocks an uploading client has sent
    timeouts    \* its retransmissions

serverVars == <<spc, cli, target, num, pos, disk>>
clientVars == <<setting, job, cst, got, sent, timeouts>>
vars == <<net, serverVars, clientVars>>

NB == setting.blocks

Block(c, i) == [file |-> c, i |-> i]
NoBlock == [file |-> "none", i |-> 0]
Short(b) == b.i = NB

\* A packet is to the server (toServer) or to the client it names as peer.
Packet(toServer, c, op, blk, data) ==
    [toServer |-> toServer, peer |-> c, op |-> op, blk |-> blk, data |-> data]
Request(c, op) == Packet(TRUE, c, op, 0, NoBlock)
Ack(toServer, c, n) == Packet(toServer, c, "ACK", n, NoBlock)
Data(toServer, c, n, b) == Packet(toServer, c, "DATA", n, b)

Init ==
    /\ setting \in Settings
    /\ net = {}
    /\ spc = "request"
    /\ cli = "none"
    /\ target = "none"
    /\ num = 0
    /\ pos = 0
    /\ disk = [c \in Putters |-> <<>>]
    /\ job = [c \in Clients |-> "none"]
    /\ cst = [c \in Clients |-> "idle"]
    /\ got = [c \in Clients |-> <<>>]
    /\ sent = [c \in Clients |-> 0]
    /\ timeouts = [c \in Clients |-> 0]

\* Receiving p takes it from the network, or a copy of it when it is duplicated.
Remaining(p) == {net \ {p}} \union (IF setting.repeats THEN {net} ELSE {})

-----------------------------------------------------------------------------
(* The server *)

\* run: a read request for a file that can be opened starts a download.
ReadRequest(p) ==
    /\ spc = "request"
    /\ p.op = "RRQ"
    /\ p.peer \in Getters
    /\ cli' = p.peer
    /\ spc' = "rrq"
    /\ target' = p.peer
    /\ num' = 1
    /\ pos' = 1
    /\ \E rest \in Remaining(p) : net' = rest \union {Data(FALSE, p.peer, 1, Block(p.peer, 1))}
    /\ UNCHANGED <<disk, clientVars>>

\* run: a write request creates or truncates the file and is answered ACK(0).
WriteRequest(p) ==
    /\ spc = "request"
    /\ p.op = "WRQ"
    /\ p.peer \in Putters
    /\ cli' = p.peer
    /\ spc' = "wrq"
    /\ target' = p.peer
    /\ num' = 0
    /\ pos' = 0
    /\ disk' = [disk EXCEPT ![p.peer] = <<>>]
    /\ \E rest \in Remaining(p) : net' = rest \union {Ack(FALSE, p.peer, 0)}
    /\ UNCHANGED clientVars

\* run: a file that cannot be opened, another mode, and every packet that is not a
\* request (no mode can be parsed from it) are answered with an ERROR.
Reject(p) ==
    /\ spc = "request"
    /\ ~(p.op = "RRQ" /\ p.peer \in Getters)
    /\ ~(p.op = "WRQ" /\ p.peer \in Putters)
    /\ cli' = p.peer
    /\ \E rest \in Remaining(p) : net' = rest \union {Packet(FALSE, p.peer, "ERROR", 1, NoBlock)}
    /\ UNCHANGED <<spc, target, num, pos, disk, clientVars>>

\* ++num, and the comparison with the 16 bits of a packet.
Succ(n) == (n + 1) % BlockMod

\* Slip: the buffer is sent again under the next number.
StaleBlock == Block(target, pos)

\* What the next read of the file returns.
NextBlock == Block(target, pos + 1)

\* handleReadRequest: only the ACK of the block just sent ends the inner loop; the
\* transfer is over after a short block, else the next one goes to cli.
Download(p) ==
    /\ spc = "rrq"
    /\ cli' = p.peer
    /\ \E rest \in Remaining(p) :
         IF ~(p.op = "ACK" /\ p.blk = num) THEN net' = rest /\ UNCHANGED <<spc, num, pos>>
         ELSE IF pos = NB THEN net' = rest /\ spc' = "request" /\ UNCHANGED <<num, pos>>
         ELSE /\ num' = Succ(num)
              /\ pos' = pos + 1
              /\ net' = rest \union {Data(FALSE, p.peer, Succ(num), NextBlock)}
              /\ UNCHANGED spc
    /\ UNCHANGED <<target, disk, clientVars>>

\* Slip: the number of a DATA packet is not checked.
AnyData(p) == p.op = "DATA"

Expected(p) == p.op = "DATA" /\ p.blk = Succ(num)

Written(b) == Append(disk[target], b)

\* Slip: a short block does not end the transfer.
NeverOver(b) == FALSE

Over(b) == Short(b)

\* handleWriteRequest: the expected block is appended and acknowledged, a short
\* one ends the transfer; anything else is dropped without an answer.
Upload(p) ==
    /\ spc = "wrq"
    /\ cli' = p.peer
    /\ \E rest \in Remaining(p) :
         IF ~Expected(p) THEN net' = rest /\ UNCHANGED <<spc, num, pos, disk>>
         ELSE /\ disk' = [disk EXCEPT ![target] = Written(p.data)]
              /\ num' = Succ(num)
              /\ pos' = pos + 1
              /\ net' = rest \union {Ack(FALSE, p.peer, Succ(num))}
              /\ spc' = IF Over(p.data) THEN "request" ELSE "wrq"
    /\ UNCHANGED <<target, clientVars>>

ServerStep ==
    \E p \in {q \in net : q.toServer} :
        ReadRequest(p) \/ WriteRequest(p) \/ Reject(p) \/ Download(p) \/ Upload(p)

-----------------------------------------------------------------------------
(* The clients, and the network: outside the repository *)

\* A client sends its request.
Begin(c) ==
    /\ c \in setting.who
    /\ cst[c] = "idle"
    /\ \E j \in {"get", "put"} :
         /\ j = "get" => c \in Getters \union Refused \union Ascii
         /\ j = "put" => c \in Putters
         /\ job' = [job EXCEPT ![c] = j]
         /\ net' = net \union {Request(c, IF j = "get" THEN "RRQ" ELSE "WRQ")}
    /\ cst' = [cst EXCEPT ![c] = "busy"]
    /\ UNCHANGED <<setting, serverVars, got, sent, timeouts>>

\* A downloading client stores the block it expects and acknowledges it; it
\* acknowledges once more a block it already has.
GetData(c, p) ==
    LET n == Len(got[c]) IN
    /\ job[c] = "get" /\ p.op = "DATA"
    /\ \E rest \in Remaining(p) :
         IF p.blk = (n + 1) % BlockMod
         THEN /\ got' = [got EXCEPT ![c] = Append(@, p.data)]
              /\ cst' = [cst EXCEPT ![c] = IF Short(p.data) THEN "done" ELSE "busy"]
              /\ net' = rest \union {Ack(TRUE, c, p.blk)}
         ELSE /\ net' = IF n > 0 /\ p.blk = n % BlockMod THEN rest \union {Ack(TRUE, c, p.blk)} ELSE rest
              /\ UNCHANGED <<got, cst>>
    /\ UNCHANGED <<setting, serverVars, job, sent, timeouts>>

\* An uploading client sends the next block when the last one is acknowledged.
GetAck(c, p) ==
    LET k == sent[c] IN
    /\ job[c] = "put" /\ p.op = "ACK"
    /\ \E rest \in Remaining(p) :
         IF p.blk # k % BlockMod THEN net' = rest /\ UNCHANGED <<cst, sent>>
         ELSE IF k = NB THEN net' = rest /\ cst' = [cst EXCEPT ![c] = "done"] /\ UNCHANGED sent
         ELSE /\ sent' = [sent EXCEPT ![c] = k + 1]
              /\ net' = rest \union {Data(TRUE, c, (k + 1) % BlockMod, Block(c, k + 1))}
              /\ UNCHANGED cst
    /\ UNCHANGED <<setting, serverVars, job, got, timeouts>>

\* An ERROR ends the transfer.
GetError(c, p) ==
    /\ p.op = "ERROR"
    /\ cst' = [cst EXCEPT ![c] = "failed"]
    /\ \E rest \in Remaining(p) : net' = rest
    /\ UNCHANGED <<setting, serverVars, job, got, sent, timeouts>>

ClientReceive(c) ==
    \E p \in {q \in net : ~q.toServer /\ q.peer = c} :
        /\ cst[c] = "busy"
        /\ GetData(c, p) \/ GetAck(c, p) \/ GetError(c, p)

\* A client whose answer is late sends its last packet again.
Timeout(c) ==
    /\ cst[c] = "busy"
    /\ timeouts[c] < setting.tries
    /\ timeouts' = [timeouts EXCEPT ![c] = @ + 1]
    /\ net' = net \union
         {IF job[c] = "get"
          THEN IF got[c] = <<>> THEN Request(c, "RRQ") ELSE Ack(TRUE, c, Len(got[c]) % BlockMod)
          ELSE IF sent[c] = 0 THEN Request(c, "WRQ")
               ELSE Data(TRUE, c, sent[c] % BlockMod, Block(c, sent[c]))}
    /\ UNCHANGED <<setting, serverVars, job, cst, got, sent>>

Lose ==
    /\ setting.loses
    /\ \E p \in net : net' = net \ {p}
    /\ UNCHANGED <<serverVars, clientVars>>

Next ==
    \/ ServerStep
    \/ \E c \in Clients : Begin(c) \/ ClientReceive(c) \/ Timeout(c)
    \/ Lose

Spec == Init /\ [][Next]_vars

\* The server reads its socket; a busy client reads its own; packets that are not
\* lost arrive.
FairSpec == Spec /\ WF_vars(ServerStep) /\ \A c \in Clients : WF_vars(ClientReceive(c))

-----------------------------------------------------------------------------
(* Properties *)

Blocks == {NoBlock} \union {Block(c, i) : c \in Clients, i \in 1 .. NB}

Packets == [toServer : BOOLEAN, peer : Clients, op : {"RRQ", "WRQ", "DATA", "ACK", "ERROR"},
            blk : 0 .. BlockMod - 1, data : Blocks]

\* Every variable has the values the program can give it; block numbers fit.
TypeOK ==
    /\ setting \in Settings
    /\ net \subseteq Packets
    /\ spc \in {"request", "rrq", "wrq"}
    /\ cli \in Clients \union {"none"} /\ target \in Clients \union {"none"}
    /\ num \in 0 .. BlockMod - 1
    /\ pos \in Nat
    /\ \A c \in Putters : disk[c] \in Seq(Blocks)
    /\ cst \in [Clients -> {"idle", "busy", "done", "failed"}]
    /\ \A c \in Clients : got[c] \in Seq(Blocks) /\ sent[c] \in 0 .. NB

PrefixOf(s, c) == \A i \in DOMAIN s : s[i] = Block(c, i)

\* A download delivers the blocks of the file in order, and a client that takes it
\* for complete has all of it, whatever was lost, repeated or overtaken on the way.
DownloadIsFaithful ==
    \A c \in Getters :
        /\ PrefixOf(got[c], c)
        /\ cst[c] = "done" /\ job[c] = "get" => Len(got[c]) = NB

\* The server's file is always a beginning of what its client uploads: no block is
\* skipped, repeated or misplaced; and a client that saw its upload acknowledged to
\* the end finds it complete.  (A write request that arrives once more truncates it,
\* so the latter is stated where neither the network nor the client repeats one.)
UploadIsFaithful ==
    \A c \in Putters :
        /\ PrefixOf(disk[c], c)
        /\ ~setting.repeats /\ timeouts[c] = 0 /\ cst[c] = "done" /\ job[c] = "put" => Len(disk[c]) = NB

\* On a network that loses nothing every transfer ends and the server takes the
\* next request, block numbers wrapping around included.
ServerComesBack == (spc # "request" /\ ~setting.loses) ~> spc = "request"
=============================================================================

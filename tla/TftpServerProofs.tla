--------------------------- MODULE TftpServerProofs ---------------------------
(***************************************************************************)
(* What TftpServer transfers is what was to be transferred, for any number *)
(* of clients, blocks and retransmissions and any range of block numbers,  *)
(* in two situations:                                                      *)
(*   Quiet     no packet is repeated, by the network or by a client.  Then *)
(*             each client has one packet in flight at most, and numbers   *)
(*             may wrap as often as they like;                             *)
(*   Numbered  one client only, and more numbers than blocks.  Then every  *)
(*             block has a number of its own, and packets may come twice,  *)
(*             late or not at all.                                         *)
(* Elsewhere the protocol itself takes one block for another.              *)
(***************************************************************************)
EXTENDS TftpServer, SequenceTheorems, TLAPS

Quiet == ~setting.repeats /\ \A c \in Clients : timeouts[c] = 0
Numbered == NB < BlockMod /\ \E c \in Clients : setting.who = {c}

\* The settings that are spoken of: whoever can be repeated is alone and numbered.
Separable ==
    \A s \in Settings :
        \/ ~s.repeats /\ s.tries = 0
        \/ s.blocks < BlockMod /\ \E c \in Clients : s.who = {c}

-----------------------------------------------------------------------------
(* The inductive invariant *)

Ops == {"RRQ", "WRQ", "DATA", "ACK", "ERROR"}

Typed ==
    /\ setting \in Settings
    /\ net \subseteq Packets
    /\ spc \in {"request", "rrq", "wrq"}
    /\ spc = "rrq" => target \in Getters
    /\ spc = "wrq" => target \in Putters
    /\ cli \in Clients \union {"none"} /\ target \in Clients \union {"none"}
    /\ num \in 0 .. BlockMod - 1
    /\ pos \in Nat
    /\ disk \in [Putters -> Seq(Blocks)]
    /\ job \in [Clients -> {"none", "get", "put"}]
    /\ cst \in [Clients -> {"idle", "busy", "done", "failed"}]
    /\ got \in [Clients -> Seq(Blocks)]
    /\ sent \in [Clients -> 0 .. NB]
    /\ timeouts \in [Clients -> 0 .. setting.tries]

\* A client that has not begun is unknown; all others take part.
BegunInv ==
    /\ \A c \in Clients : cst[c] = "idle" => got[c] = <<>> /\ sent[c] = 0 /\ timeouts[c] = 0
    /\ \A c \in Clients : cst[c] # "idle" => c \in setting.who
    /\ \A p \in net : cst[p.peer] # "idle"
    /\ spc # "request" => cst[target] # "idle"

\* The server's position, and its number.
ServerInv ==
    /\ spc # "request" => num = pos % BlockMod
    /\ spc = "rrq" => pos \in 1 .. NB
    /\ spc = "wrq" => pos < NB /\ Len(disk[target]) = pos

\* A packet of data holds a block of its client's file, under its number.
DataInv ==
    \A p \in net : p.op = "DATA" =>
        \E i \in 1 .. NB : p.data = Block(p.peer, i) /\ p.blk = i % BlockMod

\* What is stored is a beginning of the file, and a client that has it all is done.
StoredInv ==
    /\ \A c \in Putters : PrefixOf(disk[c], c) /\ Len(disk[c]) <= NB
    /\ \A c \in Clients :
          /\ PrefixOf(got[c], c) /\ Len(got[c]) <= NB
          /\ job[c] = "get" /\ cst[c] = "busy" => Len(got[c]) < NB
          /\ job[c] = "get" /\ cst[c] = "done" => Len(got[c]) = NB

Serves(s, c) == spc = s /\ target = c

\* Without repetitions every packet is the last word between the server and a client.
ToServer(p) ==
    LET c == p.peer IN
    CASE p.op \in {"RRQ", "WRQ"} ->
            /\ cst[c] = "busy" /\ got[c] = <<>> /\ sent[c] = 0
            /\ spc # "request" => target # c
      [] p.op = "DATA" ->
            /\ Serves("wrq", c) /\ cst[c] = "busy"
            /\ p.data = Block(c, pos + 1) /\ sent[c] = pos + 1
      [] p.op = "ACK" -> Serves("rrq", c) /\ Len(got[c]) = pos
      [] OTHER -> FALSE

ToClient(p) ==
    LET c == p.peer IN
    CASE p.op = "DATA" ->
            /\ Serves("rrq", c)
            /\ p.data = Block(c, pos) /\ p.blk = num /\ Len(got[c]) = pos - 1
      [] p.op = "ACK" ->
            /\ c \in Putters
            /\ IF Serves("wrq", c) THEN sent[c] = pos ELSE sent[c] = NB /\ Len(disk[c]) = NB
      [] OTHER -> TRUE

Says(p) == IF p.toServer THEN ToServer(p) ELSE ToClient(p)

QuietInv ==
    Quiet =>
        /\ \A p, q \in net : p.peer = q.peer => p = q
        /\ \A p \in net : Says(p)
        /\ \A c \in Putters : cst[c] = "done" /\ job[c] = "put" => Len(disk[c]) = NB

IInv == Typed /\ BegunInv /\ ServerInv /\ DataInv /\ StoredInv /\ QuietInv

-----------------------------------------------------------------------------
(* Block numbers *)

\* Numbers below the modulus are their own remainders.
LEMMA ModSmall ==
    ASSUME NEW m \in Nat, NEW i \in Nat, i < m
    PROVE  i % m = i
OBVIOUS

\* A remainder is a number of a packet.
LEMMA ModRange ==
    ASSUME NEW m \in Nat \ {0}, NEW i \in Nat
    PROVE  i % m \in 0 .. m-1
OBVIOUS

\* The quotient exists.
LEMMA DivMod ==
    ASSUME NEW m \in Nat \ {0}, NEW n \in Nat
    PROVE  \E q \in Nat : n = m * q + (n % m)
<1>1. n \div m \in Nat
  OBVIOUS
<1>2. n = m * (n \div m) + (n % m)
  OBVIOUS
<1> QED BY <1>1, <1>2

\* The remainder is unique.
LEMMA ModUnique ==
    ASSUME NEW m \in Nat \ {0}, NEW q \in Nat, NEW s \in 0 .. m-1
    PROVE  (m * q + s) % m = s
OBVIOUS

\* ++num keeps pace with the blocks, wrapping around.
LEMMA ModSucc ==
    ASSUME NEW m \in Nat \ {0}, NEW n \in Nat
    PROVE  ((n % m) + 1) % m = (n+1) % m
<1>1. PICK q \in Nat : n = m * q + (n % m)
  BY DivMod
<1>2. PICK r \in 0 .. m-1 : r = n % m
  BY ModRange
<1>3. CASE r + 1 < m
  <2>1. n + 1 = m * q + (r + 1)
    <3>1. m * q \in Nat
      OBVIOUS
    <3> QED BY <1>1, <1>2, <3>1
  <2>2. (m * q + (r + 1)) % m = r + 1
    BY <1>3, ModUnique
  <2>3. (r + 1) % m = r + 1
    BY <1>3, ModSmall
  <2> QED BY <1>2, <2>1, <2>2, <2>3
<1>4. CASE r + 1 = m
  <2>1. n + 1 = m * (q + 1) + 0
    <3>1. m * (q + 1) = m * q + m /\ m * q \in Nat
      OBVIOUS
    <3> QED BY <1>1, <1>2, <1>4, <3>1
  <2>2. (m * (q + 1) + 0) % m = 0
    BY ModUnique
  <2>3. m % m = 0
    <3>1. m = m * 1 + 0
      OBVIOUS
    <3>2. (m * 1 + 0) % m = 0
      BY ModUnique
    <3> QED BY <3>1, <3>2
  <2> QED BY <1>2, <1>4, <2>1, <2>2, <2>3
<1> QED BY <1>2, <1>3, <1>4

-----------------------------------------------------------------------------
(* Packets and types *)

\* What a setting says.
LEMMA SettingFacts ==
    ASSUME setting \in Settings
    PROVE  /\ NB \in Nat \ {0} /\ setting.who \subseteq Clients
           /\ setting.tries \in Nat /\ setting.repeats \in BOOLEAN
BY TftpAssumption DEF NB

\* A setting stays, and with it what can be sent.
LEMMA SameSetting == setting' = setting => NB' = NB /\ Blocks' = Blocks /\ Packets' = Packets
BY DEF NB, Blocks, Packets

\* Block numbers have at least two values, and so a first block has the number one.
LEMMA NumberFacts == BlockMod \in Nat \ {0} /\ 1 % BlockMod = 1 /\ 0 \in 0 .. BlockMod - 1 /\ 1 \in 0 .. BlockMod - 1
<1>1. BlockMod \in Nat /\ BlockMod > 1
    BY TftpAssumption
<1> QED
    BY <1>1, ModSmall

\* The packets of both sides are packets.
LEMMA PacketTyped ==
    ASSUME NEW b \in BOOLEAN, NEW c \in Clients, NEW n \in 0 .. BlockMod - 1
    PROVE  /\ Request(c, "RRQ") \in Packets /\ Request(c, "WRQ") \in Packets
           /\ Ack(b, c, n) \in Packets
           /\ Packet(b, c, "ERROR", n, NoBlock) \in Packets
           /\ \A d \in Blocks : Data(b, c, n, d) \in Packets
<1>1. \A op \in Ops, k \in 0 .. BlockMod - 1, d \in Blocks, t \in BOOLEAN : Packet(t, c, op, k, d) \in Packets
    BY DEF Packet, Packets, Ops
<1>2. NoBlock \in Blocks
    BY DEF Blocks
<1> QED
    BY <1>1, <1>2, NumberFacts DEF Request, Ack, Data, Ops

\* A block of a client's file.
LEMMA BlockTyped ==
    ASSUME NEW c \in Clients, NEW i \in 1 .. NB
    PROVE  Block(c, i) \in Blocks
BY DEF Blocks

\* The fields of a packet in flight.
LEMMA InFlight ==
    ASSUME Typed, NEW p \in net
    PROVE  p \in Packets /\ p.toServer \in BOOLEAN /\ p.peer \in Clients /\ p.op \in Ops
           /\ p.blk \in 0 .. BlockMod - 1 /\ p.data \in Blocks
BY DEF Typed, Packets, Ops

\* What is left of the network after a packet was received.
LEMMA Received ==
    ASSUME NEW p, NEW rest \in Remaining(p)
    PROVE  rest \subseteq net /\ (Quiet => rest = net \ {p})
BY DEF Remaining, Quiet

\* Whoever can be repeated is alone.
LEMMA QuietOrNumbered == ASSUME Separable, Typed PROVE Quiet \/ Numbered
<1>1. setting \in Settings /\ \A c \in Clients : timeouts[c] \in 0 .. setting.tries
    BY DEF Typed
<1> QED
    BY <1>1, SettingFacts DEF Separable, Quiet, Numbered, NB

\* Only the client that is served sends data or acknowledges it.
LEMMA ServedOnly ==
    ASSUME Separable, IInv, NEW p \in net, p.toServer, p.op \in {"DATA", "ACK"}, spc # "request"
    PROVE  p.peer = target
<1>1. CASE Quiet
    BY <1>1 DEF IInv, QuietInv, Says, ToServer, Serves
<1>2. CASE Numbered
    <2>1. p.peer \in Clients /\ target \in Clients
        BY InFlight DEF IInv, Typed, Clients
    <2>2. p.peer \in setting.who /\ target \in setting.who
        BY <2>1 DEF IInv, BegunInv
    <2> QED
        BY <1>2, <2>2 DEF Numbered
<1> QED
    BY <1>1, <1>2, QuietOrNumbered DEF IInv

\* The data the server expects are the next block.
LEMMA UploadExact ==
    ASSUME Separable, IInv, NEW p \in net, p.toServer, spc = "wrq", Expected(p)
    PROVE  p.data = Block(target, pos + 1) /\ pos + 1 \in 1 .. NB
<1>p. pos + 1 \in 1 .. NB
    BY SettingFacts DEF IInv, Typed, ServerInv
<1>1. CASE Quiet
    BY <1>1, <1>p DEF IInv, QuietInv, Says, ToServer, Serves, Expected
<1>2. CASE Numbered
    <2>1. p.peer = target
        BY ServedOnly DEF Expected
    <2>2. PICK i \in 1 .. NB : p.data = Block(p.peer, i) /\ p.blk = i % BlockMod
        BY DEF IInv, DataInv, Expected
    <2>3. NB \in Nat /\ NB < BlockMod /\ BlockMod \in Nat
        BY <1>2, SettingFacts, NumberFacts DEF Numbered, IInv, Typed
    <2>4. i % BlockMod = i /\ pos % BlockMod = pos /\ (pos + 1) % BlockMod = pos + 1
        <3>1. pos \in Nat /\ pos < BlockMod /\ pos + 1 \in Nat /\ pos + 1 < BlockMod
            BY <2>3, <1>p DEF IInv, Typed
        <3>2. i \in Nat /\ i < BlockMod
            BY <2>3
        <3>3. \A k \in Nat : k < BlockMod => k % BlockMod = k
            BY <2>3, ModSmall
        <3> QED
            BY <3>1, <3>2, <3>3
    <2>5. p.blk = pos + 1
        BY <2>4 DEF Expected, Succ, IInv, ServerInv
    <2> QED
        BY <1>p, <2>1, <2>2, <2>4, <2>5
<1> QED
    BY <1>1, <1>2, QuietOrNumbered DEF IInv

\* The data a client expects are the next block, and it is not beyond the last one.
LEMMA DownloadExact ==
    ASSUME Separable, IInv, NEW c \in Clients, NEW p \in net, ~p.toServer, p.peer = c, p.op = "DATA",
           job[c] = "get", cst[c] = "busy", p.blk = (Len(got[c]) + 1) % BlockMod
    PROVE  p.data = Block(c, Len(got[c]) + 1) /\ Len(got[c]) + 1 \in 1 .. NB
<1>n. Len(got[c]) \in Nat /\ Len(got[c]) + 1 \in 1 .. NB
    <2>1. got[c] \in Seq(Blocks) /\ Len(got[c]) < NB /\ NB \in Nat
        BY SettingFacts DEF IInv, Typed, StoredInv
    <2> QED
        BY <2>1
<1>1. CASE Quiet
    <2>1. p.data = Block(c, pos) /\ Len(got[c]) = pos - 1 /\ pos \in Nat
        BY <1>1 DEF IInv, QuietInv, Says, ToClient, Typed
    <2> QED
        BY <1>n, <2>1
<1>2. CASE Numbered
    <2>2. PICK i \in 1 .. NB : p.data = Block(c, i) /\ p.blk = i % BlockMod
        BY DEF IInv, DataInv
    <2>3. NB \in Nat /\ NB < BlockMod /\ BlockMod \in Nat
        BY <1>2, SettingFacts, NumberFacts DEF Numbered, IInv, Typed
    <2>4. i % BlockMod = i /\ (Len(got[c]) + 1) % BlockMod = Len(got[c]) + 1
        <3>1. Len(got[c]) + 1 \in Nat /\ Len(got[c]) + 1 < BlockMod
            BY <2>3, <1>n
        <3>2. i \in Nat /\ i < BlockMod
            BY <2>3
        <3>3. \A k \in Nat : k < BlockMod => k % BlockMod = k
            BY <2>3, ModSmall
        <3> QED
            BY <3>1, <3>2, <3>3
    <2> QED
        BY <1>n, <2>2, <2>4
<1> QED
    BY <1>1, <1>2, QuietOrNumbered DEF IInv

\* A block appended to a beginning of a file.
LEMMA OneBlockMore ==
    ASSUME NEW s \in Seq(Blocks), NEW c, PrefixOf(s, c), NEW b \in Blocks, b = Block(c, Len(s) + 1)
    PROVE  /\ Append(s, b) \in Seq(Blocks)
           /\ PrefixOf(Append(s, b), c)
           /\ Len(Append(s, b)) = Len(s) + 1
<1>1. Append(s, b) \in Seq(Blocks) /\ Len(Append(s, b)) = Len(s) + 1 /\ Len(s) \in Nat
    OBVIOUS
<1>2. DOMAIN s = 1 .. Len(s) /\ DOMAIN Append(s, b) = 1 .. Len(s) + 1
    BY <1>1
<1>3. \A i \in 1 .. Len(s) + 1 : Append(s, b)[i] = IF i <= Len(s) THEN s[i] ELSE b
    OBVIOUS
<1> QED
    BY <1>1, <1>2, <1>3 DEF PrefixOf

\* Nothing stored is a beginning of any file.
LEMMA NothingStored == \A c : PrefixOf(<<>>, c) /\ Len(<<>>) = 0 /\ <<>> \in Seq(Blocks)
BY DEF PrefixOf

-----------------------------------------------------------------------------
(* What is stored, whatever the network does *)

BaseInv == Typed /\ BegunInv /\ ServerInv /\ DataInv /\ StoredInv

LEMMA InitBase == Init => IInv
<1> SUFFICES ASSUME Init PROVE IInv
    OBVIOUS
<1>1. Typed
    BY SettingFacts, NumberFacts DEF Init, Typed
<1>2. BegunInv /\ ServerInv /\ DataInv
    BY DEF Init, BegunInv, ServerInv, DataInv
<1>3. StoredInv
    BY NothingStored, SettingFacts DEF Init, StoredInv, Clients
<1>4. QuietInv
    BY DEF Init, QuietInv, Clients
<1> QED
    BY <1>1, <1>2, <1>3, <1>4 DEF IInv

\* What a packet in flight is to be.
Proper(x) ==
    /\ x \in Packets
    /\ x.op = "DATA" => \E i \in 1 .. NB : x.data = Block(x.peer, i) /\ x.blk = i % BlockMod

Flies == net \subseteq Packets /\ (\A q \in net : cst[q.peer] # "idle") /\ DataInv

\* Nothing is sent.
LEMMA NothingSent ==
    ASSUME IInv, setting' = setting, net' \subseteq net,
           \A c \in Clients : cst[c] # "idle" => cst'[c] # "idle"
    PROVE  Flies'
<1>1. Packets' = Packets /\ NB' = NB
    BY DEF Packets, Blocks, NB
<1>2. \A q \in net : q.peer \in Clients /\ cst[q.peer] # "idle"
    BY InFlight DEF IInv, BegunInv
<1>3. DataInv'
    BY <1>1 DEF IInv, DataInv
<1> QED
    BY <1>1, <1>2, <1>3 DEF IInv, Typed, Flies

\* A proper packet is sent.
LEMMA OneSent ==
    ASSUME IInv, setting' = setting, NEW x, net' \subseteq net \union {x}, Proper(x), cst'[x.peer] # "idle",
           \A c \in Clients : cst[c] # "idle" => cst'[c] # "idle"
    PROVE  Flies'
<1>1. Packets' = Packets /\ NB' = NB
    BY DEF Packets, Blocks, NB
<1>2. \A q \in net : q.peer \in Clients /\ cst[q.peer] # "idle"
    BY InFlight DEF IInv, BegunInv
<1>3. DataInv'
    BY <1>1 DEF IInv, DataInv, Proper
<1> QED
    BY <1>1, <1>2, <1>3 DEF IInv, Typed, Flies, Proper

\* The packets without data are proper.
LEMMA PlainProper ==
    ASSUME NEW b \in BOOLEAN, NEW c \in Clients, NEW n \in 0 .. BlockMod - 1
    PROVE  /\ Proper(Request(c, "RRQ")) /\ Request(c, "RRQ").peer = c
           /\ Proper(Request(c, "WRQ")) /\ Request(c, "WRQ").peer = c
           /\ Proper(Ack(b, c, n)) /\ Ack(b, c, n).peer = c
           /\ Proper(Packet(b, c, "ERROR", n, NoBlock)) /\ Packet(b, c, "ERROR", n, NoBlock).peer = c
BY PacketTyped DEF Proper, Request, Ack, Packet

\* The packets with a block under its number are.
LEMMA DataProper ==
    ASSUME NEW b \in BOOLEAN, NEW c \in Clients, NEW i \in 1 .. NB, NEW n, n = i % BlockMod
    PROVE  Proper(Data(b, c, n, Block(c, i))) /\ Data(b, c, n, Block(c, i)).peer = c
<1>1. n \in 0 .. BlockMod - 1
    BY NumberFacts, ModRange
<1>2. Block(c, i) \in Blocks
    BY BlockTyped
<1> QED
    BY <1>1, <1>2, PacketTyped DEF Proper, Data, Packet

\* A block of an uploaded file under way.
Uploaded(c, i) == Data(TRUE, c, i % BlockMod, Block(c, i))

LEMMA UploadedProper ==
    ASSUME NEW c \in Clients, NEW i \in 1 .. NB
    PROVE  Proper(Uploaded(c, i)) /\ Uploaded(c, i).peer = c
<1>1. TRUE \in BOOLEAN
    OBVIOUS
<1> QED
    BY <1>1, DataProper DEF Uploaded

\* run: a download begins.
LEMMA ReadRequestBase == ASSUME IInv, NEW p \in net, p.toServer, ReadRequest(p) PROVE BaseInv'
<1> DEFINE c == p.peer
<1>1. c \in Clients /\ cst[c] # "idle" /\ NB \in Nat \ {0}
    BY InFlight, SettingFacts DEF IInv, BegunInv, Typed
<1>2. PICK rest \in Remaining(p) : net' = rest \union {Data(FALSE, c, 1, Block(c, 1))}
    BY DEF ReadRequest
<1>3. Flies'
    <2>1. 1 \in 1 .. NB /\ 1 = 1 % BlockMod
        BY <1>1, NumberFacts
    <2>2. Proper(Data(FALSE, c, 1, Block(c, 1))) /\ Data(FALSE, c, 1, Block(c, 1)).peer = c
        <3>1. FALSE \in BOOLEAN
            OBVIOUS
        <3> HIDE DEF c
        <3> QED
            BY <1>1, <2>1, <3>1, DataProper
    <2>3. setting' = setting /\ cst' = cst
        BY DEF ReadRequest, clientVars
    <2> QED
        BY <1>1, <1>2, <2>2, <2>3, Received, OneSent
<1>4. Typed'
    <2>1. net' \subseteq Packets'
        BY <1>3 DEF Flies
    <2> QED
        BY <2>1, <1>1, NumberFacts, SameSetting, InFlight DEF ReadRequest, clientVars, IInv, Typed
<1>5. BegunInv'
    BY <1>1, <1>3 DEF ReadRequest, clientVars, IInv, BegunInv, Flies
<1>6. ServerInv'
    BY <1>1, NumberFacts DEF ReadRequest, clientVars, ServerInv, NB
<1>7. StoredInv'
    BY DEF ReadRequest, clientVars, IInv, StoredInv, NB, PrefixOf
<1> QED
    BY <1>3, <1>4, <1>5, <1>6, <1>7 DEF BaseInv, Flies

\* run: an upload begins.
LEMMA WriteRequestBase == ASSUME IInv, NEW p \in net, p.toServer, WriteRequest(p) PROVE BaseInv'
<1> DEFINE c == p.peer
<1>1. c \in Clients /\ c \in Putters /\ cst[c] # "idle" /\ NB \in Nat \ {0}
    BY InFlight, SettingFacts DEF IInv, BegunInv, Typed, WriteRequest
<1>2. PICK rest \in Remaining(p) : net' = rest \union {Ack(FALSE, c, 0)}
    BY DEF WriteRequest
<1>3. Flies'
    <2>1. Proper(Ack(FALSE, c, 0)) /\ Ack(FALSE, c, 0).peer = c
        BY <1>1, NumberFacts, PlainProper
    <2>2. setting' = setting /\ cst' = cst
        BY DEF WriteRequest, clientVars
    <2> QED
        BY <1>1, <1>2, <2>1, <2>2, Received, OneSent
<1>d. disk' = [disk EXCEPT ![c] = <<>>] /\ disk \in [Putters -> Seq(Blocks)]
    BY DEF WriteRequest, IInv, Typed
<1>4. Typed'
    <2>1. net' \subseteq Packets'
        BY <1>3 DEF Flies
    <2>2. disk' \in [Putters -> Seq(Blocks)]
        BY <1>d, NothingStored
    <2> QED
        BY <2>1, <2>2, <1>1, NumberFacts, SameSetting DEF WriteRequest, clientVars, IInv, Typed
<1>5. BegunInv'
    BY <1>1, <1>3 DEF WriteRequest, clientVars, IInv, BegunInv, Flies
<1>6. ServerInv'
    <2>1. Len(disk'[c]) = 0
        BY <1>1, <1>d, NothingStored
    <2>2. 0 % BlockMod = 0
        BY NumberFacts, ModSmall
    <2> QED
        BY <1>1, <2>1, <2>2 DEF WriteRequest, clientVars, ServerInv, NB
<1>7. StoredInv'
    <2>1. \A d \in Putters : disk'[d] = IF d = c THEN <<>> ELSE disk[d]
        BY <1>d
    <2>2. UNCHANGED <<setting, job, cst, got>> /\ NB' = NB
        BY DEF WriteRequest, clientVars, NB
    <2>3. \A d \in Putters : PrefixOf(disk'[d], d) /\ Len(disk'[d]) <= NB
        BY <1>1, <2>1, NothingStored DEF IInv, StoredInv
    <2> QED
        BY <2>2, <2>3 DEF IInv, StoredInv, PrefixOf
<1> QED
    BY <1>3, <1>4, <1>5, <1>6, <1>7 DEF BaseInv, Flies

\* run: a packet is rejected.
LEMMA RejectBase == ASSUME IInv, NEW p \in net, p.toServer, Reject(p) PROVE BaseInv'
<1> DEFINE c == p.peer
           err == Packet(FALSE, c, "ERROR", 1, NoBlock)
<1>1. c \in Clients /\ cst[c] # "idle"
    BY InFlight DEF IInv, BegunInv
<1>2. PICK rest \in Remaining(p) : net' = rest \union {err}
    BY DEF Reject
<1>3. Flies'
    <2>1. Proper(err) /\ err.peer = c
        BY <1>1, NumberFacts, PlainProper
    <2>2. setting' = setting /\ cst' = cst
        BY DEF Reject, clientVars
    <2> HIDE DEF err
    <2> QED
        BY <1>1, <1>2, <2>1, <2>2, Received, OneSent
<1>4. Typed'
    <2>1. net' \subseteq Packets'
        BY <1>3 DEF Flies
    <2> QED
        BY <2>1, <1>1, SameSetting DEF Reject, clientVars, IInv, Typed
<1>5. BegunInv'
    BY <1>1, <1>3 DEF Reject, clientVars, IInv, BegunInv, Flies
<1>6. ServerInv' /\ StoredInv'
    BY DEF Reject, clientVars, IInv, ServerInv, StoredInv, NB, PrefixOf
<1> QED
    BY <1>3, <1>4, <1>5, <1>6 DEF BaseInv, Flies

\* The number follows the position.
LEMMA SuccFollows == ASSUME pos \in Nat, num = pos % BlockMod PROVE Succ(num) = (pos + 1) % BlockMod
BY NumberFacts, ModSucc DEF Succ

\* handleReadRequest: an ACK, or something else, arrives.
LEMMA DownloadBase == ASSUME Separable, IInv, NEW p \in net, p.toServer, Download(p) PROVE BaseInv'
<1> DEFINE c == p.peer
<1>1. /\ c \in Clients /\ cst[c] # "idle" /\ NB \in Nat \ {0}
      /\ spc = "rrq" /\ pos \in 1 .. NB /\ num = pos % BlockMod /\ target \in Getters
    BY InFlight, SettingFacts DEF IInv, BegunInv, Typed, Download, ServerInv
<1>2. /\ setting' = setting /\ cst' = cst /\ cli' = c
      /\ UNCHANGED <<target, disk, job, got, sent, timeouts>>
    BY DEF Download, clientVars
<1>3. PICK rest \in Remaining(p) :
         IF ~(p.op = "ACK" /\ p.blk = num) THEN net' = rest /\ UNCHANGED <<spc, num, pos>>
         ELSE IF pos = NB THEN net' = rest /\ spc' = "request" /\ UNCHANGED <<num, pos>>
         ELSE /\ num' = Succ(num)
              /\ pos' = pos + 1
              /\ net' = rest \union {Data(FALSE, p.peer, Succ(num), NextBlock)}
              /\ UNCHANGED spc
    BY DEF Download
<1>s. NB' = NB /\ Blocks' = Blocks /\ Packets' = Packets
    BY <1>2, SameSetting
<1>q. StoredInv'
    BY <1>2, <1>s DEF IInv, StoredInv, PrefixOf
<1>4. CASE net' = rest /\ UNCHANGED <<num, pos>> /\ spc' \in {"rrq", "request"}
    <2>1. Flies'
        BY <1>2, <1>4, Received, NothingSent
    <2>2. net' \subseteq Packets'
        BY <2>1 DEF Flies
    <2>3. Typed'
        BY <1>1, <1>2, <1>4, <1>s, <2>2 DEF IInv, Typed
    <2>4. BegunInv'
        BY <1>1, <1>2, <1>4, <2>1 DEF IInv, BegunInv, Flies
    <2>5. ServerInv'
        BY <1>1, <1>4, <1>s DEF ServerInv
    <2> QED
        BY <1>q, <2>1, <2>3, <2>4, <2>5 DEF BaseInv, Flies
<1>5. CASE /\ p.op = "ACK" /\ p.blk = num /\ pos # NB
           /\ num' = Succ(num) /\ pos' = pos + 1 /\ spc' = "rrq"
           /\ net' = rest \union {Data(FALSE, p.peer, Succ(num), NextBlock)}
    <2>1. c = target
        BY <1>1, <1>5, ServedOnly
    <2>2. Succ(num) = (pos + 1) % BlockMod /\ pos + 1 \in 1 .. NB
        BY <1>1, <1>5, SuccFollows
    <2>3. NextBlock = Block(c, pos + 1)
        BY <2>1 DEF NextBlock
    <2>4. Succ(num) \in 0 .. BlockMod - 1
        BY <1>1, <2>2, NumberFacts, ModRange
    <2>5. Proper(Data(FALSE, c, Succ(num), NextBlock)) /\ Data(FALSE, c, Succ(num), NextBlock).peer = c
        <3>1. FALSE \in BOOLEAN
            OBVIOUS
        <3> HIDE DEF c
        <3> QED
            BY <1>1, <2>2, <2>3, <3>1, DataProper
    <2>6. Flies'
        BY <1>1, <1>2, <1>5, <2>5, Received, OneSent
    <2>7. net' \subseteq Packets'
        BY <2>6 DEF Flies
    <2>8. Typed'
        <3>1. num' \in 0 .. BlockMod - 1 /\ pos' \in Nat
            BY <1>1, <1>5, <2>4
        <3> QED
            BY <1>1, <1>2, <1>5, <1>s, <2>7, <3>1 DEF IInv, Typed
    <2>9. BegunInv'
        BY <1>1, <1>2, <1>5, <2>6 DEF IInv, BegunInv, Flies
    <2>10. ServerInv'
        BY <1>1, <1>5, <1>s, <2>2 DEF ServerInv
    <2> QED
        BY <1>q, <2>6, <2>8, <2>9, <2>10 DEF BaseInv, Flies
<1> QED
    BY <1>1, <1>3, <1>4, <1>5

\* handleWriteRequest: data, or something else, arrive.
LEMMA UploadBase == ASSUME Separable, IInv, NEW p \in net, p.toServer, Upload(p) PROVE BaseInv'
<1> DEFINE c == p.peer
<1>1. /\ c \in Clients /\ cst[c] # "idle" /\ NB \in Nat \ {0}
      /\ spc = "wrq" /\ pos \in Nat /\ pos < NB /\ num = pos % BlockMod /\ target \in Putters
      /\ Len(disk[target]) = pos /\ disk \in [Putters -> Seq(Blocks)] /\ cst[target] # "idle"
    BY InFlight, SettingFacts DEF IInv, BegunInv, Typed, Upload, ServerInv
<1>2. /\ setting' = setting /\ cst' = cst /\ cli' = c
      /\ UNCHANGED <<target, job, got, sent, timeouts>>
    BY DEF Upload, clientVars
<1>3. PICK rest \in Remaining(p) :
         IF ~Expected(p) THEN net' = rest /\ UNCHANGED <<spc, num, pos, disk>>
         ELSE /\ disk' = [disk EXCEPT ![target] = Written(p.data)]
              /\ num' = Succ(num)
              /\ pos' = pos + 1
              /\ net' = rest \union {Ack(FALSE, p.peer, Succ(num))}
              /\ spc' = IF Over(p.data) THEN "request" ELSE "wrq"
    BY DEF Upload
<1>s. NB' = NB /\ Blocks' = Blocks /\ Packets' = Packets
    BY <1>2, SameSetting
<1>4. CASE ~Expected(p)
    <2>1. Flies'
        BY <1>2, <1>3, <1>4, Received, NothingSent
    <2>2. net' \subseteq Packets'
        BY <2>1 DEF Flies
    <2>3. Typed'
        BY <1>1, <1>2, <1>3, <1>4, <1>s, <2>2 DEF IInv, Typed
    <2>4. BegunInv'
        BY <1>1, <1>2, <1>3, <1>4, <2>1 DEF IInv, BegunInv, Flies
    <2>5. ServerInv'
        BY <1>1, <1>2, <1>3, <1>4, <1>s DEF ServerInv
    <2>6. StoredInv'
        BY <1>2, <1>3, <1>4, <1>s DEF IInv, StoredInv, PrefixOf
    <2> QED
        BY <2>1, <2>3, <2>4, <2>5, <2>6 DEF BaseInv, Flies
<1>5. CASE Expected(p)
    <2>1. p.data = Block(target, pos + 1) /\ pos + 1 \in 1 .. NB
        BY <1>1, <1>5, UploadExact
    <2>2. Succ(num) = (pos + 1) % BlockMod /\ Succ(num) \in 0 .. BlockMod - 1
        BY <1>1, SuccFollows, NumberFacts, ModRange
    <2>3. Over(p.data) <=> pos + 1 = NB
        BY <2>1 DEF Over, Short, Block
    <2>4. p.data \in Blocks /\ target \in Clients
        BY InFlight, <1>1 DEF IInv, Clients
    <2>5. /\ Written(p.data) \in Seq(Blocks) /\ PrefixOf(Written(p.data), target)
          /\ Len(Written(p.data)) = pos + 1
        <3>1. disk[target] \in Seq(Blocks) /\ PrefixOf(disk[target], target)
            BY <1>1 DEF IInv, StoredInv
        <3> QED
            BY <1>1, <2>1, <2>4, <3>1, OneBlockMore DEF Written
    <2>6. \A d \in Putters : disk'[d] = IF d = target THEN Written(p.data) ELSE disk[d]
        BY <1>1, <1>3, <1>5
    <2>7. disk' \in [Putters -> Seq(Blocks)]
        BY <1>1, <1>3, <1>5, <2>5
    <2>8. Flies'
        <3>1. Proper(Ack(FALSE, c, Succ(num))) /\ Ack(FALSE, c, Succ(num)).peer = c
            BY <1>1, <2>2, PlainProper
        <3> QED
            BY <1>1, <1>2, <1>3, <1>5, <3>1, Received, OneSent
    <2>9. net' \subseteq Packets'
        BY <2>8 DEF Flies
    <2>10. Typed'
        <3>1. num' \in 0 .. BlockMod - 1 /\ pos' \in Nat /\ spc' \in {"request", "wrq"}
            BY <1>1, <1>3, <1>5, <2>2
        <3> QED
            BY <1>1, <1>2, <1>s, <2>7, <2>9, <3>1 DEF IInv, Typed
    <2>11. BegunInv'
        BY <1>1, <1>2, <1>3, <1>5, <2>8 DEF IInv, BegunInv, Flies
    <2>12. ServerInv'
        BY <1>1, <1>2, <1>3, <1>5, <1>s, <2>1, <2>2, <2>3, <2>5, <2>6 DEF ServerInv
    <2>13. StoredInv'
        <3>1. \A d \in Putters : PrefixOf(disk'[d], d) /\ Len(disk'[d]) <= NB
            BY <2>1, <2>5, <2>6 DEF IInv, StoredInv
        <3> QED
            BY <1>2, <1>s, <3>1 DEF IInv, StoredInv, PrefixOf
    <2> QED
        BY <2>8, <2>10, <2>11, <2>12, <2>13 DEF BaseInv, Flies
<1> QED
    BY <1>4, <1>5

\* A client begins.
LEMMA BeginBase == ASSUME IInv, NEW c \in Clients, Begin(c) PROVE BaseInv'
<1>1. PICK j \in {"get", "put"} :
         /\ job' = [job EXCEPT ![c] = j]
         /\ net' = net \union {Request(c, IF j = "get" THEN "RRQ" ELSE "WRQ")}
    BY DEF Begin
<1>2. /\ c \in setting.who /\ cst[c] = "idle" /\ cst' = [cst EXCEPT ![c] = "busy"]
      /\ UNCHANGED <<setting, serverVars, got, sent, timeouts>>
    BY DEF Begin
<1>3. \A d \in Clients :
         /\ cst'[d] = IF d = c THEN "busy" ELSE cst[d]
         /\ job'[d] = IF d = c THEN j ELSE job[d]
    BY <1>1, <1>2 DEF IInv, Typed
<1>s. NB' = NB /\ Blocks' = Blocks /\ Packets' = Packets /\ NB \in Nat \ {0}
    BY <1>2, SameSetting, SettingFacts DEF IInv, Typed
<1>4. Flies'
    <2>1. PICK x \in {Request(c, "RRQ"), Request(c, "WRQ")} : net' = net \union {x}
        BY <1>1
    <2>2. Proper(x) /\ x.peer = c
        <3>1. TRUE \in BOOLEAN
            OBVIOUS
        <3> QED
            BY <2>1, <3>1, PlainProper, NumberFacts
    <2> QED
        BY <1>2, <1>3, <2>1, <2>2, OneSent
<1>5. Typed'
    <2>1. net' \subseteq Packets'
        BY <1>4 DEF Flies
    <2>2. job' \in [Clients -> {"none", "get", "put"}]
          /\ cst' \in [Clients -> {"idle", "busy", "done", "failed"}]
        BY <1>1, <1>2 DEF IInv, Typed
    <2> QED
        BY <1>2, <1>s, <2>1, <2>2 DEF IInv, Typed, serverVars
<1>t. spc # "request" => target \in Clients
    BY DEF IInv, Typed, Clients
<1>6. BegunInv'
    BY <1>2, <1>3, <1>4, <1>t DEF IInv, BegunInv, Flies, serverVars
<1>7. ServerInv'
    BY <1>2, <1>s DEF IInv, ServerInv, serverVars
<1>8. StoredInv'
    <2>1. got[c] = <<>> /\ Len(got[c]) = 0
        BY <1>2, NothingStored DEF IInv, BegunInv
    <2> QED
        BY <1>2, <1>3, <1>s, <2>1 DEF IInv, StoredInv, PrefixOf, serverVars
<1> QED
    BY <1>4, <1>5, <1>6, <1>7, <1>8 DEF BaseInv, Flies

\* A client receives data, takes them or not, and acknowledges them or not.
LEMMA GetDataBase ==
    ASSUME Separable, IInv, NEW c \in Clients, NEW p \in net, ~p.toServer, p.peer = c, cst[c] = "busy",
           GetData(c, p)
    PROVE  BaseInv'
<1>1. job[c] = "get" /\ p.op = "DATA" /\ UNCHANGED <<setting, serverVars, job, sent, timeouts>>
    BY DEF GetData
<1>2. PICK rest \in Remaining(p) :
         IF p.blk = (Len(got[c]) + 1) % BlockMod
         THEN /\ got' = [got EXCEPT ![c] = Append(@, p.data)]
              /\ cst' = [cst EXCEPT ![c] = IF Short(p.data) THEN "done" ELSE "busy"]
              /\ net' = rest \union {Ack(TRUE, c, p.blk)}
         ELSE /\ net' = IF Len(got[c]) > 0 /\ p.blk = Len(got[c]) % BlockMod
                        THEN rest \union {Ack(TRUE, c, p.blk)} ELSE rest
              /\ UNCHANGED <<got, cst>>
    BY DEF GetData
<1>3. net' \subseteq net \union {Ack(TRUE, c, p.blk)}
    BY <1>2, Received
<1>4. Proper(Ack(TRUE, c, p.blk)) /\ Ack(TRUE, c, p.blk).peer = c
    BY InFlight, PlainProper DEF IInv
<1>c. /\ cst \in [Clients -> {"idle", "busy", "done", "failed"}] /\ got \in [Clients -> Seq(Blocks)]
    BY DEF IInv, Typed
<1>5. cst' \in [Clients -> {"idle", "busy", "done", "failed"}]
      /\ \A d \in Clients : (cst[d] # "idle" => cst'[d] # "idle") /\ (d # c => cst'[d] = cst[d]) /\ cst'[c] # "idle"
    BY <1>2, <1>c
<1>s. NB' = NB /\ Blocks' = Blocks /\ Packets' = Packets /\ NB \in Nat \ {0}
    BY <1>1, SameSetting, SettingFacts DEF IInv, Typed
<1>6. Flies'
    BY <1>1, <1>3, <1>4, <1>5, OneSent
<1>t. spc # "request" => target \in Clients
    BY DEF IInv, Typed, Clients
<1>b. c \in setting.who
    BY DEF IInv, BegunInv
<1>w. net' \subseteq Packets'
    BY <1>6 DEF Flies
<1>7. ServerInv'
    BY <1>1, <1>s DEF IInv, ServerInv, serverVars
<1>8. CASE p.blk = (Len(got[c]) + 1) % BlockMod
    <2>1. p.data = Block(c, Len(got[c]) + 1) /\ Len(got[c]) + 1 \in 1 .. NB
        BY <1>1, <1>8, DownloadExact
    <2>2. got[c] \in Seq(Blocks) /\ PrefixOf(got[c], c) /\ p.data \in Blocks
        BY <1>c, InFlight DEF IInv, StoredInv
    <2>3. PICK new \in Seq(Blocks) : new = Append(got[c], p.data) /\ PrefixOf(new, c) /\ Len(new) = Len(got[c]) + 1
        BY <2>1, <2>2, OneBlockMore
    <2>4. got' \in [Clients -> Seq(Blocks)] /\ \A d \in Clients : got'[d] = IF d = c THEN new ELSE got[d]
        BY <1>2, <1>8, <1>c, <2>3
    <2>5. cst'[c] = IF Len(new) = NB THEN "done" ELSE "busy"
        BY <1>2, <1>8, <1>c, <2>1, <2>3 DEF Short, Block
    <2>6. Typed'
        BY <1>1, <1>s, <1>w, <1>5, <2>4 DEF IInv, Typed, serverVars
    <2>7. BegunInv'
        BY <1>1, <1>5, <1>6, <1>t, <1>b, <2>4 DEF IInv, BegunInv, Flies, serverVars
    <2>8. StoredInv'
        <3> DEFINE Fine(d) == /\ PrefixOf(got'[d], d) /\ Len(got'[d]) <= NB
                              /\ job'[d] = "get" /\ cst'[d] = "busy" => Len(got'[d]) < NB
                              /\ job'[d] = "get" /\ cst'[d] = "done" => Len(got'[d]) = NB
        <3>1. \A d \in Clients : d # c => Fine(d)
            BY <1>1, <1>5, <2>4 DEF IInv, StoredInv
        <3>2. got'[c] = new /\ PrefixOf(new, c) /\ Len(new) \in Nat /\ Len(new) <= NB /\ NB \in Nat
            BY <1>s, <2>1, <2>3, <2>4
        <3>3. cst'[c] = "busy" => Len(new) < NB
            BY <2>5, <3>2
        <3>4. cst'[c] = "done" => Len(new) = NB
            BY <2>5
        <3>5. Fine(c)
            BY <3>2, <3>3, <3>4
        <3>6. \A d \in Clients : Fine(d)
            <4> HIDE DEF Fine
            <4> QED
                BY <3>1, <3>5
        <3>7. \A d \in Putters : PrefixOf(disk'[d], d) /\ Len(disk'[d]) <= NB
            BY <1>1 DEF IInv, StoredInv, serverVars
        <3> QED
            BY <1>s, <3>6, <3>7 DEF StoredInv, PrefixOf
    <2> QED
        BY <1>6, <1>7, <2>6, <2>7, <2>8 DEF BaseInv, Flies
<1>9. CASE p.blk # (Len(got[c]) + 1) % BlockMod
    <2>1. UNCHANGED <<got, cst>>
        BY <1>2, <1>9
    <2>2. Typed'
        BY <1>1, <1>s, <1>w, <2>1 DEF IInv, Typed, serverVars
    <2>3. BegunInv'
        BY <1>1, <1>6, <2>1 DEF IInv, BegunInv, Flies, serverVars
    <2>4. StoredInv'
        BY <1>1, <1>s, <2>1 DEF IInv, StoredInv, PrefixOf, serverVars
    <2> QED
        BY <1>6, <1>7, <2>2, <2>3, <2>4 DEF BaseInv, Flies
<1> QED
    BY <1>8, <1>9

\* A client receives an acknowledgement and sends the next block.
LEMMA GetAckBase ==
    ASSUME Separable, IInv, NEW c \in Clients, NEW p \in net, ~p.toServer, p.peer = c, cst[c] = "busy",
           GetAck(c, p)
    PROVE  BaseInv'
<1>1. job[c] = "put" /\ p.op = "ACK" /\ UNCHANGED <<setting, serverVars, job, got, timeouts>>
    BY DEF GetAck
<1>2. PICK rest \in Remaining(p) :
         IF p.blk # sent[c] % BlockMod THEN net' = rest /\ UNCHANGED <<cst, sent>>
         ELSE IF sent[c] = NB THEN net' = rest /\ cst' = [cst EXCEPT ![c] = "done"] /\ UNCHANGED sent
         ELSE /\ sent' = [sent EXCEPT ![c] = sent[c] + 1]
              /\ net' = rest \union {Data(TRUE, c, (sent[c] + 1) % BlockMod, Block(c, sent[c] + 1))}
              /\ UNCHANGED cst
    BY DEF GetAck
<1>c. /\ cst \in [Clients -> {"idle", "busy", "done", "failed"}] /\ sent \in [Clients -> 0 .. NB]
      /\ sent[c] \in Nat /\ sent[c] <= NB
    BY SettingFacts DEF IInv, Typed
<1>5. /\ cst' \in [Clients -> {"idle", "busy", "done", "failed"}]
      /\ \A d \in Clients : (cst[d] # "idle" => cst'[d] # "idle") /\ (d # c => cst'[d] = cst[d])
      /\ cst'[c] \in {"busy", "done"}
    BY <1>2, <1>c
<1>s. NB' = NB /\ Blocks' = Blocks /\ Packets' = Packets /\ NB \in Nat \ {0}
    BY <1>1, SameSetting, SettingFacts DEF IInv, Typed
<1>6. Flies'
    <2>1. CASE net' = rest
        BY <1>1, <1>5, <2>1, Received, NothingSent
    <2>2. CASE sent[c] # NB /\ net' = rest \union {Data(TRUE, c, (sent[c] + 1) % BlockMod, Block(c, sent[c] + 1))}
        <3>1. sent[c] + 1 \in 1 .. NB
            BY <1>c, <1>s, <2>2
        <3>2. PICK x : x = Uploaded(c, sent[c] + 1)
            OBVIOUS
        <3>3. Proper(x) /\ x.peer = c
            BY <3>1, <3>2, UploadedProper
        <3>4. net' \subseteq net \union {x}
            BY <2>2, <3>2, Received DEF Uploaded
        <3> QED
            BY <1>1, <1>5, <3>3, <3>4, OneSent
    <2> QED
        BY <1>2, <2>1, <2>2
<1>7. sent' \in [Clients -> 0 .. NB] /\ \A d \in Clients : d # c => sent'[d] = sent[d]
    <2>1. CASE sent' = sent
        BY <1>c, <2>1
    <2>2. CASE sent[c] # NB /\ sent' = [sent EXCEPT ![c] = sent[c] + 1]
        <3>1. sent[c] + 1 \in 0 .. NB
            BY <1>c, <1>s, <2>2
        <3> QED
            BY <1>c, <2>2, <3>1
    <2> QED
        BY <1>2, <2>1, <2>2
<1>8. Typed'
    <2>1. net' \subseteq Packets'
        BY <1>6 DEF Flies
    <2> QED
        BY <1>1, <1>5, <1>7, <1>s, <2>1 DEF IInv, Typed, serverVars
<1>t. spc # "request" => target \in Clients
    BY DEF IInv, Typed, Clients
<1>b. c \in setting.who
    BY DEF IInv, BegunInv
<1>9. BegunInv'
    BY <1>1, <1>5, <1>6, <1>7, <1>t, <1>b DEF IInv, BegunInv, Flies, serverVars
<1>10. ServerInv'
    BY <1>1, <1>s DEF IInv, ServerInv, serverVars
<1>11. StoredInv'
    BY <1>1, <1>5, <1>s DEF IInv, StoredInv, PrefixOf, serverVars
<1> QED
    BY <1>6, <1>8, <1>9, <1>10, <1>11 DEF BaseInv, Flies

\* A client receives an error.
LEMMA GetErrorBase ==
    ASSUME IInv, NEW c \in Clients, NEW p \in net, ~p.toServer, p.peer = c, cst[c] = "busy", GetError(c, p)
    PROVE  BaseInv'
<1>1. UNCHANGED <<setting, serverVars, job, got, sent, timeouts>> /\ cst' = [cst EXCEPT ![c] = "failed"]
    BY DEF GetError
<1>2. net' \subseteq net
    BY Received DEF GetError
<1>3. cst' \in [Clients -> {"idle", "busy", "done", "failed"}]
      /\ \A d \in Clients : cst'[d] = IF d = c THEN "failed" ELSE cst[d]
    BY <1>1 DEF IInv, Typed
<1>s. NB' = NB /\ Blocks' = Blocks /\ Packets' = Packets
    BY <1>1, SameSetting
<1>4. Flies'
    BY <1>1, <1>2, <1>3, NothingSent
<1>5. Typed'
    <2>1. net' \subseteq Packets'
        BY <1>4 DEF Flies
    <2> QED
        BY <1>1, <1>3, <1>s, <2>1 DEF IInv, Typed, serverVars
<1>t. spc # "request" => target \in Clients
    BY DEF IInv, Typed, Clients
<1>6. BegunInv'
    BY <1>1, <1>3, <1>4, <1>t DEF IInv, BegunInv, Flies, serverVars
<1>7. ServerInv' /\ StoredInv'
    BY <1>1, <1>3, <1>s DEF IInv, ServerInv, StoredInv, PrefixOf, serverVars
<1> QED
    BY <1>4, <1>5, <1>6, <1>7 DEF BaseInv, Flies

\* A client sends its last packet again.
LEMMA TimeoutBase == ASSUME IInv, NEW c \in Clients, Timeout(c) PROVE BaseInv'
<1>1. /\ cst[c] = "busy" /\ timeouts[c] < setting.tries /\ timeouts' = [timeouts EXCEPT ![c] = @ + 1]
      /\ UNCHANGED <<setting, serverVars, job, cst, got, sent>>
    BY DEF Timeout
<1>2. PICK x : /\ net' = net \union {x}
               /\ x = IF job[c] = "get"
                      THEN IF got[c] = <<>> THEN Request(c, "RRQ") ELSE Ack(TRUE, c, Len(got[c]) % BlockMod)
                      ELSE IF sent[c] = 0 THEN Request(c, "WRQ")
                           ELSE Data(TRUE, c, sent[c] % BlockMod, Block(c, sent[c]))
    BY DEF Timeout
<1>c. sent[c] \in 0 .. NB /\ got[c] \in Seq(Blocks) /\ Len(got[c]) \in Nat
    BY DEF IInv, Typed
<1>s. NB' = NB /\ Blocks' = Blocks /\ Packets' = Packets /\ NB \in Nat \ {0}
    BY <1>1, SameSetting, SettingFacts DEF IInv, Typed
<1>3. Proper(x) /\ x.peer = c
    <2>t. TRUE \in BOOLEAN
        OBVIOUS
    <2>1. CASE x \in {Request(c, "RRQ"), Request(c, "WRQ")}
        BY <2>1, <2>t, PlainProper, NumberFacts
    <2>2. CASE x = Ack(TRUE, c, Len(got[c]) % BlockMod)
        <3>1. Len(got[c]) % BlockMod \in 0 .. BlockMod - 1
            BY <1>c, NumberFacts, ModRange
        <3> QED
            BY <2>2, <2>t, <3>1, PlainProper
    <2>3. CASE sent[c] # 0 /\ x = Data(TRUE, c, sent[c] % BlockMod, Block(c, sent[c]))
        <3>1. sent[c] \in 1 .. NB
            BY <1>c, <1>s, <2>3
        <3> QED
            BY <2>3, <2>t, <3>1, DataProper
    <2> QED
        BY <1>2, <2>1, <2>2, <2>3
<1>4. Flies'
    BY <1>1, <1>2, <1>3, OneSent
<1>5. Typed'
    <2>1. net' \subseteq Packets'
        BY <1>4 DEF Flies
    <2>2. timeouts' \in [Clients -> 0 .. setting.tries]
        BY <1>1, SettingFacts DEF IInv, Typed
    <2> QED
        BY <1>1, <1>s, <2>1, <2>2 DEF IInv, Typed, serverVars
<1>6. BegunInv'
    BY <1>1, <1>4 DEF IInv, Typed, BegunInv, Flies, serverVars
<1>7. ServerInv' /\ StoredInv'
    BY <1>1, <1>s DEF IInv, ServerInv, StoredInv, PrefixOf, serverVars
<1> QED
    BY <1>4, <1>5, <1>6, <1>7 DEF BaseInv, Flies

\* The network loses a packet, or nothing happens.
LEMMA LoseBase == ASSUME IInv, net' \subseteq net, UNCHANGED <<serverVars, clientVars>> PROVE BaseInv'
<1>1. Flies'
    BY NothingSent DEF clientVars
<1>s. NB' = NB /\ Blocks' = Blocks /\ Packets' = Packets
    BY SameSetting DEF clientVars
<1>2. Typed'
    BY <1>1, <1>s DEF Flies, IInv, Typed, serverVars, clientVars
<1>3. BegunInv'
    BY <1>1 DEF Flies, IInv, BegunInv, serverVars, clientVars
<1>4. ServerInv' /\ StoredInv'
    BY <1>s DEF IInv, ServerInv, StoredInv, PrefixOf, serverVars, clientVars
<1> QED
    BY <1>1, <1>2, <1>3, <1>4 DEF BaseInv, Flies

\* Every step keeps what is stored.
LEMMA BaseKept == ASSUME Separable, IInv, [Next]_vars PROVE BaseInv'
<1>1. CASE UNCHANGED vars
    BY <1>1, LoseBase DEF vars
<1>2. CASE ServerStep
    BY <1>2, ReadRequestBase, WriteRequestBase, RejectBase, DownloadBase, UploadBase DEF ServerStep
<1>3. ASSUME NEW c \in Clients, Begin(c) \/ ClientReceive(c) \/ Timeout(c) PROVE BaseInv'
    BY <1>3, BeginBase, GetDataBase, GetAckBase, GetErrorBase, TimeoutBase DEF ClientReceive
<1>4. CASE Lose
    BY <1>4, LoseBase DEF Lose
<1> QED
    BY <1>1, <1>2, <1>3, <1>4 DEF Next

-----------------------------------------------------------------------------
(* Without repetitions: one packet between the server and each client *)

\* The server is not about a client's file.
Elsewhere(d) == spc # "request" => target # d

\* A step does not concern a client.
Apart(d) ==
    /\ cst'[d] = cst[d] /\ job'[d] = job[d] /\ got'[d] = got[d] /\ sent'[d] = sent[d]
    /\ d \in Putters => disk'[d] = disk[d]
    /\ UNCHANGED <<spc, target, num, pos>> \/ (Elsewhere(d) /\ Elsewhere(d)')

\* What a client that saw its upload acknowledged to the end can rely on.
Complete(d) == d \in Putters /\ cst[d] = "done" /\ job[d] = "put" => Len(disk[d]) = NB

\* What a packet says is still so after a step that does not concern its client.
LEMMA StillSays ==
    ASSUME IInv, setting' = setting, NEW q \in net, Says(q), Apart(q.peer)
    PROVE  Says(q)'
<1>1. NB' = NB /\ q.op \in Ops
    BY SameSetting, InFlight DEF IInv
<1>2. CASE UNCHANGED <<spc, target, num, pos>>
    BY <1>1, <1>2 DEF Says, ToServer, ToClient, Serves, Apart, Ops
<1>3. CASE Elsewhere(q.peer) /\ Elsewhere(q.peer)'
    BY <1>1, <1>3 DEF Says, ToServer, ToClient, Serves, Apart, Ops, Elsewhere
<1> QED
    BY <1>2, <1>3 DEF Apart

\* A packet that was received was the only one of its client.
LEMMA Alone ==
    ASSUME IInv, Quiet, NEW p \in net, NEW rest \in Remaining(p)
    PROVE  Says(p) /\ \A q \in rest : q \in net /\ q.peer # p.peer
BY Received DEF IInv, QuietInv

\* A step about one client, after which one packet of that client is under way.
LEMMA OneSaid ==
    ASSUME IInv, Quiet, setting' = setting, NEW c \in Clients, NEW x, x.peer = c, Says(x)',
           \A q \in net' : q = x \/ (q \in net /\ q.peer # c),
           \A d \in Clients : d # c => Apart(d), Complete(c)'
    PROVE  QuietInv'
<1>1. NB' = NB
    BY SameSetting
<1>2. \A q, r \in net' : q.peer = r.peer => q = r
    BY DEF IInv, QuietInv
<1>3. \A q \in net' : Says(q)'
    <2> SUFFICES ASSUME NEW q \in net', q \in net, q.peer # c PROVE Says(q)'
        OBVIOUS
    <2>1. q.peer \in Clients /\ Says(q)
        BY InFlight DEF IInv, QuietInv
    <2> QED
        BY <2>1, StillSays
<1>4. \A d \in Putters : Complete(d)'
    BY <1>1 DEF IInv, QuietInv, Complete, Apart, Clients
<1> QED
    BY <1>2, <1>3, <1>4 DEF QuietInv, Complete

\* A step about one client, after which no packet of that client is under way.
LEMMA NoneSaid ==
    ASSUME IInv, Quiet, setting' = setting, NEW c \in Clients,
           \A q \in net' : q \in net /\ q.peer # c,
           \A d \in Clients : d # c => Apart(d), Complete(c)'
    PROVE  QuietInv'
<1>1. NB' = NB
    BY SameSetting
<1>2. \A q, r \in net' : q.peer = r.peer => q = r
    BY DEF IInv, QuietInv
<1>3. \A q \in net' : Says(q)'
    <2> SUFFICES ASSUME NEW q \in net', q \in net, q.peer # c PROVE Says(q)'
        OBVIOUS
    <2>1. q.peer \in Clients /\ Says(q)
        BY InFlight DEF IInv, QuietInv
    <2> QED
        BY <2>1, StillSays
<1>4. \A d \in Putters : Complete(d)'
    BY <1>1 DEF IInv, QuietInv, Complete, Apart, Clients
<1> QED
    BY <1>2, <1>3, <1>4 DEF QuietInv, Complete

\* A step that changes nothing but the packets under way, some of which are gone.
LEMMA LoseQuiet == ASSUME IInv, Quiet, net' \subseteq net, setting' = setting,
                          UNCHANGED <<spc, target, num, pos, disk, job, cst, got, sent>>
                   PROVE  QuietInv'
<1>1. NB' = NB
    BY SameSetting
<1>2. \A q \in net' : Says(q)'
    <2> SUFFICES ASSUME NEW q \in net' PROVE Says(q)'
        OBVIOUS
    <2>1. q \in net /\ Says(q) /\ Apart(q.peer)
        BY DEF IInv, QuietInv, Apart
    <2> QED
        BY <2>1, StillSays
<1> QED
    BY <1>1, <1>2 DEF IInv, QuietInv


\* What the client of a file whose upload is over can rely on stays true.
LEMMA StillComplete ==
    ASSUME IInv, Quiet, NEW c \in Clients, UNCHANGED <<setting, job, cst, disk>>
    PROVE  Complete(c)'
BY SameSetting DEF IInv, QuietInv, Complete

\* run: a download begins.
LEMMA ReadRequestQuiet ==
    ASSUME IInv, Quiet, NEW p \in net, p.toServer, ReadRequest(p) PROVE QuietInv'
<1>1. PICK c \in Clients : c = p.peer
    BY InFlight DEF IInv
<1>2. PICK rest \in Remaining(p) : net' = rest \union {Data(FALSE, c, 1, Block(c, 1))}
    BY <1>1 DEF ReadRequest
<1>3. PICK x : x = Data(FALSE, c, 1, Block(c, 1))
    OBVIOUS
<1>4. /\ spc = "request" /\ spc' = "rrq" /\ target' = c /\ num' = 1 /\ pos' = 1
      /\ UNCHANGED <<setting, disk, job, cst, got, sent>> /\ p.op = "RRQ"
    BY <1>1 DEF ReadRequest, clientVars
<1>5. got[c] = <<>>
    BY <1>1, <1>4, Alone, <1>2 DEF Says, ToServer
<1>6. x.peer = c /\ Says(x)'
    BY <1>3, <1>4, <1>5, NothingStored DEF Says, ToClient, Serves, Data, Packet
<1>7. \A d \in Clients : d # c => Apart(d)
    BY <1>4 DEF Apart, Elsewhere
<1>8. \A q \in net' : q = x \/ (q \in net /\ q.peer # c)
    BY <1>1, <1>2, <1>3, Alone
<1> QED
    BY <1>4, <1>6, <1>7, <1>8, StillComplete, OneSaid

\* run: an upload begins.
LEMMA WriteRequestQuiet ==
    ASSUME IInv, Quiet, NEW p \in net, p.toServer, WriteRequest(p) PROVE QuietInv'
<1>1. PICK c \in Clients : c = p.peer
    BY InFlight DEF IInv
<1>2. PICK rest \in Remaining(p) : net' = rest \union {Ack(FALSE, c, 0)}
    BY <1>1 DEF WriteRequest
<1>3. PICK x : x = Ack(FALSE, c, 0)
    OBVIOUS
<1>4. /\ spc = "request" /\ spc' = "wrq" /\ target' = c /\ num' = 0 /\ pos' = 0
      /\ UNCHANGED <<setting, job, cst, got, sent>> /\ p.op = "WRQ" /\ c \in Putters
      /\ disk' = [disk EXCEPT ![c] = <<>>]
    BY <1>1 DEF WriteRequest, clientVars
<1>5. cst[c] = "busy" /\ sent[c] = 0
    BY <1>1, <1>4, Alone, <1>2 DEF Says, ToServer
<1>6. x.peer = c /\ Says(x)'
    BY <1>3, <1>4, <1>5 DEF Says, ToClient, Serves, Ack, Packet
<1>7. \A d \in Clients : d # c => Apart(d)
    BY <1>4 DEF Apart, Elsewhere, IInv, Typed
<1>8. \A q \in net' : q = x \/ (q \in net /\ q.peer # c)
    BY <1>1, <1>2, <1>3, Alone
<1>9. Complete(c)'
    BY <1>4, <1>5 DEF Complete
<1> QED
    BY <1>4, <1>6, <1>7, <1>8, <1>9, OneSaid

\* run: a packet is rejected.
LEMMA RejectQuiet ==
    ASSUME IInv, Quiet, NEW p \in net, p.toServer, Reject(p) PROVE QuietInv'
<1>1. PICK c \in Clients : c = p.peer
    BY InFlight DEF IInv
<1>2. PICK x : x = Packet(FALSE, c, "ERROR", 1, NoBlock)
    OBVIOUS
<1>3. PICK rest \in Remaining(p) : net' = rest \union {x}
    BY <1>1, <1>2 DEF Reject
<1>4. UNCHANGED <<setting, spc, target, num, pos, disk, job, cst, got, sent>>
    BY DEF Reject, clientVars
<1>5. x.peer = c /\ Says(x)'
    BY <1>2 DEF Says, ToClient, Packet
<1>6. \A d \in Clients : d # c => Apart(d)
    BY <1>4 DEF Apart
<1>7. \A q \in net' : q = x \/ (q \in net /\ q.peer # c)
    BY <1>1, <1>3, Alone
<1> QED
    BY <1>4, <1>5, <1>6, <1>7, StillComplete, OneSaid

\* handleReadRequest: an ACK, or something else, arrives.
LEMMA DownloadQuiet ==
    ASSUME Separable, IInv, Quiet, NEW p \in net, p.toServer, Download(p) PROVE QuietInv'
<1>1. PICK c \in Clients : c = p.peer
    BY InFlight DEF IInv
<1>2. /\ spc = "rrq" /\ UNCHANGED <<setting, target, disk, job, cst, got, sent>>
      /\ pos \in Nat
    BY DEF Download, clientVars, IInv, Typed
<1>3. PICK rest \in Remaining(p) :
         IF ~(p.op = "ACK" /\ p.blk = num) THEN net' = rest /\ UNCHANGED <<spc, num, pos>>
         ELSE IF pos = NB THEN net' = rest /\ spc' = "request" /\ UNCHANGED <<num, pos>>
         ELSE /\ num' = Succ(num)
              /\ pos' = pos + 1
              /\ net' = rest \union {Data(FALSE, c, Succ(num), NextBlock)}
              /\ UNCHANGED spc
    BY <1>1 DEF Download
<1>4. CASE net' = rest /\ UNCHANGED <<spc, num, pos>>
    BY <1>2, <1>4, Received, LoseQuiet
<1>5. CASE p.op = "ACK" /\ net' = rest /\ spc' = "request" /\ UNCHANGED <<num, pos>>
    <2>1. target = c
        BY <1>1, <1>2, <1>5, ServedOnly
    <2>2. \A d \in Clients : d # c => Apart(d)
        BY <1>2, <1>5, <2>1 DEF Apart, Elsewhere
    <2>3. \A q \in net' : q \in net /\ q.peer # c
        BY <1>1, <1>5, Alone
    <2> QED
        BY <1>2, <2>2, <2>3, StillComplete, NoneSaid
<1>6. CASE /\ p.op = "ACK" /\ num' = Succ(num) /\ pos' = pos + 1 /\ spc' = spc
           /\ net' = rest \union {Data(FALSE, c, Succ(num), NextBlock)}
    <2>1. target = c
        BY <1>1, <1>2, <1>6, ServedOnly
    <2>2. Len(got[c]) = pos
        BY <1>1, <1>6, Alone DEF Says, ToServer
    <2>3. PICK x : x = Data(FALSE, c, Succ(num), NextBlock)
        OBVIOUS
    <2>4. x.peer = c /\ Says(x)'
        BY <1>2, <1>6, <2>1, <2>2, <2>3 DEF Says, ToClient, Serves, Data, Packet, NextBlock
    <2>5. \A d \in Clients : d # c => Apart(d)
        BY <1>2, <1>6, <2>1 DEF Apart, Elsewhere
    <2>6. \A q \in net' : q = x \/ (q \in net /\ q.peer # c)
        BY <1>1, <1>6, <2>3, Alone
    <2> QED
        BY <1>2, <2>4, <2>5, <2>6, StillComplete, OneSaid
<1> QED
    BY <1>3, <1>4, <1>5, <1>6

\* handleWriteRequest: data, or something else, arrive.
LEMMA UploadQuiet ==
    ASSUME Separable, IInv, Quiet, NEW p \in net, p.toServer, Upload(p) PROVE QuietInv'
<1>1. PICK c \in Clients : c = p.peer
    BY InFlight DEF IInv
<1>2. /\ spc = "wrq" /\ UNCHANGED <<setting, target, job, cst, got, sent>>
      /\ pos \in Nat /\ disk \in [Putters -> Seq(Blocks)] /\ target \in Putters
      /\ Len(disk[target]) = pos
    BY DEF Upload, clientVars, IInv, Typed, ServerInv
<1>3. PICK rest \in Remaining(p) :
         IF ~Expected(p) THEN net' = rest /\ UNCHANGED <<spc, num, pos, disk>>
         ELSE /\ disk' = [disk EXCEPT ![target] = Written(p.data)]
              /\ num' = Succ(num)
              /\ pos' = pos + 1
              /\ net' = rest \union {Ack(FALSE, c, Succ(num))}
              /\ spc' = IF Over(p.data) THEN "request" ELSE "wrq"
    BY <1>1 DEF Upload
<1>4. CASE ~Expected(p)
    BY <1>2, <1>3, <1>4, Received, LoseQuiet
<1>5. CASE Expected(p)
    <2>1. p.op = "DATA" /\ target = c
        BY <1>1, <1>2, <1>5, ServedOnly DEF Expected
    <2>2. p.data = Block(c, pos + 1) /\ sent[c] = pos + 1 /\ cst[c] = "busy"
        BY <1>1, <2>1, Alone DEF Says, ToServer
    <2>3. Over(p.data) <=> pos + 1 = NB
        BY <2>2 DEF Over, Short, Block
    <2>4. Len(Written(p.data)) = pos + 1
        BY <1>2, InFlight DEF Written, IInv
    <2>5. Len(disk'[c]) = pos + 1 /\ \A d \in Putters : d # c => disk'[d] = disk[d]
        BY <1>2, <1>3, <1>5, <2>1, <2>4
    <2>6. PICK x : x = Ack(FALSE, c, Succ(num))
        OBVIOUS
    <2>7. NB' = NB /\ c \in Putters
        BY <1>2, <2>1, SameSetting
    <2>8. x.peer = c /\ Says(x)'
        BY <1>2, <1>3, <1>5, <2>1, <2>2, <2>3, <2>5, <2>6, <2>7 DEF Says, ToClient, Serves, Ack, Packet
    <2>9. \A d \in Clients : d # c => Apart(d)
        BY <1>2, <2>1, <2>5 DEF Apart, Elsewhere
    <2>10. \A q \in net' : q = x \/ (q \in net /\ q.peer # c)
        BY <1>1, <1>3, <1>5, <2>6, Alone
    <2>11. Complete(c)'
        BY <1>2, <2>2 DEF Complete
    <2> QED
        BY <1>2, <2>8, <2>9, <2>10, <2>11, OneSaid
<1> QED
    BY <1>4, <1>5

\* A client begins.
LEMMA BeginQuiet == ASSUME IInv, Quiet, NEW c \in Clients, Begin(c) PROVE QuietInv'
<1>1. PICK j \in {"get", "put"} :
         /\ job' = [job EXCEPT ![c] = j]
         /\ net' = net \union {Request(c, IF j = "get" THEN "RRQ" ELSE "WRQ")}
    BY DEF Begin
<1>2. PICK x \in {Request(c, "RRQ"), Request(c, "WRQ")} : net' = net \union {x}
    BY <1>1
<1>3. /\ cst[c] = "idle" /\ cst' = [cst EXCEPT ![c] = "busy"]
      /\ UNCHANGED <<setting, spc, target, num, pos, disk, got, sent>>
    BY DEF Begin, serverVars
<1>4. /\ cst'[c] = "busy"
      /\ \A d \in Clients : d # c => cst'[d] = cst[d] /\ job'[d] = job[d]
    BY <1>1, <1>3 DEF IInv, Typed
<1>5. got[c] = <<>> /\ sent[c] = 0 /\ (spc # "request" => target # c)
    BY <1>3 DEF IInv, BegunInv
<1>6. /\ x.peer = c /\ x.toServer /\ x.op \in {"RRQ", "WRQ"}
    BY DEF Request, Packet
<1>7. Says(x)'
    BY <1>3, <1>4, <1>5, <1>6 DEF Says, ToServer
<1>8. \A d \in Clients : d # c => Apart(d)
    BY <1>3, <1>4 DEF Apart
<1>9. \A q \in net' : q = x \/ (q \in net /\ q.peer # c)
    BY <1>2, <1>3 DEF IInv, BegunInv
<1>10. Complete(c)'
    BY <1>4 DEF Complete
<1> QED
    BY <1>3, <1>6, <1>7, <1>8, <1>9, <1>10, OneSaid

\* A client receives data: the block it expects, which it acknowledges.
LEMMA GetDataQuiet ==
    ASSUME IInv, Quiet, NEW c \in Clients, NEW p \in net, ~p.toServer, p.peer = c, GetData(c, p)
    PROVE  QuietInv'
<1>1. /\ job[c] = "get" /\ p.op = "DATA"
      /\ UNCHANGED <<setting, spc, target, num, pos, disk, job, sent, timeouts>>
    BY DEF GetData, serverVars
<1>2. PICK rest \in Remaining(p) :
         p.blk = (Len(got[c]) + 1) % BlockMod =>
             /\ got' = [got EXCEPT ![c] = Append(@, p.data)]
             /\ cst' = [cst EXCEPT ![c] = IF Short(p.data) THEN "done" ELSE "busy"]
             /\ net' = rest \union {Ack(TRUE, c, p.blk)}
    BY DEF GetData
<1>3. Serves("rrq", c) /\ p.blk = num /\ Len(got[c]) = pos - 1
    BY <1>1, Alone DEF Says, ToClient
<1>4. p.blk = (Len(got[c]) + 1) % BlockMod
    <2>1. num = pos % BlockMod /\ pos \in Nat /\ (pos - 1) + 1 = pos
        BY <1>3 DEF IInv, Typed, ServerInv, Serves
    <2> QED
        BY <1>3, <2>1
<1>5. got \in [Clients -> Seq(Blocks)] /\ cst \in [Clients -> {"idle", "busy", "done", "failed"}] /\ pos \in Nat
    BY DEF IInv, Typed
<1>6. \A d \in Clients : d # c => got'[d] = got[d] /\ cst'[d] = cst[d]
    BY <1>2, <1>4, <1>5
<1>7. Len(got'[c]) = pos
    <2>1. p.data \in Blocks /\ got[c] \in Seq(Blocks) /\ got'[c] = Append(got[c], p.data)
        BY <1>2, <1>4, <1>5, InFlight DEF IInv
    <2> QED
        BY <1>3, <1>5, <2>1
<1>8. PICK x : x = Ack(TRUE, c, p.blk)
    OBVIOUS
<1>9. x.peer = c /\ Says(x)'
    BY <1>1, <1>3, <1>7, <1>8 DEF Says, ToServer, Serves, Ack, Packet
<1>10. \A d \in Clients : d # c => Apart(d)
    BY <1>1, <1>6 DEF Apart
<1>11. \A q \in net' : q = x \/ (q \in net /\ q.peer # c)
    BY <1>2, <1>4, <1>8, Alone
<1>12. Complete(c)'
    BY <1>1 DEF Complete
<1> QED
    BY <1>1, <1>9, <1>10, <1>11, <1>12, OneSaid

\* A client receives an acknowledgement: of its last block, or of one before it, and
\* then it sends the next one.
LEMMA GetAckQuiet ==
    ASSUME IInv, Quiet, NEW c \in Clients, NEW p \in net, ~p.toServer, p.peer = c, cst[c] = "busy",
           GetAck(c, p)
    PROVE  QuietInv'
<1>1. /\ job[c] = "put" /\ p.op = "ACK"
      /\ UNCHANGED <<setting, spc, target, num, pos, disk, job, got, timeouts>>
    BY DEF GetAck, serverVars
<1>2. PICK rest \in Remaining(p) :
         IF p.blk # sent[c] % BlockMod THEN net' = rest /\ UNCHANGED <<cst, sent>>
         ELSE IF sent[c] = NB THEN net' = rest /\ cst' = [cst EXCEPT ![c] = "done"] /\ UNCHANGED sent
         ELSE /\ sent' = [sent EXCEPT ![c] = sent[c] + 1]
              /\ net' = rest \union {Uploaded(c, sent[c] + 1)}
              /\ UNCHANGED cst
    BY DEF GetAck, Uploaded
<1>3. /\ sent \in [Clients -> 0 .. NB] /\ pos \in Nat
      /\ cst \in [Clients -> {"idle", "busy", "done", "failed"}]
      /\ NB' = NB
    BY <1>1, SameSetting DEF IInv, Typed
<1>4. /\ c \in Putters
      /\ IF Serves("wrq", c) THEN sent[c] = pos ELSE sent[c] = NB /\ Len(disk[c]) = NB
    BY <1>1, Alone DEF Says, ToClient
<1>5. Serves("wrq", c) => pos # NB
    BY DEF IInv, Typed, ServerInv, Serves
<1>6. CASE net' = rest /\ UNCHANGED <<cst, sent>>
    BY <1>1, <1>6, Received, LoseQuiet
<1>7. CASE sent[c] = NB /\ net' = rest /\ cst' = [cst EXCEPT ![c] = "done"] /\ UNCHANGED sent
    <2>1. \A d \in Clients : d # c => Apart(d)
        BY <1>1, <1>3, <1>7 DEF Apart
    <2>2. Complete(c)'
        BY <1>1, <1>3, <1>4, <1>5, <1>7 DEF Complete
    <2>3. \A q \in net' : q \in net /\ q.peer # c
        BY <1>7, Alone
    <2> QED
        BY <1>1, <2>1, <2>2, <2>3, NoneSaid
<1>8. CASE /\ sent[c] # NB /\ sent' = [sent EXCEPT ![c] = sent[c] + 1]
           /\ net' = rest \union {Uploaded(c, sent[c] + 1)} /\ UNCHANGED cst
    <2>1. Serves("wrq", c) /\ sent[c] = pos
        BY <1>4, <1>8
    <2>2. PICK x : x = Uploaded(c, sent[c] + 1)
        OBVIOUS
    <2>3. sent'[c] = pos + 1 /\ cst'[c] = "busy"
        BY <1>3, <1>8, <2>1
    <2>4. x.peer = c /\ x.toServer /\ x.op = "DATA" /\ x.data = Block(c, pos + 1)
        BY <2>1, <2>2 DEF Uploaded, Data, Packet
    <2>5. Says(x)'
        BY <1>1, <2>1, <2>3, <2>4 DEF Says, ToServer, Serves
    <2>6. \A d \in Clients : d # c => Apart(d)
        BY <1>1, <1>3, <1>8 DEF Apart
    <2>7. \A q \in net' : q = x \/ (q \in net /\ q.peer # c)
        BY <1>8, <2>2, Alone
    <2>8. Complete(c)'
        BY <2>3 DEF Complete
    <2> QED
        BY <1>1, <2>4, <2>5, <2>6, <2>7, <2>8, OneSaid
<1> QED
    BY <1>2, <1>6, <1>7, <1>8

\* A client receives an error.
LEMMA GetErrorQuiet ==
    ASSUME IInv, Quiet, NEW c \in Clients, NEW p \in net, ~p.toServer, p.peer = c, GetError(c, p)
    PROVE  QuietInv'
<1>1. /\ cst' = [cst EXCEPT ![c] = "failed"]
      /\ UNCHANGED <<setting, spc, target, num, pos, disk, job, got, sent>>
    BY DEF GetError, serverVars
<1>2. cst'[c] = "failed" /\ \A d \in Clients : d # c => cst'[d] = cst[d]
    BY <1>1 DEF IInv, Typed
<1>3. \A d \in Clients : d # c => Apart(d)
    BY <1>1, <1>2 DEF Apart
<1>4. \A q \in net' : q \in net /\ q.peer # c
    BY Alone DEF GetError
<1>5. Complete(c)'
    BY <1>2 DEF Complete
<1> QED
    BY <1>1, <1>3, <1>4, <1>5, NoneSaid

\* Once something is repeated, something has been repeated.
LEMMA QuietBefore == ASSUME IInv, [Next]_vars, Quiet' PROVE Quiet
<1>1. CASE UNCHANGED <<setting, timeouts>>
    BY <1>1 DEF Quiet
<1>2. ASSUME NEW c \in Clients, Timeout(c) PROVE FALSE
    <2>1. timeouts'[c] = timeouts[c] + 1 /\ timeouts[c] \in Nat
        BY <1>2, SettingFacts DEF Timeout, IInv, Typed
    <2> QED
        BY <2>1 DEF Quiet
<1>3. CASE UNCHANGED vars
    BY <1>1, <1>3 DEF vars, clientVars
<1>4. CASE ServerStep
    BY <1>1, <1>4 DEF ServerStep, ReadRequest, WriteRequest, Reject, Download, Upload, clientVars
<1>5. ASSUME NEW c \in Clients, Begin(c) \/ ClientReceive(c) PROVE UNCHANGED <<setting, timeouts>>
    BY <1>5 DEF Begin, ClientReceive, GetData, GetAck, GetError
<1>6. CASE Lose
    BY <1>1, <1>6 DEF Lose, clientVars
<1> QED
    BY <1>1, <1>2, <1>3, <1>4, <1>5, <1>6 DEF Next

\* Every step keeps what the packets say.
LEMMA QuietKept == ASSUME Separable, IInv, [Next]_vars PROVE QuietInv'
<1> SUFFICES ASSUME Quiet' PROVE QuietInv'
    BY DEF QuietInv
<1>1. Quiet
    BY QuietBefore
<1>2. CASE UNCHANGED vars
    BY <1>1, <1>2, LoseQuiet DEF vars, serverVars, clientVars
<1>3. CASE ServerStep
    BY <1>1, <1>3, ReadRequestQuiet, WriteRequestQuiet, RejectQuiet, DownloadQuiet, UploadQuiet DEF ServerStep
<1>4. ASSUME NEW c \in Clients, Begin(c) \/ ClientReceive(c) PROVE QuietInv'
    BY <1>1, <1>4, BeginQuiet, GetDataQuiet, GetAckQuiet, GetErrorQuiet DEF ClientReceive
<1>5. ASSUME NEW c \in Clients, Timeout(c) PROVE FALSE
    <2>1. timeouts'[c] = timeouts[c] + 1 /\ timeouts[c] \in Nat
        BY <1>5, SettingFacts DEF Timeout, IInv, Typed
    <2> QED
        BY <2>1 DEF Quiet
<1>6. CASE Lose
    BY <1>1, <1>6, LoseQuiet DEF Lose, serverVars, clientVars
<1> QED
    BY <1>2, <1>3, <1>4, <1>5, <1>6 DEF Next

-----------------------------------------------------------------------------
(* What follows *)

\* The invariant of every behaviour.
THEOREM Invariance == Separable => (Spec => []IInv)
<1> SUFFICES ASSUME Separable PROVE Spec => []IInv
    OBVIOUS
<1>1. Init => IInv
    BY InitBase
<1>2. IInv /\ [Next]_vars => IInv'
    BY BaseKept, QuietKept DEF BaseInv, IInv
<1> QED
    BY <1>1, <1>2, PTL DEF Spec

\* Every variable has the values the program can give it; block numbers fit in 16 bits.
THEOREM TypeCorrect == Separable => (Spec => []TypeOK)
<1>1. IInv => TypeOK
    BY DEF IInv, Typed, TypeOK
<1> QED
    BY <1>1, Invariance, PTL

\* A download (handleReadRequest) delivers the blocks of the file in order, and a
\* client that takes it for complete has all of it.
THEOREM DownloadInvariant == Separable => (Spec => []DownloadIsFaithful)
<1>1. IInv => DownloadIsFaithful
    BY DEF IInv, StoredInv, DownloadIsFaithful, Clients
<1> QED
    BY <1>1, Invariance, PTL

\* An upload (handleWriteRequest) stores a beginning of the client's file, and all of
\* it once the client has seen it acknowledged to the end without asking twice.
THEOREM UploadInvariant == Separable => (Spec => []UploadIsFaithful)
<1>1. ASSUME Separable, IInv, NEW c \in Putters,
             ~setting.repeats, timeouts[c] = 0, cst[c] = "done", job[c] = "put"
      PROVE  Len(disk[c]) = NB
    <2>1. CASE Numbered
        <3>1. c \in setting.who /\ \A d \in Clients : d # c => timeouts[d] = 0
            <4>1. \A d \in Clients : d \notin setting.who => timeouts[d] = 0
                BY <1>1 DEF IInv, BegunInv
            <4>2. c \in setting.who
                BY <1>1 DEF IInv, BegunInv, Clients
            <4> QED
                BY <2>1, <4>1, <4>2 DEF Numbered
        <3>2. Quiet
            BY <1>1, <3>1 DEF Quiet
        <3> QED
            BY <1>1, <3>2 DEF IInv, QuietInv
    <2>2. CASE Quiet
        BY <1>1, <2>2 DEF IInv, QuietInv
    <2> QED
        BY <1>1, <2>1, <2>2, QuietOrNumbered DEF IInv
<1> SUFFICES ASSUME Separable PROVE Spec => []UploadIsFaithful
    OBVIOUS
<1>2. IInv => UploadIsFaithful
    BY <1>1 DEF IInv, StoredInv, UploadIsFaithful
<1> QED
    BY <1>2, Invariance, PTL

=============================================================================

--------------------------- MODULE MailboxesProofs ---------------------------
(***************************************************************************)
(* That every medium of Mailboxes but the bare shared memory is a channel  *)
(* for lines: Mailboxes implements LineTransfer, for any number of lines,  *)
(* any capacity and any number of kills.                                   *)
(*                                                                         *)
(* A pipe holds what was sent and has not been taken; what is taken is     *)
(* displayed at once.  The messages of a type stand in the queue in the    *)
(* order in which they were sent, and there is one for every line that has *)
(* not been taken, until the queue is removed; a receiver that is killed   *)
(* loses the one it holds.  With semaphores there is at most one token,    *)
(* whoever creates the set and whenever the receiver is killed, and who    *)
(* holds it knows whether the line in the memory has been displayed; once  *)
(* the set is deleted the line is "quit", and all that can still be        *)
(* displayed is that line again.                                           *)
(*                                                                         *)
(* Then come the types and limits of all nine programs, the bare shared    *)
(* memory included, and what the channel means for the lines displayed.    *)
(***************************************************************************)
EXTENDS Mailboxes, SequenceTheorems, WellFoundedInduction, TLAPS

-----------------------------------------------------------------------------
(* The steps of the abstract channel *)

LEMMA KindFacts ==
    /\ kind \in Piped => kind # "shm" /\ kind \notin Queues /\ kind # "sem" /\ kind \notin Shared
    /\ kind \in Queues => kind # "shm" /\ kind \notin Piped /\ kind # "sem" /\ kind \notin Shared /\ kind \notin Fifos
    /\ kind = "sem" => kind # "shm" /\ kind \notin Piped /\ kind \notin Queues /\ kind \in Shared /\ kind \notin Fifos
    /\ kind \in Fifos => kind \in Piped
    /\ kind \in AllKinds => kind \in Piped \/ kind \in Queues \/ kind = "shm" \/ kind = "sem"
  BY DEF Piped, Queues, Shared, Fifos, AllKinds

\* What can be displayed on a channel.
Shown == Line \union {Blank}

\* What a step may leave as it is: the lines, and what has become of them.
Idle ==
    /\ kills' = kills /\ sent' = sent /\ got' = got
    /\ \A e \in Channels : Past(e)' = Past(e) /\ Over(e)' = Over(e)

\* What a step of a program may do: a step of the channel, or nothing to it.
Allowed == Promise!Next \/ Idle

\* Where every receiver has displayed what it took, the two numbers say it all.
NoPrint == \A e \in Channels : rpc[e] # "print"
LEMMA IdleStep ==
    ASSUME NoPrint, NoPrint', kills' = kills, sent' = sent, got' = got, took' = took
    PROVE  Idle
  BY DEF NoPrint, Idle, Past, Over

\* The state functions that are put for the variables of the channel.
Channel ==
    <<IfBare(<<>>, sent), IfBare(<<>>, got), IfBare(0, [d \in Channels |-> Past(d)]),
      IfBare(FALSE, [d \in Channels |-> Over(d)]), kills, Faults>>

LEMMA QuietStep ==
    ASSUME kind' = kind, kills' = kills, kind = "shm" \/ Idle
    PROVE  UNCHANGED Channel
<1>1. Faults' = Faults
  BY DEF Faults
<1>2. CASE kind = "shm"
  BY <1>1, <1>2 DEF Channel, IfBare
<1>3. CASE kind # "shm"
  <2>1. /\ [d \in Channels |-> Past(d)]' = [d \in Channels |-> Past(d)]
        /\ [d \in Channels |-> Over(d)]' = [d \in Channels |-> Over(d)]
    BY <1>3 DEF Idle
  <2> QED
    BY <1>1, <1>3, <2>1 DEF Channel, IfBare, Idle
<1> QED
  BY <1>2, <1>3

\* One or more lines are sent on channel d.
LEMMA SendStep ==
    ASSUME kind # "shm", kind' = kind, kills' = kills, got' = got, NEW d \in Channels, ~Over(d),
           \A e \in Channels : Past(e)' = Past(e) /\ Over(e)' = Over(e),
           NEW n \in 1 .. MaxLines, NEW lines \in [1 .. n -> Line],
           sent' = [sent EXCEPT ![d] = @ \o lines]
    PROVE  Promise!Next
<1>1. /\ [e \in Channels |-> Past(e)]' = [e \in Channels |-> Past(e)]
      /\ [e \in Channels |-> Over(e)]' = [e \in Channels |-> Over(e)]
      /\ Faults' = Faults
  BY DEF Faults
<1>2. Promise!Send(d)
  BY <1>1 DEF Promise!Send, IfBare
<1> QED
  BY <1>2 DEF Promise!Next

\* Lines arrive on channel d up to the n-th that was sent.
LEMMA ArriveStep ==
    ASSUME kind # "shm", kind' = kind, kills' = kills, sent' = sent, NEW d \in Channels, ~Over(d),
           NEW n \in Past(d) + 1 .. Len(sent[d]),
           got' = [got EXCEPT ![d] = @ \o SubSeq(sent[d], Past(d) + 1, n)],
           \A e \in Channels : Past(e)' = (IF e = d THEN n ELSE Past(e)) /\ Over(e)' = Over(e)
    PROVE  Promise!Next
<1>1. /\ [e \in Channels |-> Past(e)]' = [[e \in Channels |-> Past(e)] EXCEPT ![d] = n]
      /\ [e \in Channels |-> Over(e)]' = [e \in Channels |-> Over(e)]
      /\ Faults' = Faults
  BY DEF Faults
<1>2. [e \in Channels |-> Past(e)][d] = Past(d) /\ [e \in Channels |-> Over(e)][d] = Over(d)
  OBVIOUS
<1>3. Promise!Arrive(d)
  BY <1>1, <1>2 DEF Promise!Arrive, IfBare
<1> QED
  BY <1>3 DEF Promise!Next

\* A receiver dies, with a line it has taken (17) or without.
LEMMA DieStep ==
    ASSUME kind # "shm", kind' = kind, kills' = kills + 1, sent' = sent, got' = got, NEW d \in Channels,
           \A e \in Channels : Over(e)' = Over(e) /\ (e # d => Past(e)' = Past(e)),
           \/ Past(d)' = Past(d)
           \/ kind = "msgq" /\ Past(d) < Len(sent[d]) /\ Past(d)' = Past(d) + 1
    PROVE  Promise!Next
<1>1. [e \in Channels |-> Over(e)]' = [e \in Channels |-> Over(e)] /\ Faults' = Faults
  BY DEF Faults
<1>2. [e \in Channels |-> Past(e)][d] = Past(d)
  OBVIOUS
<1>3. CASE Past(d)' = Past(d)
  <2>1. [e \in Channels |-> Past(e)]' = [e \in Channels |-> Past(e)]
    BY <1>3
  <2>2. Promise!Die(d)
    BY <1>1, <2>1 DEF Promise!Die, IfBare
  <2> QED
    BY <2>2 DEF Promise!Next
<1>4. CASE kind = "msgq" /\ Past(d) < Len(sent[d]) /\ Past(d)' = Past(d) + 1
  <2>1. [e \in Channels |-> Past(e)]' = [[e \in Channels |-> Past(e)] EXCEPT ![d] = @ + 1]
    BY <1>4
  <2>2. "lose" \in Faults
    BY <1>4 DEF Faults, Fifos
  <2>3. Promise!Die(d)
    BY <1>1, <1>2, <1>4, <2>1, <2>2 DEF Promise!Die, IfBare
  <2> QED
    BY <2>3 DEF Promise!Next
<1> QED
  BY <1>3, <1>4

\* After the end channel d displays its last line again, or an empty one.
LEMMA TrailStep ==
    ASSUME kind # "shm", kind' = kind, kills' = kills, sent' = sent, NEW d \in Channels,
           Past(d) = Len(sent[d]), \A e \in Channels : Past(e)' = Past(e),
           Over(d)', \A e \in Channels : e # d => Over(e)' = Over(e),
           \/ "again" \in Faults /\ got[d] # <<>> /\ got' = [got EXCEPT ![d] = Append(@, Last(@))]
           \/ "blank" \in Faults /\ got' = [got EXCEPT ![d] = Append(@, Blank)]
    PROVE  Promise!Next
<1>1. /\ [e \in Channels |-> Past(e)]' = [e \in Channels |-> Past(e)]
      /\ Faults' = Faults
  BY DEF Faults
<1>2. [e \in Channels |-> Over(e)]' = [[e \in Channels |-> Over(e)] EXCEPT ![d] = TRUE]
  <2>1. Over(d)' = TRUE
    BY DEF Over
  <2> QED
    BY <2>1
<1>3. [e \in Channels |-> Past(e)][d] = Past(d)
  OBVIOUS
<1>4. /\ IfBare(0, [e \in Channels |-> Past(e)])[d] = Len(IfBare(<<>>, sent)[d])
      /\ IfBare(FALSE, [e \in Channels |-> Over(e)])' = [IfBare(FALSE, [e \in Channels |-> Over(e)]) EXCEPT ![d] = TRUE]
      /\ UNCHANGED <<IfBare(<<>>, sent), IfBare(0, [e \in Channels |-> Past(e)]), kills, Faults>>
  BY <1>1, <1>2, <1>3 DEF IfBare
<1>5. \/ "again" \in Faults /\ IfBare(<<>>, got)[d] # <<>>
            /\ IfBare(<<>>, got)' = [IfBare(<<>>, got) EXCEPT ![d] = Append(@, Last(@))]
      \/ "blank" \in Faults /\ IfBare(<<>>, got)' = [IfBare(<<>>, got) EXCEPT ![d] = Append(@, Blank)]
  BY DEF IfBare
<1>6. Promise!Trail(d)
  BY <1>4, <1>5 DEF Promise!Trail, Promise!Last, Last
<1> QED
  BY <1>6 DEF Promise!Next

-----------------------------------------------------------------------------
(* Sequences *)

\* A function on the first n numbers is a sequence.
LEMMA ListIsSeq ==
    ASSUME NEW S, NEW n \in Nat, NEW f \in [1 .. n -> S]
    PROVE  f \in Seq(S)
  OBVIOUS

\* The first k elements of a sequence.
IsSlice(x, s, k) == Len(x) = k /\ \A j \in 1 .. k : x[j] = s[j]
LEMMA SliceOf ==
    ASSUME NEW S, NEW s, NEW k \in Nat, \A j \in 1 .. k : s[j] \in S
    PROVE  \E x \in Seq(S) : x = SubSeq(s, 1, k) /\ IsSlice(x, s, k)
<1>1. 1 \in Int /\ k \in Int
  OBVIOUS
<1>2. /\ SubSeq(s, 1, k) \in Seq(S) /\ Len(SubSeq(s, 1, k)) = IF 1 <= k THEN k - 1 + 1 ELSE 0
      /\ \A j \in 1 .. k - 1 + 1 : SubSeq(s, 1, k)[j] = s[1 + j - 1]
  BY <1>1, SubSeqProperties
<1>3. PICK x : x = SubSeq(s, 1, k)
  OBVIOUS
<1>4. x \in Seq(S) /\ Len(x) = (IF 1 <= k THEN k - 1 + 1 ELSE 0) /\ \A j \in 1 .. k - 1 + 1 : x[j] = s[1 + j - 1]
  BY <1>2, <1>3, Zenon
<1>5. Len(x) = k
  BY <1>4
<1>6. \A j \in 1 .. k : j \in 1 .. k - 1 + 1 /\ 1 + j - 1 = j
  OBVIOUS
<1>7. \A j \in 1 .. k : x[j] = s[j]
  BY <1>4, <1>6
<1> QED
  BY <1>3, <1>4, <1>5, <1>7 DEF IsSlice

\* A sequence with one element.
LEMMA First ==
    ASSUME NEW S, NEW s \in Seq(S), Len(s) >= 1
    PROVE  SubSeq(s, 1, 1) = <<s[1]>>
<1>1. 1 \in 1 .. Len(s) /\ s[1] \in S
  BY ElementOfSeq, LenProperties
<1>2. \A i \in 1 .. 1 : s[i] \in S
  BY <1>1
<1>3. SubSeq(s, 1, 1) \in Seq(S) /\ Len(SubSeq(s, 1, 1)) = 1 /\ SubSeq(s, 1, 1)[1] = s[1]
  BY <1>2, SubSeqProperties
<1>4. PICK t \in Seq(S) : t = SubSeq(s, 1, 1) /\ Len(t) = 1 /\ t[1] = s[1]
  BY <1>3, Zenon
<1> QED
  <2>1. <<s[1]>> \in Seq(S) /\ Len(<<s[1]>>) = 1 /\ <<s[1]>>[1] = s[1]
    BY <1>1
  <2> QED
    <3>1. \A i \in 1 .. Len(t) : t[i] = <<s[1]>>[i]
      BY <1>4, <2>1
    <3>2. t = <<s[1]>>
      BY <3>1, <1>4, <2>1, SeqEqual
    <3> QED
      BY <3>2, <1>4

\* k elements of a sequence, after the first a.
IsPart(x, s, a, k) == Len(x) = k /\ \A j \in 1 .. k : x[j] = s[a + j]
LEMMA PartOf ==
    ASSUME NEW S, NEW s, NEW a \in Nat, NEW k \in Nat, \A j \in 1 .. k : s[a + j] \in S
    PROVE  \E x \in Seq(S) : x = SubSeq(s, a + 1, a + k) /\ IsPart(x, s, a, k)
<1>1. PICK m \in Int, n \in Int : m = a + 1 /\ n = a + k
  OBVIOUS
<1>2. \A i \in m .. n : s[i] \in S
  <2> SUFFICES ASSUME NEW i \in m .. n PROVE s[i] \in S
    OBVIOUS
  <2>1. i - a \in 1 .. k /\ a + (i - a) = i
    BY <1>1
  <2> QED
    BY <2>1
<1>3. PICK x : x = SubSeq(s, m, n)
  OBVIOUS
<1>4. x \in Seq(S) /\ Len(x) = (IF m <= n THEN n - m + 1 ELSE 0) /\ \A j \in 1 .. n - m + 1 : x[j] = s[m + j - 1]
  BY <1>2, <1>3, SubSeqProperties
<1>5. Len(x) = k
  BY <1>1, <1>4
<1>6. \A j \in 1 .. k : j \in 1 .. n - m + 1 /\ m + j - 1 = a + j
  BY <1>1
<1>7. \A j \in 1 .. k : x[j] = s[a + j]
  BY <1>4, <1>6
<1> QED
  BY <1>1, <1>3, <1>4, <1>5, <1>7, Zenon DEF IsPart

\* p is what is left of s when the first a elements are taken away.
IsRest(p, s, a) == Len(s) = a + Len(p) /\ \A i \in 1 .. Len(p) : p[i] = s[a + i]

\* More at the end of the whole is more at the end of the rest.
LEMMA RestGrows ==
    ASSUME NEW S, NEW p \in Seq(S), NEW s \in Seq(S), NEW l \in Seq(S), NEW a \in Nat, IsRest(p, s, a)
    PROVE  IsRest(p \o l, s \o l, a)
<1>1. PICK m \in Nat, n \in Nat, k \in Nat : m = Len(p) /\ n = Len(s) /\ k = Len(l)
  BY LenProperties
<1>2. PICK q, t : q = p \o l /\ t = s \o l
  OBVIOUS
<1>3. /\ Len(q) = m + k /\ Len(t) = n + k
      /\ \A i \in 1 .. m + k : q[i] = IF i <= m THEN p[i] ELSE l[i - m]
      /\ \A i \in 1 .. n + k : t[i] = IF i <= n THEN s[i] ELSE l[i - n]
  BY <1>1, <1>2, ConcatProperties
<1>4. n = a + m /\ \A i \in 1 .. m : p[i] = s[a + i]
  BY <1>1 DEF IsRest
<1>5. \A i \in 1 .. m + k : q[i] = t[a + i]
  <2> SUFFICES ASSUME NEW i \in 1 .. m + k PROVE q[i] = t[a + i]
    OBVIOUS
  <2>1. a + i \in 1 .. n + k
    BY <1>4
  <2>2. CASE i <= m
    <3>1. i \in 1 .. m /\ a + i <= n
      BY <2>2, <1>4
    <3> QED
      BY <2>1, <2>2, <3>1, <1>3, <1>4
  <2>3. CASE ~(i <= m)
    <3>1. ~(a + i <= n) /\ a + i - n = i - m
      BY <2>3, <1>4
    <3>2. q[i] = l[i - m] /\ t[a + i] = l[a + i - n]
      BY <2>1, <2>3, <3>1, <1>3
    <3> QED
      BY <3>1, <3>2
  <2> QED
    BY <2>2, <2>3
<1>6. Len(t) = a + Len(q)
  BY <1>3, <1>4
<1> QED
  BY <1>2, <1>3, <1>5, <1>6 DEF IsRest

\* A sequence over a set is one over a larger set.
LEMMA Widened ==
    ASSUME NEW S, NEW T, S \subseteq T, NEW s \in Seq(S)
    PROVE  s \in Seq(T)
<1>1. PICK n \in Nat : n = Len(s)
  BY LenProperties
<1>2. s \in [1 .. n -> S]
  BY <1>1, LenProperties
<1>3. s \in [1 .. n -> T]
  BY <1>2
<1> QED
  BY <1>3, ListIsSeq

\* h is taken from the front of the rest, which leaves r.
IsTaken(h, r, p, s, a, n, k) ==
    /\ h = SubSeq(p, 1, k) /\ h = SubSeq(s, a + 1, a + k) /\ Len(h) = k
    /\ r = SubSeq(p, k + 1, n) /\ IsRest(r, s, a + k)

\* What is taken from the front of the rest comes next in the whole.
LEMMA RestShrinks ==
    ASSUME NEW S, NEW p \in Seq(S), NEW s \in Seq(S), NEW a \in Nat, IsRest(p, s, a),
           NEW n \in Nat, n = Len(p), NEW k \in 1 .. n
    PROVE  \E h \in Seq(S), r \in Seq(S) : IsTaken(h, r, p, s, a, n, k)
<1>1. Len(s) = a + n /\ \A i \in 1 .. n : p[i] = s[a + i] /\ p[i] \in S
  BY ElementOfSeq DEF IsRest
<1>2. k \in Nat /\ n - k \in Nat /\ k + (n - k) = n /\ a + k \in Nat
  OBVIOUS
<1>3. \A j \in 1 .. k : p[j] \in S /\ s[a + j] \in S
  BY <1>1
<1>4. PICK h \in Seq(S) : h = SubSeq(p, 1, k) /\ IsSlice(h, p, k)
  BY <1>2, <1>3, SliceOf
<1>5. PICK g \in Seq(S) : g = SubSeq(s, a + 1, a + k) /\ IsPart(g, s, a, k)
  BY <1>2, <1>3, PartOf
<1>6. Len(h) = k /\ Len(g) = k /\ \A j \in 1 .. k : h[j] = g[j]
  BY <1>1, <1>4, <1>5 DEF IsSlice, IsPart
<1>7. h = g
  BY <1>6, SeqEqual
<1>8. PICK l \in Nat : l = n - k
  BY <1>2
<1>9. \A j \in 1 .. l : p[k + j] \in S
  BY <1>1, <1>8
<1>10. PICK r \in Seq(S) : r = SubSeq(p, k + 1, k + l) /\ IsPart(r, p, k, l)
  BY <1>2, <1>9, PartOf
<1>11. Len(r) = l /\ \A j \in 1 .. l : r[j] = s[(a + k) + j]
  <2>1. Len(r) = l /\ \A j \in 1 .. l : r[j] = p[k + j]
    BY <1>10 DEF IsPart
  <2>2. \A j \in 1 .. l : p[k + j] = s[(a + k) + j]
    <3> SUFFICES ASSUME NEW j \in 1 .. l PROVE p[k + j] = s[(a + k) + j]
      OBVIOUS
    <3>1. k + j \in 1 .. n /\ a + (k + j) = (a + k) + j
      BY <1>8
    <3>2. p[k + j] = s[a + (k + j)]
      BY <3>1, <1>1
    <3> QED
      BY <3>1, <3>2
  <2> QED
    BY <2>1, <2>2
<1>12. IsRest(r, s, a + k)
  <2>1. Len(s) = (a + k) + Len(r)
    BY <1>1, <1>8, <1>11
  <2> QED
    BY <2>1, <1>11 DEF IsRest
<1>13. k + l = n
  BY <1>8
<1> QED
  BY <1>4, <1>5, <1>6, <1>7, <1>10, <1>12, <1>13 DEF IsTaken

-----------------------------------------------------------------------------
(* Pipes and FIFOs *)

PipePlaces ==
    /\ spc \in [Channels -> {"open", "write", "done", "killed"}]
    /\ rpc \in [Channels -> {"open", "read", "spin", "done", "killed"}]

\* A pipe holds what was sent and not taken; what is taken is displayed, and after
\* the end of the pipe a line more.
AtEnd(d) ==
    /\ Len(got[d]) > took[d] /\ pipe[d] = <<>>
    /\ spc[d] \in {"done", "killed"} /\ rpc[d] \in {"spin", "killed"}
PipeLines ==
    /\ sent \in [Channels -> Seq(Line)] /\ pipe \in [Channels -> Seq(Line)]
    /\ got \in [Channels -> Seq(Shown)] /\ took \in [Channels -> Nat]
    /\ \A d \in Channels : IsRest(pipe[d], sent[d], took[d])
    /\ \A d \in Channels : Len(got[d]) = took[d] \/ AtEnd(d)
    /\ kind = "drain" => \A d \in Channels : rpc[d] = "read" /\ spc[d] # "write" => spc[d] = "done" /\ sent[d] # <<>>

PipeInv == PipePlaces /\ PipeLines

\* What is written goes behind what is in the pipe, and the receiver is still there.
LEMMA PutKeeps ==
    ASSUME kind \in Piped, kind' = kind, kills' = kills, rpc' = rpc, got' = got, took' = took, PipeInv, PipePlaces',
           NEW d \in Channels, spc[d] = "write", \A e \in Channels : e # d => spc'[e] = spc[e],
           spc'[d] \in {"write", "done"},
           NEW n \in 1 .. MaxLines, NEW lines \in [1 .. n -> Line], n \in Nat, Put(d, lines)
    PROVE  PipeInv' /\ Allowed
<1> USE DEF PipeInv
<1>1. lines \in Seq(Line) /\ Len(lines) = n /\ n > 0
  BY ListIsSeq
<1>2. pipe' = [pipe EXCEPT ![d] = @ \o lines] /\ sent' = [sent EXCEPT ![d] = @ \o lines] /\ rpc[d] \in {"open", "read"}
  BY DEF Put, ReaderThere
<1>3. pipe[d] \in Seq(Line) /\ sent[d] \in Seq(Line) /\ took[d] \in Nat /\ IsRest(pipe[d], sent[d], took[d])
  BY DEF PipeLines
<1>4. PICK p2 \in Seq(Line), s2 \in Seq(Line) : p2 = pipe[d] \o lines /\ s2 = sent[d] \o lines /\ IsRest(p2, s2, took[d]) /\ s2 # <<>>
  <2>1. PICK p \in Seq(Line), s \in Seq(Line), a \in Nat : p = pipe[d] /\ s = sent[d] /\ a = took[d] /\ IsRest(p, s, a)
    BY <1>3
  <2>2. IsRest(p \o lines, s \o lines, a)
    BY <2>1, <1>1, RestGrows
  <2>3. p \o lines \in Seq(Line) /\ s \o lines \in Seq(Line) /\ Len(s \o lines) = Len(s) + Len(lines) /\ Len(s) \in Nat
    BY <1>1, ConcatProperties, LenProperties
  <2>4. s \o lines # <<>>
    BY <2>3, <1>1, EmptySeq
  <2> QED
    BY <2>1, <2>2, <2>3, <2>4, Zenon
<1>5. pipe' = [pipe EXCEPT ![d] = p2] /\ sent' = [sent EXCEPT ![d] = s2]
  BY <1>2, <1>4
<1>6. PipeLines'
  <2>1. sent' \in [Channels -> Seq(Line)] /\ pipe' \in [Channels -> Seq(Line)]
    BY <1>5 DEF PipeLines
  <2>2. \A e \in Channels : IsRest(pipe'[e], sent'[e], took'[e])
    BY <1>4, <1>5 DEF PipeLines
  <2>3. \A e \in Channels : Len(got'[e]) = took'[e] \/ AtEnd(e)'
    BY <1>2, <1>5 DEF PipeLines, AtEnd
  <2>4. kind = "drain" => \A e \in Channels : rpc'[e] = "read" /\ spc'[e] # "write" => spc'[e] = "done" /\ sent'[e] # <<>>
    BY <1>4, <1>5 DEF PipeLines
  <2> QED
    BY <2>1, <2>2, <2>3, <2>4 DEF PipeLines
<1>7. Promise!Next
  <2>1. ~Over(d)
    <3>1. Len(got[d]) = took[d]
      BY <1>2 DEF PipeLines, AtEnd
    <3> QED
      BY <3>1, <1>3 DEF Over
  <2>2. \A e \in Channels : Past(e)' = Past(e) /\ Over(e)' = Over(e)
    BY DEF Past, Over
  <2> QED
    BY <2>1, <2>2, <1>2, KindFacts, SendStep
<1> QED
  BY <1>6, <1>7 DEF Allowed

\* The read takes one line or more from the front of the pipe.
LEMMA ReadKeeps ==
    ASSUME kind \in Piped, PipeInv, NEW d \in Channels, ReadPipe(d)
    PROVE  PipeInv' /\ Allowed
<1>1. /\ kind' = kind /\ spc' = spc /\ sent' = sent /\ kills' = kills /\ pipe[d] # <<>> /\ rpc[d] = "read"
      /\ got' = [got EXCEPT ![d] = @ \o Portion(d)]
      /\ took' = [took EXCEPT ![d] = @ + Len(Portion(d))]
      /\ pipe' = [pipe EXCEPT ![d] = SubSeq(@, Len(Portion(d)) + 1, Len(@))]
  BY DEF ReadPipe
<1>2. /\ got[d] \in Seq(Shown) /\ pipe[d] \in Seq(Line) /\ sent[d] \in Seq(Line) /\ took[d] \in Nat
      /\ IsRest(pipe[d], sent[d], took[d])
  BY DEF PipeInv, PipeLines
<1>3. PICK n \in Nat : n = Len(pipe[d])
  BY <1>2, LenProperties
<1>4. n >= 1
  BY <1>1, <1>2, <1>3, EmptySeq
<1>5. PICK k \in 1 .. n : Portion(d) = SubSeq(pipe[d], 1, k)
  <2>1. CASE kind = "drain"
    <3>1. Portion(d) = <<pipe[d][1]>>
      BY <2>1 DEF Portion
    <3>2. SubSeq(pipe[d], 1, 1) = <<pipe[d][1]>>
      BY <1>2, <1>3, <1>4, First
    <3> QED
      BY <3>1, <3>2, <1>4
  <2>2. CASE kind # "drain"
    <3>1. Portion(d) = pipe[d]
      BY <2>2 DEF Portion
    <3>2. SubSeq(pipe[d], 1, n) = pipe[d]
      BY <1>2, <1>3, SubSeqFull
    <3> QED
      BY <3>1, <3>2, <1>4
  <2> QED
    BY <2>1, <2>2
<1>6. PICK h \in Seq(Line), r \in Seq(Line) :
          /\ h = Portion(d) /\ h = SubSeq(sent[d], took[d] + 1, took[d] + k) /\ Len(h) = k
          /\ r = SubSeq(pipe[d], k + 1, n) /\ IsRest(r, sent[d], took[d] + k)
  <2>1. PICK p \in Seq(Line), s \in Seq(Line), a \in Nat : p = pipe[d] /\ s = sent[d] /\ a = took[d] /\ IsRest(p, s, a)
    BY <1>2
  <2>2. n = Len(p)
    BY <1>3, <2>1
  <2>3. PICK h \in Seq(Line), r \in Seq(Line) : IsTaken(h, r, p, s, a, n, k)
    BY <2>1, <2>2, RestShrinks
  <2> QED
    BY <2>1, <2>3, <1>5 DEF IsTaken
<1>7. got' = [got EXCEPT ![d] = @ \o h] /\ took' = [took EXCEPT ![d] = @ + k] /\ pipe' = [pipe EXCEPT ![d] = r]
  BY <1>1, <1>3, <1>6
<1>8. Len(got[d]) = took[d]
  BY <1>1 DEF PipeInv, PipeLines, AtEnd
<1>9. PICK g2 \in Seq(Shown) : g2 = got[d] \o h /\ Len(g2) = took[d] + k
  <2>1. PICK g \in Seq(Shown) : g = got[d] /\ Len(g) = took[d]
    BY <1>2, <1>8
  <2>2. h \in Seq(Shown)
    BY Widened DEF Shown
  <2>3. g \o h \in Seq(Shown) /\ Len(g \o h) = Len(g) + Len(h)
    BY <2>2, ConcatProperties
  <2> QED
    BY <2>1, <2>3, <1>6
<1>10. got' = [got EXCEPT ![d] = g2]
  BY <1>7, <1>9
<1>11. PICK place \in {"done", "read"} : rpc' = [rpc EXCEPT ![d] = place]
  BY DEF ReadPipe
<1>12. PipeLines'
  <2>1. got' \in [Channels -> Seq(Shown)] /\ took' \in [Channels -> Nat] /\ pipe' \in [Channels -> Seq(Line)]
    <3>1. got \in [Channels -> Seq(Shown)] /\ took \in [Channels -> Nat] /\ pipe \in [Channels -> Seq(Line)]
      BY DEF PipeInv, PipeLines
    <3>2. took[d] + k \in Nat
      BY <1>2, <1>5
    <3>3. got' \in [Channels -> Seq(Shown)] /\ pipe' \in [Channels -> Seq(Line)]
      BY <3>1, <1>7, <1>10
    <3>4. took' \in [Channels -> Nat]
      BY <3>1, <3>2, <1>7
    <3> QED
      BY <3>3, <3>4
  <2>2. \A e \in Channels : IsRest(pipe'[e], sent'[e], took'[e])
    BY <1>1, <1>6, <1>7 DEF PipeInv, PipeLines
  <2>3. \A e \in Channels : Len(got'[e]) = took'[e] \/ AtEnd(e)'
    <3> SUFFICES ASSUME NEW e \in Channels PROVE Len(got'[e]) = took'[e] \/ AtEnd(e)'
      OBVIOUS
    <3>1. CASE e = d
      BY <3>1, <1>7, <1>9, <1>10 DEF PipeInv, PipeLines
    <3>2. CASE e # d
      <4>1. got'[e] = got[e] /\ took'[e] = took[e] /\ pipe'[e] = pipe[e] /\ rpc'[e] = rpc[e] /\ spc'[e] = spc[e]
        BY <3>2, <1>1, <1>7, <1>10, <1>11 DEF PipeInv, PipeLines, PipePlaces
      <4> QED
        BY <4>1 DEF PipeInv, PipeLines, AtEnd
    <3> QED
      BY <3>1, <3>2
  <2>4. kind = "drain" => \A e \in Channels : rpc'[e] = "read" /\ spc'[e] # "write" => spc'[e] = "done" /\ sent'[e] # <<>>
    BY <1>1, <1>11 DEF PipeInv, PipeLines, PipePlaces
  <2> QED
    BY <2>1, <2>2, <2>3, <2>4, <1>1 DEF PipeInv, PipeLines
<1>13. PipePlaces'
  BY <1>1, <1>11 DEF PipeInv, PipePlaces
<1>14. Promise!Next
  <2>1. ~Over(d)
    BY <1>2, <1>8 DEF Over
  <2>2. Past(d) = took[d] /\ \A e \in Channels : Past(e)' = (IF e = d THEN took[d] + k ELSE Past(e))
    <3>1. \A e \in Channels : rpc[e] # "print" /\ rpc'[e] # "print"
      BY <1>13 DEF PipeInv, PipePlaces
    <3>2. took \in [Channels -> Nat] /\ took' \in [Channels -> Nat]
      BY <1>12 DEF PipeInv, PipeLines
    <3>3. \A e \in Channels : Past(e) = took[e] /\ Past(e)' = took'[e]
      BY <3>1, <3>2 DEF Past
    <3> QED
      BY <3>2, <3>3, <1>7
  <2>3. \A e \in Channels : Over(e)' = Over(e)
    <3> SUFFICES ASSUME NEW e \in Channels PROVE Over(e)' = Over(e)
      OBVIOUS
    <3>1. CASE e = d
      <4>1. Len(got'[d]) = took'[d] /\ took'[d] \in Nat
        BY <1>7, <1>9, <1>10 DEF PipeInv, PipeLines
      <4> QED
        BY <4>1, <3>1, <1>2, <1>8 DEF Over
    <3>2. CASE e # d
      BY <3>2, <1>7 DEF Over, PipeInv, PipeLines
    <3> QED
      BY <3>1, <3>2
  <2>4. took[d] + k \in Past(d) + 1 .. Len(sent[d])
    <3>1. Len(sent[d]) = took[d] + n
      BY <1>2, <1>3 DEF IsRest
    <3>2. PICK t \in Nat : t = took[d] /\ t = Past(d)
      BY <2>2, <1>2
    <3>3. t + k \in t + 1 .. t + n
      OBVIOUS
    <3> QED
      BY ONLY <3>1, <3>2, <3>3, Zenon
  <2>5. got' = [got EXCEPT ![d] = @ \o SubSeq(sent[d], Past(d) + 1, took[d] + k)]
    BY <2>2, <1>6, <1>7
  <2> QED
    BY <2>1, <2>2, <2>3, <2>4, <2>5, <1>1, KindFacts, ArriveStep
<1> QED
  BY <1>12, <1>13, <1>14 DEF PipeInv, Allowed

\* At the end of the pipe the last line is displayed again, or an empty one.
LEMMA NothingKeeps ==
    ASSUME kind \in Piped, PipeInv, NEW d \in Channels, ReadNothing(d)
    PROVE  PipeInv' /\ Allowed
<1> USE DEF PipeInv
<1>1. /\ kind' = kind /\ kills' = kills /\ spc' = spc /\ sent' = sent /\ took' = took /\ pipe' = pipe
      /\ kind \in {"drain"} \union Fifos /\ rpc[d] = "read" /\ pipe[d] = <<>> /\ spc[d] \in {"done", "killed"}
      /\ rpc' = [rpc EXCEPT ![d] = "spin"]
  BY DEF ReadNothing
<1>2. /\ got[d] \in Seq(Shown) /\ sent[d] \in Seq(Line) /\ took[d] \in Nat /\ Len(got[d]) = took[d]
      /\ took[d] = Len(sent[d])
  <2>1. IsRest(<<>>, sent[d], took[d])
    BY <1>1 DEF PipeLines
  <2>2. Len(sent[d]) = took[d] + 0
    BY <2>1 DEF IsRest
  <2>3. Len(got[d]) = took[d]
    BY <1>1 DEF PipeLines, AtEnd
  <2>4. got[d] \in Seq(Shown) /\ sent[d] \in Seq(Line) /\ took[d] \in Nat
    BY DEF PipeLines
  <2> QED
    BY <2>2, <2>3, <2>4
<1>3. PICK e \in Shown : /\ got' = [got EXCEPT ![d] = Append(@, e)]
                         /\ kind = "drain" => got[d] # <<>> /\ e = Last(got[d])
                         /\ kind # "drain" => e = Blank
  <2>1. CASE kind = "drain"
    <3>1. sent[d] # <<>>
      BY <2>1, <1>1 DEF PipeLines
    <3>2. Len(got[d]) \in 1 .. Len(got[d])
      BY <3>1, <1>2, EmptySeq, LenProperties
    <3>3. Last(got[d]) \in Shown /\ got[d] # <<>>
      BY <3>2, <1>2, ElementOfSeq, EmptySeq DEF Last
    <3> QED
      BY <2>1, <3>3 DEF ReadNothing
  <2>2. CASE kind # "drain"
    <3>1. Blank \in Shown
      BY DEF Shown
    <3> QED
      BY <2>2, <3>1 DEF ReadNothing
  <2> QED
    BY <2>1, <2>2
<1>4. PICK g2 \in Seq(Shown) : g2 = Append(got[d], e) /\ Len(g2) = took[d] + 1
  <2>1. PICK g \in Seq(Shown), n \in Nat : g = got[d] /\ n = took[d] /\ n = Len(g)
    BY <1>2
  <2>2. Append(g, e) \in Seq(Shown) /\ Len(Append(g, e)) = n + 1
    BY <2>1, AppendProperties
  <2> QED
    BY <2>1, <2>2, Zenon
<1>5. got' = [got EXCEPT ![d] = g2]
  BY <1>3, <1>4
<1>6. PipePlaces'
  BY <1>1 DEF PipePlaces
<1>7. PipeLines'
  <2>1. got' \in [Channels -> Seq(Shown)]
    BY <1>5 DEF PipeLines
  <2>2. \A c \in Channels : Len(got'[c]) = took'[c] \/ AtEnd(c)'
    <3> SUFFICES ASSUME NEW c \in Channels PROVE Len(got'[c]) = took'[c] \/ AtEnd(c)'
      OBVIOUS
    <3>1. CASE c = d
      <4>1. got'[d] = g2 /\ rpc'[d] = "spin"
        BY <1>1, <1>5 DEF PipeLines, PipePlaces
      <4> QED
        BY <3>1, <4>1, <1>1, <1>2, <1>4 DEF AtEnd
    <3>2. CASE c # d
      <4>1. got'[c] = got[c] /\ rpc'[c] = rpc[c]
        BY <3>2, <1>1, <1>5 DEF PipeLines, PipePlaces
      <4> QED
        BY <4>1, <1>1 DEF PipeLines, AtEnd
    <3> QED
      BY <3>1, <3>2
  <2>3. kind = "drain" => \A c \in Channels : rpc'[c] = "read" /\ spc'[c] # "write" => spc'[c] = "done" /\ sent'[c] # <<>>
    BY <1>1 DEF PipeLines, PipePlaces
  <2> QED
    BY <2>1, <2>2, <2>3, <1>1 DEF PipeLines
<1>8. Promise!Next
  <2>1. \A c \in Channels : rpc[c] # "print" /\ rpc'[c] # "print"
    BY <1>6 DEF PipePlaces
  <2>2. \A c \in Channels : Past(c) = took[c] /\ Past(c)' = Past(c)
    BY <2>1, <1>1 DEF Past, PipeLines
  <2>3. Past(d) = Len(sent[d])
    BY <2>2, <1>2
  <2>4. Over(d)'
    <3>1. Len(got'[d]) = took[d] + 1
      BY <1>4, <1>5 DEF PipeLines
    <3> QED
      BY <3>1, <1>1, <1>2 DEF Over
  <2>5. \A c \in Channels : c # d => Over(c)' = Over(c)
    BY <1>1, <1>5 DEF Over, PipeLines
  <2>6. \/ "again" \in Faults /\ got[d] # <<>> /\ got' = [got EXCEPT ![d] = Append(@, Last(@))]
        \/ "blank" \in Faults /\ got' = [got EXCEPT ![d] = Append(@, Blank)]
    <3>1. kind = "drain" => "again" \in Faults
      BY DEF Faults, Fifos
    <3>2. kind # "drain" => "blank" \in Faults
      BY <1>1 DEF Faults, Fifos
    <3> QED
      BY <3>1, <3>2, <1>3
  <2> QED
    BY <2>2, <2>3, <2>4, <2>5, <2>6, <1>1, KindFacts, TrailStep
<1> QED
  BY <1>6, <1>7, <1>8 DEF Allowed

\* Every step of the programs with pipes.
LEMMA PipeSteps ==
    ASSUME MailboxAssumption, kind \in Piped, PipeInv, Next
    PROVE  PipeInv' /\ Allowed
<1> USE DEF PipeInv
<1>0. NoPrint
  BY DEF NoPrint, PipePlaces
<1>1. ASSUME NEW d \in Channels, WriteFifo(d) PROVE PipeInv' /\ Allowed
  <2>1. PICK line \in Typed(d) : Put(d, <<line>>) /\ spc' = [spc EXCEPT ![d] = IF IsQuit(line) THEN "done" ELSE "write"]
    BY <1>1 DEF WriteFifo
  <2>2. kind' = kind /\ kills' = kills /\ rpc' = rpc /\ got' = got /\ took' = took /\ spc[d] = "write"
    BY <1>1 DEF WriteFifo, recvVars
  <2>3. <<line>> \in [1 .. 1 -> Line] /\ 1 \in 1 .. MaxLines
    BY MailboxAssumption DEF Typed, Line
  <2>4. PICK place \in {"done", "write"} : spc' = [spc EXCEPT ![d] = place]
    BY <2>1
  <2>5. PipePlaces' /\ spc'[d] \in {"write", "done"} /\ \A e \in Channels : e # d => spc'[e] = spc[e]
    BY <2>2, <2>4 DEF PipePlaces
  <2> QED
    BY <2>1, <2>2, <2>3, <2>5, PutKeeps
<1>2. ASSUME NEW d \in Channels, WriteOnce(d) PROVE PipeInv' /\ Allowed
  <2>1. PICK n \in 1 .. MaxLines : Put(d, [i \in 1 .. n |-> <<d, i>>])
    <3>1. 1 \in 1 .. MaxLines /\ MaxLines \in 1 .. MaxLines
      BY MailboxAssumption
    <3> QED
      BY <1>2, <3>1 DEF WriteOnce
  <2>2. kind' = kind /\ kills' = kills /\ rpc' = rpc /\ got' = got /\ took' = took /\ spc[d] = "write"
        /\ spc' = [spc EXCEPT ![d] = "done"]
    BY <1>2 DEF WriteOnce, recvVars
  <2>3. n \in Nat /\ [i \in 1 .. n |-> <<d, i>>] \in [1 .. n -> Line]
    BY MailboxAssumption DEF Line, QuitNo
  <2>4. PipePlaces' /\ spc'[d] \in {"write", "done"} /\ \A e \in Channels : e # d => spc'[e] = spc[e]
    BY <2>2 DEF PipePlaces
  <2> QED
    BY <2>1, <2>2, <2>3, <2>4, PutKeeps
<1>3. ASSUME NEW d \in Channels, WriteOn(d) PROVE PipeInv' /\ Allowed
  <2>1. Put(d, <<<<d, 1>>>>) /\ kind' = kind /\ kills' = kills /\ rpc' = rpc /\ got' = got /\ took' = took
        /\ spc' = spc /\ spc[d] = "write"
    BY <1>3 DEF WriteOn, recvVars
  <2>2. <<<<d, 1>>>> \in [1 .. 1 -> Line] /\ 1 \in 1 .. MaxLines
    BY MailboxAssumption DEF Line, QuitNo
  <2>3. PipePlaces'
    BY <2>1 DEF PipePlaces
  <2> QED
    BY <2>1, <2>2, <2>3, PutKeeps
<1>4. ASSUME NEW d \in Channels, BrokenPipe(d) \/ Open(d) PROVE PipeInv' /\ Allowed
  <2>1. UNCHANGED <<kind, kills, sent, got, took, pipe>>
    BY <1>4 DEF BrokenPipe, Open, recvVars
  <2>2. PipePlaces'
    BY <1>4 DEF BrokenPipe, Open, PipePlaces
  <2>3. \A e \in Channels : AtEnd(e) => AtEnd(e)'
    <3>1. ASSUME BrokenPipe(d) PROVE rpc' = rpc /\ spc' = [spc EXCEPT ![d] = "killed"]
      BY <3>1 DEF BrokenPipe
    <3>2. ASSUME Open(d) PROVE rpc[d] = "open" /\ rpc' = [rpc EXCEPT ![d] = "read"] /\ spc' = [spc EXCEPT ![d] = "write"]
      BY <3>2 DEF Open
    <3> QED
      BY <1>4, <2>1, <3>1, <3>2 DEF AtEnd, PipePlaces
  <2>4. kind = "drain" => \A e \in Channels : rpc'[e] = "read" /\ spc'[e] # "write" => spc'[e] = "done" /\ sent'[e] # <<>>
    <3> SUFFICES ASSUME kind = "drain", NEW e \in Channels, rpc'[e] = "read", spc'[e] # "write"
                 PROVE  spc'[e] = "done" /\ sent'[e] # <<>>
      OBVIOUS
    <3>1. CASE Open(d)
      <4>1. rpc' = [rpc EXCEPT ![d] = "read"] /\ spc' = [spc EXCEPT ![d] = "write"]
        BY <3>1 DEF Open
      <4> QED
        BY <2>1, <4>1 DEF PipeLines, PipePlaces
    <3>2. CASE BrokenPipe(d)
      <4>1. rpc' = rpc /\ rpc[d] # "read" /\ spc' = [spc EXCEPT ![d] = "killed"]
        BY <3>2 DEF BrokenPipe, ReaderThere
      <4> QED
        BY <2>1, <4>1 DEF PipeLines, PipePlaces
    <3> QED
      BY <1>4, <3>1, <3>2
  <2>5. PipeLines'
    BY <2>1, <2>3, <2>4 DEF PipeLines
  <2>6. NoPrint'
    BY <2>2 DEF NoPrint, PipePlaces
  <2> QED
    BY <1>0, <2>1, <2>2, <2>5, <2>6, IdleStep DEF Allowed
<1>5. ASSUME NEW d \in Channels, Kill(d) PROVE PipeInv' /\ Allowed
  <2>1. /\ kind \in Fifos /\ UNCHANGED <<kind, sent, got, took, pipe, spc>> /\ rpc' = [rpc EXCEPT ![d] = "killed"]
        /\ kills' = kills + 1
    BY <1>5 DEF Kill, Piped, Fifos
  <2>2. PipePlaces'
    BY <2>1 DEF PipePlaces
  <2>3. PipeLines'
    <3>1. \A e \in Channels : AtEnd(e) => AtEnd(e)'
      BY <2>1 DEF AtEnd, PipePlaces
    <3>2. kind # "drain"
      BY <2>1 DEF Fifos
    <3> QED
      BY <2>1, <3>1, <3>2 DEF PipeLines
  <2>4. \A e \in Channels : Past(e)' = Past(e) /\ Over(e)' = Over(e)
    <3>1. \A e \in Channels : rpc[e] # "print" /\ rpc'[e] # "print"
      BY <2>2 DEF PipePlaces
    <3> QED
      BY <2>1, <3>1 DEF Past, Over
  <2> QED
    BY <2>1, <2>2, <2>3, <2>4, KindFacts, DieStep DEF Allowed
<1>6. ASSUME NEW d \in Channels, Post(d) \/ Receive(d) \/ Show(d) \/ RemoveQueue(d) PROVE FALSE
  BY <1>6, KindFacts DEF Post, Receive, Show, RemoveQueue, PipePlaces
<1>7. ASSUME SharedSender \/ SharedReceiver \/ Create PROVE FALSE
  <2>1. 1 \in Channels
    BY DEF Channels
  <2>2. spc[1] \in {"open", "write", "done", "killed"} /\ rpc[1] \in {"open", "read", "spin", "done", "killed"}
    BY <2>1 DEF PipePlaces
  <2> QED
    BY <1>7, <2>2, KindFacts
       DEF SharedSender, SharedReceiver, Create, Begin, Copy, Trim, SenderWaits, SenderReleases, SenderDeletes,
           Display, Test, ReceiverWaits, ReceiverReleases
<1>8. ASSUME Setup PROVE PipeInv' /\ Allowed
  <2>1. UNCHANGED <<kind, kills, sent, got, took, pipe, spc, rpc>>
    BY <1>7, <1>8 DEF Setup, recvVars
  <2>2. PipeInv' /\ NoPrint'
    BY <2>1, <1>0 DEF PipePlaces, PipeLines, AtEnd, NoPrint
  <2> QED
    BY <1>0, <2>1, <2>2, IdleStep DEF Allowed
<1> QED
  BY <1>1, <1>2, <1>3, <1>4, <1>5, <1>6, <1>7, <1>8, ReadKeeps, NothingKeeps DEF Next, Sender, Receiver

-----------------------------------------------------------------------------
(* Message queues *)

Message == [type : Channels, line : Line]

\* at[i] is the number of the i-th message among the lines of its type: each
\* type stands in the order in which it was sent, and the messages are the
\* lines that have not been taken.
Matched(at, q, n, s, ls, lg) ==
    /\ at \in [1 .. n -> Nat]
    /\ \A i \in 1 .. n : /\ at[i] > lg[q[i].type] /\ at[i] <= ls[q[i].type]
                         /\ q[i].line = s[q[i].type][at[i]]
    /\ \A i, j \in 1 .. n : q[i].type = q[j].type /\ i < j => at[i] < at[j]
    /\ \A t \in Channels, k \in Nat : k > lg[t] /\ k <= ls[t] => \E i \in 1 .. n : q[i].type = t /\ at[i] = k

\* The lengths of the sequences of all channels.
Lens(s) == [t \in Channels |-> Len(s[t])]

\* A receiver holds the last line that it took until it has displayed it.
QueueLines ==
    /\ sent \in [Channels -> Seq(Line)] /\ got \in [Channels -> Seq(Shown)]
    /\ took \in [Channels -> Nat] /\ held \in [Channels -> Shown]
    /\ mq \in Seq(Message)
    /\ \A d \in Channels : Len(got[d]) <= took[d] /\ took[d] <= Len(sent[d])
    /\ \A d \in Channels : rpc[d] = "print" => Len(got[d]) < took[d] /\ held[d] = sent[d][took[d]]
    /\ IF mqUp THEN \E at : Matched(at, mq, Len(mq), sent, Lens(sent), took) ELSE mq = <<>>

QueuePlaces ==
    /\ spc \in [Channels -> {"write", "done"}]
    /\ rpc \in [Channels -> {"read", "print", "remove", "done"}]
    /\ mqUp \in BOOLEAN

QueueInv == QueuePlaces /\ QueueLines

\* The facts about Append, and about its prefixes.
IsAppended(a, s, e, n) == Len(a) = n + 1 /\ a[n + 1] = e /\ \A j \in 1 .. n : a[j] = s[j]
LEMMA Appended ==
    ASSUME NEW S, NEW s \in Seq(S), NEW e \in S, NEW n \in Nat, n = Len(s)
    PROVE  \E a \in Seq(S) : a = Append(s, e) /\ IsAppended(a, s, e, n)
<1>1. /\ Append(s, e) \in Seq(S) /\ Len(Append(s, e)) = n + 1 /\ Append(s, e)[n + 1] = e
      /\ \A j \in 1 .. n : Append(s, e)[j] = s[j]
  BY AppendProperties
<1> QED
  BY <1>1, Zenon DEF IsAppended

\* A sequence without its i-th element.
IsRemoved(z, s, n, i) == Len(z) = n - 1 /\ \A j \in 1 .. n - 1 : z[j] = IF j < i THEN s[j] ELSE s[j + 1]
LEMMA Removed ==
    ASSUME NEW S, NEW s \in Seq(S), NEW n \in Nat, n = Len(s), NEW i \in 1 .. n
    PROVE  \E z \in Seq(S) : z = RemoveAt(s, i) /\ IsRemoved(z, s, n, i)
<1>1. \A j \in 1 .. n : s[j] \in S
  BY ElementOfSeq
<1>2. PICK x \in Seq(S) : x = SubSeq(s, 1, i - 1) /\ IsSlice(x, s, i - 1)
  <2>1. i - 1 \in Nat /\ \A j \in 1 .. i - 1 : s[j] \in S
    BY <1>1
  <2> QED
    BY <2>1, SliceOf
<1>3. PICK y \in Seq(S) : y = SubSeq(s, i + 1, n) /\ Len(y) = n - i /\ \A j \in 1 .. n - i : y[j] = s[j + i]
  <2>1. i + 1 \in Int /\ n \in Int /\ \A j \in i + 1 .. n : s[j] \in S
    BY <1>1
  <2>2. /\ SubSeq(s, i + 1, n) \in Seq(S)
        /\ Len(SubSeq(s, i + 1, n)) = IF i + 1 <= n THEN n - (i + 1) + 1 ELSE 0
        /\ \A j \in 1 .. n - (i + 1) + 1 : SubSeq(s, i + 1, n)[j] = s[i + 1 + j - 1]
    BY <2>1, SubSeqProperties
  <2>3. PICK y : y = SubSeq(s, i + 1, n)
    OBVIOUS
  <2>4. /\ y \in Seq(S) /\ Len(y) = IF i + 1 <= n THEN n - (i + 1) + 1 ELSE 0
        /\ \A j \in 1 .. n - (i + 1) + 1 : y[j] = s[i + 1 + j - 1]
    BY <2>2, <2>3, Zenon
  <2>5. Len(y) = n - i
    BY <2>4
  <2>6. \A j \in 1 .. n - i : j \in 1 .. n - (i + 1) + 1 /\ i + 1 + j - 1 = j + i
    OBVIOUS
  <2>7. \A j \in 1 .. n - i : y[j] = s[j + i]
    BY <2>4, <2>6
  <2> QED
    BY <2>3, <2>4, <2>5, <2>7
<1>4. RemoveAt(s, i) = x \o y
  BY <1>2, <1>3 DEF RemoveAt
<1>5. PICK z \in Seq(S) : z = x \o y /\ Len(z) = n - 1
                          /\ \A j \in 1 .. n - 1 : z[j] = IF j <= i - 1 THEN x[j] ELSE y[j - (i - 1)]
  <2>1. /\ x \o y \in Seq(S) /\ Len(x \o y) = Len(x) + Len(y)
        /\ \A j \in 1 .. Len(x) + Len(y) : (x \o y)[j] = IF j <= Len(x) THEN x[j] ELSE y[j - Len(x)]
    BY ConcatProperties
  <2>2. Len(x) = i - 1 /\ Len(x) + Len(y) = n - 1
    <3>1. Len(x) = i - 1 /\ Len(y) = n - i
      BY <1>2, <1>3, Zenon DEF IsSlice
    <3> QED
      BY <3>1
  <2>3. PICK z \in Seq(S) : z = x \o y /\ Len(z) = n - 1
    BY <2>1, <2>2
  <2>4. \A j \in 1 .. n - 1 : z[j] = IF j <= Len(x) THEN x[j] ELSE y[j - Len(x)]
    BY <2>1, <2>2, <2>3, Zenon
  <2>5. \A j \in 1 .. n - 1 : z[j] = IF j <= i - 1 THEN x[j] ELSE y[j - (i - 1)]
    BY <2>4, <2>2, Zenon
  <2> QED
    BY <2>3, <2>5, Zenon
<1>6. \A j \in 1 .. n - 1 : z[j] = IF j < i THEN s[j] ELSE s[j + 1]
  <2> SUFFICES ASSUME NEW j \in 1 .. n - 1 PROVE z[j] = IF j < i THEN s[j] ELSE s[j + 1]
    OBVIOUS
  <2>1. CASE j < i
    BY <2>1, <1>2, <1>5 DEF IsSlice
  <2>2. CASE ~(j < i)
    <3>1. z[j] = y[j - (i - 1)] /\ j - (i - 1) \in 1 .. n - i /\ j - (i - 1) + i = j + 1
      BY <2>2, <1>5
    <3>2. y[j - (i - 1)] = s[j - (i - 1) + i]
      BY <3>1, <1>3
    <3> QED
      BY <3>1, <3>2, <2>2
  <2> QED
    BY <2>1, <2>2
<1> QED
  BY <1>4, <1>5, <1>6 DEF IsRemoved

LEMMA Lengths ==
    ASSUME NEW s \in [Channels -> Seq(Line)]
    PROVE  Lens(s) \in [Channels -> Nat] /\ \A t \in Channels : Lens(s)[t] = Len(s[t])
<1>1. \A t \in Channels : Len(s[t]) \in Nat
  BY LenProperties
<1> QED
  BY <1>1 DEF Lens

\* q2 is q with one more message of type c, s2 is s with its line.
IsPosted(q, n, s, ls, c, q2, s2, ls2) ==
    /\ \A i \in 1 .. n : q[i].type \in Channels
    /\ \A i \in 1 .. n : q2[i] = q[i]
    /\ q2[n + 1].type = c
    /\ \A t \in Channels : \A k \in 1 .. ls[t] : s2[t][k] = s[t][k]
    /\ s2[c][ls[c] + 1] = q2[n + 1].line
    /\ ls2 = [ls EXCEPT ![c] = @ + 1]

\* A new message is the last one of its type.
LEMMA MatchedPost ==
    ASSUME NEW n \in Nat, NEW ls \in [Channels -> Nat], NEW lg \in [Channels -> Nat], NEW q, NEW s,
           NEW c \in Channels, lg[c] <= ls[c], NEW at, Matched(at, q, n, s, ls, lg),
           NEW q2, NEW s2, NEW ls2, IsPosted(q, n, s, ls, c, q2, s2, ls2)
    PROVE  \E at2 : Matched(at2, q2, n + 1, s2, ls2, lg)
<1>0. /\ \A i \in 1 .. n : q[i].type \in Channels
      /\ \A i \in 1 .. n : q2[i] = q[i]
      /\ q2[n + 1].type = c
      /\ \A t \in Channels : \A k \in 1 .. ls[t] : s2[t][k] = s[t][k]
      /\ s2[c][ls[c] + 1] = q2[n + 1].line
      /\ ls2 = [ls EXCEPT ![c] = @ + 1]
  BY DEF IsPosted
<1> USE <1>0
<1>1. /\ at \in [1 .. n -> Nat]
      /\ \A i \in 1 .. n : /\ at[i] > lg[q[i].type] /\ at[i] <= ls[q[i].type]
                           /\ q[i].line = s[q[i].type][at[i]]
      /\ \A i, j \in 1 .. n : q[i].type = q[j].type /\ i < j => at[i] < at[j]
      /\ \A t \in Channels, k \in Nat : k > lg[t] /\ k <= ls[t] => \E i \in 1 .. n : q[i].type = t /\ at[i] = k
  BY DEF Matched
<1> DEFINE at2 == [i \in 1 .. n + 1 |-> IF i <= n THEN at[i] ELSE ls[c] + 1]
<1>2. at2 \in [1 .. n + 1 -> Nat] /\ at2[n + 1] = ls[c] + 1 /\ \A i \in 1 .. n : at2[i] = at[i]
  BY <1>1
<1> HIDE DEF at2
<1>3. \A i \in 1 .. n + 1 : i \in 1 .. n \/ i = n + 1
  OBVIOUS
<1>4. \A i \in 1 .. n + 1 : /\ at2[i] > lg[q2[i].type] /\ at2[i] <= ls2[q2[i].type]
                            /\ q2[i].line = s2[q2[i].type][at2[i]]
  <2> SUFFICES ASSUME NEW i \in 1 .. n + 1
               PROVE  /\ at2[i] > lg[q2[i].type] /\ at2[i] <= ls2[q2[i].type]
                      /\ q2[i].line = s2[q2[i].type][at2[i]]
    OBVIOUS
  <2>1. CASE i = n + 1
    BY <2>1, <1>2
  <2>2. CASE i \in 1 .. n
    <3>1. PICK t \in Channels : q[i].type = t /\ q2[i] = q[i]
      BY <2>2
    <3>2. at[i] \in Nat /\ at2[i] = at[i] /\ at[i] > lg[t] /\ at[i] <= ls[t] /\ q[i].line = s[t][at[i]]
      BY <2>2, <3>1, <1>1, <1>2
    <3>3. at[i] \in 1 .. ls[t] /\ at[i] <= ls2[t]
      BY <3>2
    <3>4. s2[t][at[i]] = s[t][at[i]]
      BY <3>3
    <3> QED
      BY <3>1, <3>2, <3>3, <3>4, Zenon
  <2> QED
    BY <2>1, <2>2, <1>3
<1>5. \A i, j \in 1 .. n + 1 : q2[i].type = q2[j].type /\ i < j => at2[i] < at2[j]
  <2> SUFFICES ASSUME NEW i \in 1 .. n + 1, NEW j \in 1 .. n + 1, q2[i].type = q2[j].type, i < j
               PROVE  at2[i] < at2[j]
    OBVIOUS
  <2>1. i \in 1 .. n /\ q2[i] = q[i] /\ at2[i] = at[i]
    BY <1>2
  <2>2. CASE j = n + 1
    <3>1. q[i].type = c /\ at2[j] = ls[c] + 1
      BY <2>1, <2>2, <1>2
    <3>2. at[i] \in Nat /\ at[i] <= ls[c]
      BY <2>1, <3>1, <1>1
    <3> QED
      BY <2>1, <3>1, <3>2
  <2>3. CASE j \in 1 .. n
    BY <2>1, <2>3, <1>1, <1>2
  <2> QED
    BY <2>2, <2>3, <1>3
<1>6. \A t \in Channels, k \in Nat : k > lg[t] /\ k <= ls2[t] => \E i \in 1 .. n + 1 : q2[i].type = t /\ at2[i] = k
  <2> SUFFICES ASSUME NEW t \in Channels, NEW k \in Nat, k > lg[t], k <= ls2[t]
               PROVE  \E i \in 1 .. n + 1 : q2[i].type = t /\ at2[i] = k
    OBVIOUS
  <2>1. CASE k <= ls[t]
    <3>1. PICK i \in 1 .. n : q[i].type = t /\ at[i] = k
      BY <2>1, <1>1
    <3>2. i \in 1 .. n + 1 /\ q2[i] = q[i] /\ at2[i] = at[i]
      BY <1>2
    <3> QED
      BY <3>1, <3>2
  <2>2. CASE ~(k <= ls[t])
    <3>1. t = c /\ k = ls[c] + 1
      BY <2>2
    <3>2. n + 1 \in 1 .. n + 1 /\ q2[n + 1].type = t /\ at2[n + 1] = k
      BY <3>1, <1>2
    <3> QED
      BY <3>2
  <2> QED
    BY <2>1, <2>2
<1>7. Matched(at2, q2, n + 1, s2, ls2, lg)
  BY <1>2, <1>4, <1>5, <1>6 DEF Matched
<1> QED
  BY <1>7, Zenon

\* The first message of a type is the line that is taken next.
IsFirst(i, q, n, c) == q[i].type = c /\ \A j \in 1 .. n : q[j].type = c => i <= j
IsNext(i, at, q, s, ls, lg, c) == at[i] = lg[c] + 1 /\ lg[c] + 1 <= ls[c] /\ q[i].line = s[c][lg[c] + 1]
LEMMA FirstIsNext ==
    ASSUME NEW n \in Nat, NEW q, NEW s, NEW ls \in [Channels -> Nat], NEW lg \in [Channels -> Nat],
           NEW at, Matched(at, q, n, s, ls, lg), NEW c \in Channels,
           NEW i \in 1 .. n, IsFirst(i, q, n, c)
    PROVE  IsNext(i, at, q, s, ls, lg, c)
<1>1. at[i] \in Nat /\ at[i] > lg[c] /\ at[i] <= ls[c] /\ q[i].line = s[c][at[i]]
  BY DEF Matched, IsFirst
<1>2. lg[c] + 1 \in Nat /\ lg[c] + 1 > lg[c] /\ lg[c] + 1 <= ls[c]
  BY <1>1
<1>3. PICK j \in 1 .. n : q[j].type = c /\ at[j] = lg[c] + 1
  BY <1>2 DEF Matched
<1>4. i = j \/ at[i] < at[j]
  <2>1. i <= j /\ q[i].type = q[j].type
    BY <1>3 DEF IsFirst
  <2> QED
    BY <2>1, <1>3 DEF Matched
<1>5. at[i] = lg[c] + 1
  BY <1>1, <1>3, <1>4
<1> QED
  BY <1>1, <1>2, <1>5 DEF IsNext

\* q2 is q without its i-th message, of type c.
IsFetched(q, n, i, c, q2) ==
    /\ \A j \in 1 .. n : q[j].type \in Channels
    /\ q[i].type = c
    /\ \A j \in 1 .. n - 1 : q2[j] = IF j < i THEN q[j] ELSE q[j + 1]

\* When it is taken, the others keep their places.
LEMMA MatchedFetch ==
    ASSUME NEW n \in Nat, NEW ls \in [Channels -> Nat], NEW lg \in [Channels -> Nat], NEW q, NEW s,
           NEW at, Matched(at, q, n, s, ls, lg), NEW c \in Channels,
           NEW i \in 1 .. n, at[i] = lg[c] + 1, NEW q2, IsFetched(q, n, i, c, q2),
           NEW lg2, lg2 = [lg EXCEPT ![c] = @ + 1]
    PROVE  \E at2 : Matched(at2, q2, n - 1, s, ls, lg2)
<1>0. /\ \A j \in 1 .. n : q[j].type \in Channels
      /\ q[i].type = c
      /\ \A j \in 1 .. n - 1 : q2[j] = IF j < i THEN q[j] ELSE q[j + 1]
  BY DEF IsFetched
<1> USE <1>0
<1>1. /\ at \in [1 .. n -> Nat]
      /\ \A j \in 1 .. n : /\ at[j] > lg[q[j].type] /\ at[j] <= ls[q[j].type]
                           /\ q[j].line = s[q[j].type][at[j]]
      /\ \A j, k \in 1 .. n : q[j].type = q[k].type /\ j < k => at[j] < at[k]
      /\ \A t \in Channels, k \in Nat : k > lg[t] /\ k <= ls[t] => \E j \in 1 .. n : q[j].type = t /\ at[j] = k
  BY DEF Matched
<1> DEFINE old == [j \in 1 .. n - 1 |-> IF j < i THEN j ELSE j + 1]
           at2 == [j \in 1 .. n - 1 |-> at[old[j]]]
<1>2. \A j \in 1 .. n - 1 : old[j] \in 1 .. n /\ old[j] # i /\ q2[j] = q[old[j]] /\ at2[j] = at[old[j]]
  OBVIOUS
<1>3. \A j, k \in 1 .. n - 1 : j < k => old[j] < old[k]
  OBVIOUS
<1>4. \A k \in 1 .. n : k # i => \E j \in 1 .. n - 1 : old[j] = k
  <2> SUFFICES ASSUME NEW k \in 1 .. n, k # i PROVE \E j \in 1 .. n - 1 : old[j] = k
    OBVIOUS
  <2>1. CASE k < i
    <3>1. k \in 1 .. n - 1 /\ old[k] = k
      BY <2>1
    <3> QED
      BY <3>1
  <2>2. CASE k > i
    <3>1. k - 1 \in 1 .. n - 1 /\ old[k - 1] = k
      BY <2>2
    <3> QED
      BY <3>1
  <2> QED
    BY <2>1, <2>2
<1>5. at2 \in [1 .. n - 1 -> Nat]
  BY <1>1, <1>2
<1> HIDE DEF old, at2
<1>6. \A k \in 1 .. n : k # i /\ q[k].type = c => at[k] > lg[c] + 1
  <2> SUFFICES ASSUME NEW k \in 1 .. n, k # i, q[k].type = c PROVE at[k] > lg[c] + 1
    OBVIOUS
  <2>1. at[k] \in Nat /\ at[k] > lg[c]
    BY <1>1
  <2>2. at[k] # at[i]
    <3>1. at[k] < at[i] \/ at[i] < at[k]
      BY <1>1
    <3> QED
      BY <3>1, <1>1
  <2> QED
    BY <2>1, <2>2
<1>7. \A j \in 1 .. n - 1 : /\ at2[j] > lg2[q2[j].type] /\ at2[j] <= ls[q2[j].type]
                            /\ q2[j].line = s[q2[j].type][at2[j]]
  <2> SUFFICES ASSUME NEW j \in 1 .. n - 1
               PROVE  /\ at2[j] > lg2[q2[j].type] /\ at2[j] <= ls[q2[j].type]
                      /\ q2[j].line = s[q2[j].type][at2[j]]
    OBVIOUS
  <2>1. PICK k \in 1 .. n : k = old[j] /\ k # i /\ q2[j] = q[k] /\ at2[j] = at[k]
    BY <1>2
  <2>2. PICK t \in Channels : t = q[k].type
    OBVIOUS
  <2>3. at[k] > lg[t] /\ at[k] <= ls[t] /\ q[k].line = s[t][at[k]] /\ at[k] \in Nat
    BY <2>2, <1>1
  <2>4. at[k] > lg2[t]
    BY <2>1, <2>2, <2>3, <1>6
  <2> QED
    BY <2>1, <2>2, <2>3, <2>4, Zenon
<1>8. \A j, k \in 1 .. n - 1 : q2[j].type = q2[k].type /\ j < k => at2[j] < at2[k]
  <2> SUFFICES ASSUME NEW j \in 1 .. n - 1, NEW k \in 1 .. n - 1, q2[j].type = q2[k].type, j < k
               PROVE  at2[j] < at2[k]
    OBVIOUS
  <2>1. PICK x \in 1 .. n, y \in 1 .. n : x = old[j] /\ y = old[k] /\ q2[j] = q[x] /\ q2[k] = q[y] /\ at2[j] = at[x] /\ at2[k] = at[y]
    BY <1>2
  <2>2. x < y /\ q[x].type = q[y].type
    BY <2>1, <1>3
  <2>3. at[x] < at[y]
    BY <2>2, <1>1, Zenon
  <2> QED
    BY <2>1, <2>3
<1>9. \A t \in Channels, k \in Nat : k > lg2[t] /\ k <= ls[t] => \E j \in 1 .. n - 1 : q2[j].type = t /\ at2[j] = k
  <2> SUFFICES ASSUME NEW t \in Channels, NEW k \in Nat, k > lg2[t], k <= ls[t]
               PROVE  \E j \in 1 .. n - 1 : q2[j].type = t /\ at2[j] = k
    OBVIOUS
  <2>1. k > lg[t] /\ (t = c => k # lg[c] + 1)
    OBVIOUS
  <2>2. PICK l \in 1 .. n : q[l].type = t /\ at[l] = k
    BY <2>1, <1>1
  <2>3. l # i
    BY <2>1, <2>2
  <2>4. PICK j \in 1 .. n - 1 : old[j] = l
    BY <2>3, <1>4
  <2> QED
    BY <2>2, <2>4, <1>2
<1>10. Matched(at2, q2, n - 1, s, ls, lg2)
  BY <1>5, <1>7, <1>8, <1>9 DEF Matched
<1> QED
  BY <1>10, Zenon

\* A set of numbers has a least one.
LEMMA SmallestOf ==
    ASSUME NEW S \in SUBSET Nat, S # {}
    PROVE  Min(S) \in S /\ \A y \in S : Min(S) <= y
<1>1. PICK x \in S : \A y \in S : ~(<<y, x>> \in OpToRel(<, Nat))
  BY NatLessThanWellFounded, WFMin
<1>2. \A y \in S : ~(y < x)
  <2>1. \A y, z \in Nat : y < z => <<y, z>> \in OpToRel(<, Nat)
    BY DEF OpToRel
  <2> QED
    BY <1>1, <2>1, Zenon
<1>3. \A y \in S : x <= y
  BY <1>2
<1> QED
  BY <1>3 DEF Min

\* Nothing is displayed after the end.
LEMMA QueueNotOver ==
    ASSUME QueueLines, NEW d \in Channels
    PROVE  /\ ~Over(d) /\ got[d] \in Seq(Shown) /\ sent[d] \in Seq(Line) /\ took[d] \in Nat
           /\ Len(got[d]) \in Nat /\ Len(sent[d]) \in Nat /\ Len(got[d]) <= took[d] /\ took[d] <= Len(sent[d])
<1>1. got[d] \in Seq(Shown) /\ sent[d] \in Seq(Line) /\ took[d] \in Nat /\ Len(got[d]) <= took[d] /\ took[d] <= Len(sent[d])
  BY DEF QueueLines
<1>2. Len(got[d]) \in Nat /\ Len(sent[d]) \in Nat
  BY <1>1, LenProperties
<1>3. ~(Len(got[d]) > took[d])
  BY <1>1, <1>2
<1> QED
  BY <1>1, <1>2, <1>3 DEF Over

\* msgsnd appends the line to the queue.
LEMMA PostKeeps ==
    ASSUME MailboxAssumption, kind \in Queues, QueueInv, NEW c \in Channels, Post(c)
    PROVE  QueueInv' /\ Allowed
<1> USE DEF QueueInv
<1>1. PICK t \in Channels, line \in Typed(c) :
          /\ mq' = Append(mq, [type |-> t, line |-> line])
          /\ sent' = [sent EXCEPT ![t] = Append(@, line)]
          /\ spc' = [spc EXCEPT ![c] = IF IsQuit(line) THEN "done" ELSE "write"]
  BY Zenon DEF Post
<1> line \in Line
  BY DEF Typed, Line
<1>2. /\ mqUp /\ mqUp' = mqUp /\ kind' = kind /\ kills' = kills /\ rpc' = rpc
      /\ got' = got /\ took' = took /\ held' = held
  BY DEF Post, recvVars
<1>3. PICK at : Matched(at, mq, Len(mq), sent, Lens(sent), took)
  BY <1>2 DEF QueueLines
<1>4. mq \in Seq(Message) /\ sent[t] \in Seq(Line) /\ sent \in [Channels -> Seq(Line)] /\ took \in [Channels -> Nat]
  BY DEF QueueLines
<1>5. PICK n \in Nat, m \in Nat : n = Len(mq) /\ m = Len(sent[t])
  BY <1>4, LenProperties
<1>6. PICK msg \in Message : msg = [type |-> t, line |-> line] /\ msg.type = t /\ msg.line = line
  <2>1. [type |-> t, line |-> line] \in Message
    BY DEF Message
  <2> QED
    BY <2>1
<1>7. PICK q2 \in Seq(Message) : q2 = Append(mq, msg) /\ IsAppended(q2, mq, msg, n)
  BY <1>4, <1>5, Appended
<1>8. PICK a \in Seq(Line) : a = Append(sent[t], line) /\ IsAppended(a, sent[t], line, m)
  <2>1. PICK s \in Seq(Line) : s = sent[t] /\ m = Len(s)
    BY <1>4, <1>5
  <2>2. PICK a \in Seq(Line) : a = Append(s, line) /\ IsAppended(a, s, line, m)
    BY <2>1, Appended
  <2> QED
    BY <2>1, <2>2
<1>9. mq' = q2 /\ sent' = [sent EXCEPT ![t] = a]
  BY <1>1, <1>6, <1>7, <1>8
<1>10. sent' \in [Channels -> Seq(Line)]
  BY <1>4, <1>9
<1>11. PICK ls \in [Channels -> Nat] : ls = Lens(sent)
  BY <1>4, Lengths
<1>12. Lens(sent') = [ls EXCEPT ![t] = @ + 1]
  BY <1>4, <1>5, <1>8, <1>9, <1>11 DEF Lens, IsAppended
<1>13. ls[t] = m /\ \A e \in Channels : ls[e] = Len(sent[e]) /\ \A k \in 1 .. ls[e] : sent'[e][k] = sent[e][k]
  <2>1. ls[t] = m /\ \A e \in Channels : ls[e] = Len(sent[e])
    BY <1>5, <1>11 DEF Lens
  <2> QED
    BY <2>1, <1>4, <1>8, <1>9 DEF IsAppended
<1>14. sent'[t][ls[t] + 1] = line
  BY <1>4, <1>8, <1>9, <1>13 DEF IsAppended
<1>15. \A i \in 1 .. n : mq[i].type \in Channels /\ q2[i] = mq[i]
  <2>1. \A i \in 1 .. n : mq[i] \in Message
    BY <1>4, <1>5, ElementOfSeq
  <2>2. \A x \in Message : x.type \in Channels
    BY DEF Message
  <2> QED
    BY <2>1, <2>2, <1>7 DEF IsAppended
<1>16. q2[n + 1] = msg /\ Len(q2) = n + 1
  BY <1>7 DEF IsAppended
<1>17. took[t] <= ls[t]
  BY <1>13 DEF QueueLines
<1>18. \E at2 : Matched(at2, q2, n + 1, sent', Lens(sent'), took)
  <2>1. Matched(at, mq, n, sent, ls, took)
    BY <1>3, <1>5, <1>11
  <2>2. q2[n + 1].type = t /\ sent'[t][ls[t] + 1] = q2[n + 1].line
    BY <1>6, <1>14, <1>16
  <2>3. PICK s2, ls2 : s2 = sent' /\ ls2 = Lens(sent')
    OBVIOUS
  <2>4. \E at2 : Matched(at2, q2, n + 1, s2, ls2, took)
    <3>1. \A i \in 1 .. n : mq[i].type \in Channels
      BY <1>15
    <3>2. \A i \in 1 .. n : q2[i] = mq[i]
      BY <1>15
    <3>3. \A e \in Channels : \A k \in 1 .. ls[e] : s2[e][k] = sent[e][k]
      BY <2>3, <1>13, Zenon
    <3>4. q2[n + 1].type = t /\ s2[t][ls[t] + 1] = q2[n + 1].line /\ ls2 = [ls EXCEPT ![t] = @ + 1]
      BY <2>2, <2>3, <1>12, Zenon
    <3>5. IsPosted(mq, n, sent, ls, t, q2, s2, ls2)
      BY <3>1, <3>2, <3>3, <3>4, Zenon DEF IsPosted
    <3> QED
      BY <2>1, <3>5, <1>4, <1>17, MatchedPost
  <2> QED
    BY <2>3, <2>4
<1>19. \A d \in Channels : Len(got'[d]) <= took'[d] /\ took'[d] <= Len(sent'[d])
  <2> SUFFICES ASSUME NEW d \in Channels PROVE Len(got[d]) <= took[d] /\ took[d] <= Len(sent'[d])
    BY <1>2
  <2>1. Len(got[d]) <= took[d] /\ took[d] <= Len(sent[d]) /\ took[d] \in Nat
    BY QueueNotOver
  <2>2. Len(sent'[d]) = Len(sent[d]) \/ Len(sent'[d]) = Len(sent[d]) + 1
    BY <1>4, <1>5, <1>8, <1>9 DEF IsAppended
  <2>3. PICK m1 \in Nat : m1 = Len(sent[d])
    BY QueueNotOver
  <2>4. took[d] <= m1 /\ took[d] <= m1 + 1
    BY <2>1, <2>3
  <2> QED
    BY ONLY <2>1, <2>2, <2>3, <2>4, Zenon
<1>20. \A d \in Channels : rpc'[d] = "print" => Len(got'[d]) < took'[d] /\ held'[d] = sent'[d][took'[d]]
  <2> SUFFICES ASSUME NEW d \in Channels, rpc[d] = "print"
               PROVE  Len(got[d]) < took[d] /\ held[d] = sent'[d][took[d]]
    BY <1>2
  <2>1. Len(got[d]) < took[d] /\ held[d] = sent[d][took[d]]
    BY DEF QueueLines
  <2>2. took[d] \in 1 .. ls[d]
    BY <2>1, <1>13, QueueNotOver
  <2> QED
    BY <2>1, <2>2, <1>13
<1>21. QueueLines'
  BY <1>2, <1>4, <1>9, <1>10, <1>16, <1>18, <1>19, <1>20 DEF QueueLines
<1>22. QueuePlaces'
  <2>1. PICK place \in {"done", "write"} : spc' = [spc EXCEPT ![c] = place]
    BY <1>1
  <2> QED
    BY <2>1, <1>2 DEF QueuePlaces
<1>23. Promise!Next
  <2>1. <<line>> \in [1 .. 1 -> Line] /\ 1 \in 1 .. MaxLines
    BY MailboxAssumption
  <2>2. Append(sent[t], line) = sent[t] \o <<line>>
    BY <1>4, AppendIsConcat
  <2>3. sent' = [sent EXCEPT ![t] = @ \o <<line>>]
    BY <2>2, <1>1
  <2>4. \A e \in Channels : Past(e)' = Past(e) /\ Over(e)' = Over(e)
    BY <1>2 DEF Past, Over
  <2> QED
    BY <2>1, <2>3, <2>4, <1>2, KindFacts, QueueNotOver, SendStep
<1> QED
  BY <1>21, <1>22, <1>23 DEF Allowed

\* msgrcv takes the first message of the type.
LEMMA ReceiveKeeps ==
    ASSUME kind \in Queues, QueueInv, NEW c \in Channels, Receive(c)
    PROVE  QueueInv' /\ Allowed
<1> USE DEF QueueInv
<1>1. PICK i : i = Min(OfType(c))
  OBVIOUS
<1>2. /\ held' = [held EXCEPT ![c] = mq[i].line] /\ mq' = RemoveAt(mq, i)
      /\ took' = [took EXCEPT ![c] = @ + 1] /\ rpc' = [rpc EXCEPT ![c] = "print"]
      /\ kind' = kind /\ kills' = kills /\ spc' = spc /\ sent' = sent /\ got' = got /\ mqUp' = mqUp
      /\ OfType(c) # {} /\ rpc[c] = "read"
  BY <1>1 DEF Receive
<1>3. PICK n \in Nat : n = Len(mq) /\ DOMAIN mq = 1 .. n
  BY LenProperties DEF QueueLines
<1>4. i \in 1 .. n /\ mq[i].type = c /\ IsFirst(i, mq, n, c)
  <2>1. OfType(c) \in SUBSET Nat
    BY <1>3 DEF OfType
  <2>2. i \in OfType(c) /\ \A j \in OfType(c) : i <= j
    BY <1>1, <1>2, <2>1, SmallestOf
  <2> QED
    BY <2>2, <1>3 DEF OfType, IsFirst
<1>5. mqUp
  <2>1. n # 0
    BY <1>4
  <2>2. mq # <<>>
    BY <2>1, <1>3
  <2> QED
    BY <2>2 DEF QueueLines
<1>6. mq \in Seq(Message) /\ sent \in [Channels -> Seq(Line)] /\ took \in [Channels -> Nat] /\ held \in [Channels -> Shown]
  BY DEF QueueLines
<1>7. PICK ls \in [Channels -> Nat] : ls = Lens(sent) /\ ls[c] = Len(sent[c])
  BY <1>6, Lengths
<1>8. PICK at : Matched(at, mq, n, sent, ls, took)
  BY <1>3, <1>5, <1>7 DEF QueueLines
<1>9. at[i] = took[c] + 1 /\ took[c] + 1 <= Len(sent[c]) /\ mq[i].line = sent[c][took[c] + 1]
  <2>1. IsNext(i, at, mq, sent, ls, took, c)
    BY <1>4, <1>6, <1>8, FirstIsNext
  <2> QED
    BY <2>1, <1>7 DEF IsNext
<1>10. PICK t \in Nat : t = took[c] /\ t + 1 <= Len(sent[c]) /\ Len(got[c]) <= t /\ Len(got[c]) \in Nat
  BY <1>6, <1>9, QueueNotOver
<1>11. took' \in [Channels -> Nat] /\ took'[c] = t + 1 /\ \A d \in Channels : d # c => took'[d] = took[d]
  BY <1>2, <1>6, <1>10
<1>12. mq[i].line \in Shown /\ held' \in [Channels -> Shown] /\ held'[c] = sent[c][t + 1]
  <2>1. mq[i] \in Message
    BY <1>3, <1>4, <1>6, ElementOfSeq
  <2>2. mq[i].line \in Shown
    BY <2>1 DEF Message, Shown
  <2> QED
    BY <2>2, <1>2, <1>6, <1>9, <1>10
<1>13. PICK q2 \in Seq(Message) : mq' = q2 /\ IsRemoved(q2, mq, n, i)
  <2>1. PICK q2 \in Seq(Message) : q2 = RemoveAt(mq, i) /\ IsRemoved(q2, mq, n, i)
    BY <1>3, <1>4, <1>6, Removed
  <2> QED
    BY <2>1, <1>2, Zenon
<1>14. \E at2 : Matched(at2, mq', Len(mq'), sent', Lens(sent'), took')
  <2>1. \A j \in 1 .. n : mq[j].type \in Channels
    <3>1. \A j \in 1 .. n : mq[j] \in Message
      BY <1>3, <1>6, ElementOfSeq
    <3> QED
      BY <3>1 DEF Message
  <2>2. IsFetched(mq, n, i, c, q2)
    BY <1>13, <2>1, <1>4, Zenon DEF IsFetched, IsRemoved
  <2>3. PICK lg2 : lg2 = [took EXCEPT ![c] = @ + 1]
    OBVIOUS
  <2>4. \E at2 : Matched(at2, q2, n - 1, sent, ls, lg2)
    BY <2>2, <2>3, <1>4, <1>6, <1>8, <1>9, MatchedFetch
  <2>5. mq' = q2 /\ Len(mq') = n - 1 /\ sent' = sent /\ Lens(sent') = ls /\ took' = lg2
    BY <1>2, <1>7, <1>13, <2>3 DEF IsRemoved
  <2> QED
    BY <2>4, <2>5
<1>15. \A d \in Channels : Len(got'[d]) <= took'[d] /\ took'[d] <= Len(sent'[d])
  <2> SUFFICES ASSUME NEW d \in Channels PROVE Len(got[d]) <= took'[d] /\ took'[d] <= Len(sent[d])
    BY <1>2
  <2>1. CASE d = c
    BY <2>1, <1>10, <1>11
  <2>2. CASE d # c
    BY <2>2, <1>11 DEF QueueLines
  <2> QED
    BY <2>1, <2>2
<1>16. \A d \in Channels : rpc'[d] = "print" => Len(got'[d]) < took'[d] /\ held'[d] = sent'[d][took'[d]]
  <2> SUFFICES ASSUME NEW d \in Channels, rpc'[d] = "print"
               PROVE  Len(got[d]) < took'[d] /\ held'[d] = sent[d][took'[d]]
    BY <1>2
  <2>1. CASE d = c
    <3>1. Len(got[c]) < t + 1
      BY <1>10
    <3> QED
      BY <2>1, <3>1, <1>11, <1>12, Zenon
  <2>2. CASE d # c
    <3>1. rpc[d] = "print" /\ held'[d] = held[d]
      BY <2>2, <1>2, <1>6 DEF QueuePlaces
    <3> QED
      BY <2>2, <3>1, <1>11 DEF QueueLines
  <2> QED
    BY <2>1, <2>2
<1>17. QueueLines'
  <2>1. got' \in [Channels -> Seq(Shown)]
    BY <1>2 DEF QueueLines
  <2> QED
    BY <2>1, <1>2, <1>5, <1>6, <1>11, <1>12, <1>13, <1>14, <1>15, <1>16 DEF QueueLines
<1>18. QueuePlaces'
  BY <1>2 DEF QueuePlaces
<1>19. Idle
  <2>1. \A d \in Channels : Over(d)' = Over(d)
    <3>1. \A d \in Channels : ~Over(d)
      BY QueueNotOver
    <3>2. \A d \in Channels : ~Over(d)'
      <4> SUFFICES ASSUME NEW d \in Channels PROVE ~(Len(got'[d]) > took'[d])
        BY DEF Over
      <4>1. Len(got'[d]) <= took'[d] /\ took'[d] \in Nat /\ Len(got'[d]) \in Nat
        BY <1>2, <1>11, <1>15, QueueNotOver
      <4> QED
        BY <4>1
    <3> QED
      BY <3>1, <3>2 DEF Over
  <2>2. \A d \in Channels : Past(d)' = Past(d)
    <3> SUFFICES ASSUME NEW d \in Channels PROVE Past(d)' = Past(d)
      OBVIOUS
    <3>1. CASE d = c
      <4>1. rpc'[c] = "print" /\ rpc[c] # "print"
        BY <1>2 DEF QueuePlaces
      <4>2. Past(c)' = t + 1 - 1 /\ Past(c) = t - 0
        BY <4>1, <1>10, <1>11 DEF Past
      <4> QED
        BY <3>1, <4>2
    <3>2. CASE d # c
      <4>1. rpc'[d] = rpc[d]
        BY <3>2, <1>2 DEF QueuePlaces
      <4> QED
        BY <3>2, <4>1, <1>11 DEF Past
    <3> QED
      BY <3>1, <3>2
  <2> QED
    BY <2>1, <2>2, <1>2 DEF Idle
<1> QED
  BY <1>17, <1>18, <1>19 DEF Allowed

\* What was taken is displayed, and is the next line of the channel.
LEMMA ShowKeeps ==
    ASSUME kind \in Queues, QueueInv, NEW c \in Channels, Show(c)
    PROVE  QueueInv' /\ Allowed
<1> USE DEF QueueInv
<1>1. PICK place \in {"read", "remove", "done"} : rpc' = [rpc EXCEPT ![c] = place]
  BY DEF Show
<1>2. /\ rpc[c] = "print" /\ got' = [got EXCEPT ![c] = Append(@, held[c])] /\ held' = [held EXCEPT ![c] = Blank]
      /\ kind' = kind /\ kills' = kills /\ spc' = spc /\ sent' = sent /\ took' = took /\ mq' = mq /\ mqUp' = mqUp
  BY DEF Show
<1>3. held \in [Channels -> Shown] /\ got \in [Channels -> Seq(Shown)] /\ took \in [Channels -> Nat]
  BY DEF QueueLines
<1>4. PICK t \in Nat, g \in Seq(Shown), n \in Nat, s \in Seq(Line) :
          t = took[c] /\ g = got[c] /\ n = Len(g) /\ n < t /\ s = sent[c] /\ t <= Len(s) /\ held[c] = s[t]
  <2>1. Len(got[c]) < took[c] /\ held[c] = sent[c][took[c]]
    BY <1>2 DEF QueueLines
  <2> QED
    BY <2>1, QueueNotOver
<1>5. PICK e \in Shown : e = held[c]
  BY <1>3
<1>6. PICK g2 \in Seq(Shown) : g2 = Append(g, e) /\ Len(g2) = n + 1
  <2>1. Append(g, e) \in Seq(Shown) /\ Len(Append(g, e)) = n + 1
    BY <1>4, AppendProperties
  <2> QED
    BY <2>1, Zenon
<1>7. got' = [got EXCEPT ![c] = g2] /\ got' \in [Channels -> Seq(Shown)] /\ got'[c] = g2
      /\ \A d \in Channels : d # c => got'[d] = got[d]
  BY <1>2, <1>3, <1>4, <1>5, <1>6
<1>8. \A d \in Channels : Len(got'[d]) <= took'[d] /\ took'[d] <= Len(sent'[d])
  <2> SUFFICES ASSUME NEW d \in Channels PROVE Len(got'[d]) <= took[d] /\ took[d] <= Len(sent[d])
    BY <1>2
  <2>1. CASE d = c
    <3>1. n + 1 <= t
      BY <1>4
    <3> QED
      BY ONLY <2>1, <3>1, <1>4, <1>6, <1>7, Zenon
  <2>2. CASE d # c
    BY <2>2, <1>7, QueueNotOver
  <2> QED
    BY <2>1, <2>2
<1>9. \A d \in Channels : rpc'[d] = "print" => Len(got'[d]) < took'[d] /\ held'[d] = sent'[d][took'[d]]
  <2> SUFFICES ASSUME NEW d \in Channels, rpc'[d] = "print"
               PROVE  Len(got'[d]) < took[d] /\ held'[d] = sent[d][took[d]]
    BY <1>2
  <2>1. d # c /\ rpc[d] = "print"
    BY <1>1 DEF QueuePlaces
  <2>2. got'[d] = got[d] /\ held'[d] = held[d]
    BY <2>1, <1>2, <1>3, <1>7
  <2> QED
    BY <2>1, <2>2 DEF QueueLines
<1>10. QueueLines'
  <2>1. held' \in [Channels -> Shown]
    <3>1. Blank \in Shown
      BY DEF Shown
    <3> QED
      BY <3>1, <1>2, <1>3
  <2>2. IF mqUp' THEN \E at : Matched(at, mq', Len(mq'), sent', Lens(sent'), took') ELSE mq' = <<>>
    BY <1>2 DEF QueueLines, Lens
  <2> QED
    BY <2>1, <2>2, <1>2, <1>7, <1>8, <1>9 DEF QueueLines
<1>11. QueuePlaces'
  BY <1>1, <1>2 DEF QueuePlaces
<1>12. Promise!Next
  <2>1. ~Over(c)
    BY QueueNotOver
  <2>2. Past(c) = t - 1 /\ Past(c)' = t /\ \A d \in Channels : d # c => Past(d)' = Past(d)
    <3>1. rpc[c] = "print" /\ rpc'[c] # "print" /\ \A d \in Channels : d # c => rpc'[d] = rpc[d]
      BY <1>1, <1>2 DEF QueuePlaces
    <3> QED
      BY <3>1, <1>2, <1>4 DEF Past
  <2>3. \A d \in Channels : Over(d)' = Over(d)
    <3>1. \A d \in Channels : ~Over(d)
      BY QueueNotOver
    <3>2. \A d \in Channels : ~Over(d)'
      <4> SUFFICES ASSUME NEW d \in Channels PROVE ~(Len(got'[d]) > took'[d])
        BY DEF Over
      <4>1. Len(got'[d]) \in Nat
        BY <1>7, LenProperties
      <4>2. Len(got'[d]) <= took'[d] /\ took'[d] \in Nat
        BY <1>2, <1>3, <1>8
      <4> QED
        BY <4>1, <4>2
    <3> QED
      BY <3>1, <3>2 DEF Over
  <2>4. t \in Past(c) + 1 .. Len(sent[c])
    BY <2>2, <1>4, QueueNotOver
  <2>5. got' = [got EXCEPT ![c] = @ \o SubSeq(sent[c], Past(c) + 1, t)]
    <3>1. PICK k \in Nat, l \in Nat : k = t - 1 /\ l = Len(s) /\ k + 1 = t /\ t <= l
      BY <1>4, LenProperties
    <3>2. \A j \in 1 .. 1 : s[k + j] \in Line
      <4>1. \A j \in 1 .. l : s[j] \in Line
        BY <3>1, ElementOfSeq
      <4>2. t \in 1 .. l
        BY <3>1
      <4> QED
        BY <3>1, <4>1, <4>2
    <3>3. PICK x \in Seq(Line) : x = SubSeq(s, k + 1, k + 1) /\ IsPart(x, s, k, 1)
      <4>1. 1 \in Nat
        OBVIOUS
      <4> QED
        BY <3>2, <4>1, PartOf
    <3>4. Len(x) = 1 /\ x[1] = e
      <4>1. Len(x) = 1 /\ x[1] = s[k + 1]
        BY <3>3 DEF IsPart
      <4> QED
        BY <4>1, <3>1, <1>4, <1>5
    <3>5. x = <<e>>
      <4>1. <<e>> \in Seq(Shown) /\ x \in Seq(Shown) /\ Len(<<e>>) = 1 /\ <<e>>[1] = e
        BY Widened DEF Shown
      <4>2. \A j \in 1 .. Len(x) : x[j] = <<e>>[j]
        BY <3>4, <4>1
      <4> QED
        BY <3>4, <4>1, <4>2, SeqEqual
    <3>6. Append(g, e) = g \o <<e>>
      BY AppendIsConcat
    <3>7. SubSeq(sent[c], Past(c) + 1, t) = x
      BY <2>2, <3>1, <3>3, <1>4
    <3> QED
      BY <3>5, <3>6, <3>7, <1>2, <1>4, <1>5
  <2>6. \A d \in Channels : Past(d)' = (IF d = c THEN t ELSE Past(d)) /\ Over(d)' = Over(d)
    BY <2>2, <2>3
  <2> QED
    BY <2>1, <2>4, <2>5, <2>6, <1>2, KindFacts, ArriveStep
<1> QED
  BY <1>10, <1>11, <1>12 DEF Allowed

\* The queue is removed with all that is in it.
LEMMA RemoveKeeps ==
    ASSUME kind \in Queues, QueueInv, NEW c \in Channels, RemoveQueue(c)
    PROVE  QueueInv' /\ Allowed
<1> USE DEF QueueInv
<1>1. /\ rpc[c] = "remove" /\ rpc' = [rpc EXCEPT ![c] = "done"] /\ mq' = <<>> /\ mqUp' = FALSE
      /\ kind' = kind /\ kills' = kills /\ spc' = spc /\ sent' = sent /\ got' = got /\ took' = took /\ held' = held
  BY DEF RemoveQueue, recvVars
<1>2. \A d \in Channels : rpc'[d] = "print" <=> rpc[d] = "print"
  BY <1>1 DEF QueuePlaces
<1>3. QueueLines'
  <2>1. <<>> \in Seq(Message)
    OBVIOUS
  <2> QED
    BY <2>1, <1>1, <1>2 DEF QueueLines
<1>4. QueuePlaces'
  BY <1>1 DEF QueuePlaces
<1>5. Idle
  BY <1>1, <1>2 DEF Idle, Past, Over
<1> QED
  BY <1>3, <1>4, <1>5 DEF Allowed

\* A receiver that is killed before it has displayed its line loses it.
LEMMA QueueKillKeeps ==
    ASSUME kind \in Queues, QueueInv, NEW c \in Channels, Kill(c)
    PROVE  QueueInv' /\ Allowed
<1> USE DEF QueueInv
<1>1. /\ kind = "msgq" /\ rpc' = [rpc EXCEPT ![c] = "read"] /\ kills' = kills + 1 /\ held' = [held EXCEPT ![c] = Blank]
      /\ kind' = kind /\ spc' = spc /\ sent' = sent /\ got' = got /\ took' = took /\ mq' = mq /\ mqUp' = mqUp
  BY KindFacts DEF Kill, Queues
<1>2. rpc'[c] # "print" /\ \A d \in Channels : d # c => rpc'[d] = rpc[d]
  BY <1>1 DEF QueuePlaces
<1>3. QueueLines'
  <2>1. Blank \in Shown /\ held \in [Channels -> Shown]
    BY DEF QueueLines, Shown
  <2>2. held' \in [Channels -> Shown] /\ \A d \in Channels : d # c => held'[d] = held[d]
    BY <2>1, <1>1
  <2>3. \A d \in Channels : rpc'[d] = "print" => Len(got'[d]) < took'[d] /\ held'[d] = sent'[d][took'[d]]
    BY <2>2, <1>1, <1>2 DEF QueueLines
  <2>4. IF mqUp' THEN \E at : Matched(at, mq', Len(mq'), sent', Lens(sent'), took') ELSE mq' = <<>>
    BY <1>1 DEF QueueLines, Lens
  <2> QED
    BY <2>2, <2>3, <2>4, <1>1 DEF QueueLines
<1>4. QueuePlaces'
  BY <1>1 DEF QueuePlaces
<1>5. Promise!Next
  <2>1. \A d \in Channels : Over(d)' = Over(d)
    BY <1>1 DEF Over
  <2>2. \A d \in Channels : d # c => Past(d)' = Past(d)
    BY <1>1, <1>2 DEF Past
  <2>3. \/ Past(c)' = Past(c)
        \/ kind = "msgq" /\ Past(c) < Len(sent[c]) /\ Past(c)' = Past(c) + 1
    <3>1. CASE rpc[c] = "print"
      <4>1. Past(c) = took[c] - 1 /\ Past(c)' = took[c] - 0
        BY <3>1, <1>1, <1>2 DEF Past
      <4>2. took[c] \in Nat /\ Len(sent[c]) \in Nat /\ took[c] <= Len(sent[c])
        BY QueueNotOver
      <4> QED
        BY <4>1, <4>2, <1>1
    <3>2. CASE rpc[c] # "print"
      BY <3>2, <1>1, <1>2 DEF Past
    <3> QED
      BY <3>1, <3>2
  <2> QED
    BY <2>1, <2>2, <2>3, <1>1, DieStep
<1> QED
  BY <1>3, <1>4, <1>5 DEF Allowed

\* Every step of the programs with queues.
LEMMA QueueSteps ==
    ASSUME MailboxAssumption, kind \in Queues, QueueInv, Next
    PROVE  QueueInv' /\ Allowed
<1> USE DEF QueueInv
<1>1. ASSUME NEW d \in Channels,
             WriteFifo(d) \/ WriteOnce(d) \/ WriteOn(d) \/ BrokenPipe(d) \/ Open(d) \/ ReadPipe(d) \/ ReadNothing(d)
      PROVE  FALSE
  <2>1. rpc[d] # "open"
    BY DEF QueuePlaces
  <2>2. kind \notin Piped /\ kind \notin Fifos
    BY KindFacts
  <2> QED
    BY <1>1, <2>1, <2>2 DEF WriteFifo, WriteOnce, WriteOn, BrokenPipe, Open, ReadPipe, ReadNothing, Piped, Fifos
<1>2. ASSUME SharedSender \/ SharedReceiver \/ Create PROVE FALSE
  <2>1. 1 \in Channels
    BY DEF Channels
  <2>2. spc[1] \in {"write", "done"} /\ rpc[1] \in {"read", "print", "remove", "done"}
    BY <2>1 DEF QueuePlaces
  <2> QED
    BY <1>2, <2>2, KindFacts
       DEF SharedSender, SharedReceiver, Create, Begin, Copy, Trim, SenderWaits, SenderReleases, SenderDeletes,
           Display, Test, ReceiverWaits, ReceiverReleases
<1>3. ASSUME Setup PROVE QueueInv' /\ Allowed
  <2>1. UNCHANGED <<kind, kills, sent, got, took, held, mq, mqUp, spc, rpc>>
    BY <1>2, <1>3 DEF Setup, recvVars
  <2>2. QueueInv'
    BY <2>1 DEF QueuePlaces, QueueLines, Lens
  <2>3. Idle
    BY <2>1 DEF Idle, Past, Over
  <2> QED
    BY <2>2, <2>3 DEF Allowed
<1> QED
  BY <1>1, <1>2, <1>3, PostKeeps, ReceiveKeeps, ShowKeeps, RemoveKeeps, QueueKillKeeps DEF Next, Sender, Receiver

-----------------------------------------------------------------------------
(* Shared memory with semaphores *)

SentNo == Len(sent[1])
TookNo == took[1]
Latest == sent[1][SentNo]
Writing == spc[1] \in {"write", "copy", "trim"}
Writer == spc[1] \in {"write", "copy", "trim", "release"}
Reader == rpc[1] \in {"read", "test", "release"}

SemPlaces ==
    /\ spc \in [Channels -> {"create", "wait", "write", "copy", "trim", "release", "delete", "done"}]
    /\ rpc \in [Channels -> {"create", "wait", "read", "test", "release", "done"}]
    /\ rpc[2] = "done"
    /\ alive \in BOOLEAN /\ gen \in Nat /\ val \in [0 .. 1 -> Nat]
    /\ semid \in [{"sender", "receiver"} -> Nat] /\ ini \in [{"sender", "receiver"} -> 0 .. 2]

\* What was sent and what was displayed: all but the latest line at least, and
\* after the set was deleted the latest line again.
History ==
    /\ sent \in [Channels -> Seq(Line)] /\ got \in [Channels -> Seq(Line)] /\ took \in [Channels -> Nat]
    /\ TookNo <= SentNo /\ SentNo <= TookNo + 1
    /\ TookNo <= Len(got[1]) /\ (TookNo < Len(got[1]) => spc[1] = "done" /\ TookNo = SentNo)
    /\ TookNo > 0 => Last(got[1]) = sent[1][TookNo]
    /\ SentNo > 0 => Latest = <<1, SentNo>> \/ IsQuit(Latest)

\* What is in the memory, and how far the sender has got.
Memory ==
    /\ Writing => SentNo = TookNo
    /\ SentNo > 0 /\ ~Writing => buf = Latest
    /\ SentNo > 0 /\ (Writing \/ spc[1] = "wait") => ~IsQuit(Latest)
    /\ spc[1] = "trim" => \E n \in 1 .. QuitNo : n \in {SentNo + 1, QuitNo} /\ buf = <<1, -1 - n>>
    /\ typed \in [Channels -> Nat] /\ typed[1] = IF spc[1] = "trim" THEN SentNo + 1 ELSE SentNo
    /\ spc[1] = "create" => SentNo = 0
    /\ spc[1] = "release" => SentNo = TookNo + 1
    /\ spc[1] \in {"release", "delete", "done"} => SentNo > 0
    /\ spc[1] \in {"delete", "done"} => IsQuit(Latest)
    /\ Reader => SentNo > 0

\* Until the sender has deleted the set, all use the same one, and one process
\* at most fills it in.
OneSet == spc[1] # "done" =>
    /\ spc[1] # "wait" => ini["sender"] = 2
    /\ rpc[1] # "wait" => ini["receiver"] = 2
    /\ ini["sender"] = 2 \/ ini["receiver"] = 2
    /\ ~alive => spc[1] = "create" /\ rpc[1] = "create"
    /\ spc[1] # "create" => semid["sender"] = gen
    /\ rpc[1] \notin {"create", "done"} => semid["receiver"] = gen

\* So long there is one token at most: counted by a semaphore, or held by the
\* sender or by the receiver.
OneToken == spc[1] # "done" =>
    /\ val[0] <= 1 /\ val[1] <= 1
    /\ val[0] = 1 => val[1] = 0 /\ ~Writer /\ ~Reader /\ SentNo = TookNo
    /\ val[1] = 1 => ~Writer /\ ~Reader /\ SentNo = TookNo + 1
    /\ Writer => ~Reader
    /\ ini["sender"] = 0 \/ ini["receiver"] = 0 => val[0] = 0 /\ val[1] = 0 /\ ~Writer /\ ~Reader /\ SentNo = 0
    /\ rpc[1] = "read" => SentNo = TookNo + 1
    /\ rpc[1] \in {"test", "release"} => SentNo = TookNo

SemInv == SemPlaces /\ History /\ Memory /\ OneSet /\ OneToken

LEMMA SemFacts ==
    /\ 1 \in Channels /\ 2 \in Channels /\ 0 \in 0 .. 1 /\ 1 \in 0 .. 1
    /\ "sender" \in {"sender", "receiver"} /\ "receiver" \in {"sender", "receiver"}
    /\ "sender" # "receiver" /\ Set!Sems = 0 .. 1
  BY DEF Channels, Set!Sems

LEMMA Counts ==
    ASSUME History
    PROVE  SentNo \in Nat /\ TookNo \in Nat /\ TookNo <= SentNo /\ Len(got[1]) \in Nat
  BY SemFacts, LenProperties DEF History, SentNo, TookNo

\* Steps that send and display nothing.
LEMMA HistoryKept ==
    ASSUME History, sent' = sent, got' = got, took' = took
    PROVE  /\ SentNo' = SentNo /\ TookNo' = TookNo /\ Latest' = Latest /\ SentNo \in Nat /\ TookNo \in Nat
           /\ (spc[1] = "done" => spc'[1] = "done") => History'
<1>1. SentNo' = SentNo /\ TookNo' = TookNo /\ Latest' = Latest
  BY DEF SentNo, TookNo, Latest
<1> QED
  BY <1>1, Counts DEF History

\* A step that sends and displays nothing changes places, memory and tokens.
LEMMA QuietSem ==
    ASSUME SemInv, sent' = sent, got' = got, took' = took, kills' = kills, spc[1] = "done" => spc'[1] = "done",
           SemPlaces', Memory', OneSet', OneToken'
    PROVE  SemInv' /\ Allowed
<1>1. History'
  BY HistoryKept DEF SemInv
<1>2. NoPrint /\ NoPrint'
  BY DEF NoPrint, SemInv, SemPlaces
<1> QED
  BY <1>1, <1>2, IdleStep DEF SemInv, Allowed

\* fgets begins; the sender keeps the token.
LEMMA BeginKeeps == ASSUME SemInv, kind = "sem", Begin PROVE SemInv' /\ Allowed
<1> USE DEF SemInv
<1>1. /\ spc[1] = "write" /\ spc' = [spc EXCEPT ![1] = "copy"]
      /\ UNCHANGED <<kind, rpc, sent, got, took, kills, typed, alive, gen, val, semid, ini>>
  BY DEF Begin, recvVars, semVars
<1>2. spc'[1] = "copy" /\ SentNo' = SentNo /\ TookNo' = TookNo /\ Latest' = Latest /\ rpc'[1] = rpc[1]
  BY <1>1, HistoryKept, SemFacts DEF SemPlaces
<1>3. SemPlaces'
  BY <1>1 DEF SemPlaces
<1>4. Memory'
  BY <1>1, <1>2 DEF Memory, Writing, Reader
<1>5. OneSet'
  BY <1>1, <1>2 DEF OneSet
<1>6. OneToken'
  BY <1>1, <1>2 DEF OneToken, Writer, Reader
<1> QED
  BY <1>1, <1>3, <1>4, <1>5, <1>6, QuietSem

\* The line that is typed is in the memory with its newline.
LEMMA CopyKeeps == ASSUME MailboxAssumption, SemInv, Copy PROVE SemInv' /\ Allowed
<1> USE DEF SemInv
<1>1. /\ spc[1] = "copy" /\ spc' = [spc EXCEPT ![1] = "trim"]
      /\ typed' = [typed EXCEPT ![1] = @ + 1]
      /\ UNCHANGED <<kind, rpc, sent, got, took, kills, alive, gen, val, semid, ini>>
  BY DEF Copy, recvVars, semVars, Counted
<1>2. spc'[1] = "trim" /\ SentNo' = SentNo /\ TookNo' = TookNo /\ Latest' = Latest /\ rpc'[1] = rpc[1] /\ SentNo \in Nat
  BY <1>1, HistoryKept, SemFacts DEF SemPlaces
<1>3. PICK line \in Typed(1) : buf' = Untrimmed(line)
  BY DEF Copy
<1>4. PICK n \in 1 .. QuitNo : n \in {typed[1] + 1, QuitNo} /\ line = <<1, n>>
  BY DEF Typed
<1>5. buf' = <<1, -1 - n>>
  BY <1>3, <1>4 DEF Untrimmed
<1>6. typed[1] = SentNo /\ typed' \in [Channels -> Nat] /\ typed'[1] = SentNo + 1
  BY <1>1, <1>2, SemFacts DEF Memory
<1>7. SemPlaces'
  BY <1>1 DEF SemPlaces
<1>8. Memory'
  <2>1. \E k \in 1 .. QuitNo : k \in {SentNo' + 1, QuitNo} /\ buf' = <<1, -1 - k>>
    BY <1>2, <1>4, <1>5, <1>6
  <2>2. Writing /\ Writing' /\ Reader' = Reader
    BY <1>1, <1>2 DEF Writing, Reader
  <2> QED
    BY <1>1, <1>2, <1>6, <2>1, <2>2 DEF Memory
<1>9. OneSet'
  BY <1>1, <1>2 DEF OneSet
<1>10. OneToken'
  BY <1>1, <1>2 DEF OneToken, Writer, Reader
<1> QED
  BY <1>1, <1>7, <1>8, <1>9, <1>10, QuietSem

\* strcmp finds the latest line.
LEMMA TestKeeps == ASSUME SemInv, kind = "sem", Test PROVE SemInv' /\ Allowed
<1> USE DEF SemInv
<1>1. PICK place \in {"done", "release"} : rpc' = [rpc EXCEPT ![1] = place]
  BY DEF Test
<1>2. rpc[1] = "test" /\ UNCHANGED <<kind, spc, sent, got, took, kills, typed, buf, alive, gen, val, semid, ini>>
  BY DEF Test, recvVars, semVars
<1>3. rpc'[1] = place /\ SentNo' = SentNo /\ TookNo' = TookNo /\ Latest' = Latest /\ spc'[1] = spc[1]
  BY <1>1, <1>2, HistoryKept, SemFacts DEF SemPlaces
<1>4. SemPlaces'
  BY <1>1, <1>2 DEF SemPlaces, Channels
<1>5. Memory'
  BY <1>2, <1>3 DEF Memory, Writing, Reader
<1>6. OneSet'
  BY <1>2, <1>3 DEF OneSet
<1>7. OneToken'
  BY <1>2, <1>3 DEF OneToken, Writer, Reader
<1> QED
  BY <1>2, <1>4, <1>5, <1>6, <1>7, QuietSem

\* Without its newline the line counts as sent.
LEMMA TrimKeeps == ASSUME MailboxAssumption, SemInv, kind = "sem", Trim PROVE SemInv' /\ Allowed
<1> USE DEF SemInv
<1>1. PICK n \in 1 .. QuitNo : n \in {SentNo + 1, QuitNo} /\ buf = <<1, -1 - n>>
  BY DEF Trim, Memory
<1>2. PICK line \in Line : line = <<1, n>> /\ line = <<buf[1], -1 - buf[2]>>
  <2>1. <<1, n>> \in Line
    BY SemFacts DEF Line
  <2>2. buf[1] = 1 /\ buf[2] = -1 - n /\ n \in Nat
    BY <1>1, MailboxAssumption DEF QuitNo
  <2>3. -1 - buf[2] = n
    BY <2>2
  <2> QED
    BY <2>1, <2>2, <2>3
<1>3. /\ spc[1] = "trim" /\ spc' = [spc EXCEPT ![1] = "release"] /\ buf' = line
      /\ sent' = [sent EXCEPT ![1] = Append(@, line)]
      /\ UNCHANGED <<kind, rpc, got, took, kills, typed, alive, gen, val, semid, ini>>
  BY <1>2 DEF Trim, recvVars, semVars
<1>4. sent[1] \in Seq(Line) /\ SentNo \in Nat /\ TookNo \in Nat /\ SentNo = Len(sent[1]) /\ TookNo = took[1]
  BY Counts, SemFacts DEF History, SentNo, TookNo
<1>5. PICK a \in Seq(Line) : a = Append(sent[1], line) /\ IsAppended(a, sent[1], line, SentNo)
  BY <1>4, Appended
<1>6. sent' = [sent EXCEPT ![1] = a] /\ sent'[1] = a /\ sent' \in [Channels -> Seq(Line)]
  BY <1>3, <1>5, SemFacts DEF History
<1>7. /\ Len(a) = SentNo + 1 /\ a[SentNo + 1] = line /\ \A i \in 1 .. SentNo : a[i] = sent[1][i]
  BY <1>5 DEF IsAppended
<1>8. SentNo' = SentNo + 1 /\ TookNo' = TookNo /\ Latest' = line
  BY <1>3, <1>6, <1>7 DEF SentNo, TookNo, Latest
<1>9. SentNo = TookNo /\ spc'[1] = "release" /\ rpc'[1] = rpc[1] /\ got'[1] = got[1] /\ Len(got[1]) = TookNo
  <2>1. SentNo = TookNo /\ spc'[1] = "release" /\ rpc'[1] = rpc[1] /\ got'[1] = got[1]
    BY <1>3, SemFacts DEF Memory, Writing, SemPlaces
  <2>2. TookNo <= Len(got[1]) /\ ~(TookNo < Len(got[1]))
    BY <1>3 DEF History
  <2> QED
    BY <2>1, <2>2, Counts
<1>10. History'
  <2>1. got' \in [Channels -> Seq(Line)] /\ took' \in [Channels -> Nat]
    BY <1>3 DEF History
  <2>2. TookNo' <= SentNo' /\ SentNo' <= TookNo' + 1
    BY <1>4, <1>8, <1>9
  <2>3. TookNo' = Len(got'[1]) /\ TookNo' <= Len(got'[1]) /\ ~(TookNo' < Len(got'[1]))
    BY <1>4, <1>8, <1>9
  <2>4. TookNo' > 0 => Last(got'[1]) = sent'[1][TookNo']
    <3> SUFFICES ASSUME TookNo > 0 PROVE Last(got[1]) = a[TookNo]
      BY <1>3, <1>6, <1>8
    <3>1. TookNo \in 1 .. SentNo
      BY <1>4, <1>9
    <3> QED
      BY <3>1, <1>7 DEF History
  <2>5. Latest' = <<1, SentNo'>> \/ IsQuit(Latest')
    BY <1>1, <1>2, <1>8 DEF IsQuit
  <2> QED
    BY <2>1, <2>2, <2>3, <2>4, <2>5, <1>6 DEF History
<1>11. SemPlaces'
  BY <1>3 DEF SemPlaces
<1>12. Memory'
  <2>1. ~Writing' /\ Reader' = Reader /\ SentNo' > 0
    BY <1>4, <1>8, <1>9 DEF Writing, Reader
  <2>2. typed' = typed /\ typed \in [Channels -> Nat] /\ typed[1] = SentNo + 1
    BY <1>3 DEF Memory
  <2> QED
    BY <2>1, <2>2, <1>3, <1>8, <1>9 DEF Memory
<1>13. OneSet'
  BY <1>3, <1>9 DEF OneSet
<1>14. OneToken'
  <2>1. Writer /\ Writer' /\ Reader' = Reader /\ rpc'[1] = rpc[1] /\ val' = val /\ ini' = ini
    BY <1>3, <1>9 DEF Writer, Reader
  <2>2. val[0] # 1 /\ val[1] # 1 /\ val[0] <= 1 /\ val[1] <= 1 /\ ~Reader /\ ini["sender"] # 0 /\ ini["receiver"] # 0
    BY <2>1, <1>3 DEF OneToken
  <2> QED
    BY <2>1, <2>2 DEF OneToken, Reader
<1>15. Promise!Next
  <2>1. <<line>> \in [1 .. 1 -> Line] /\ 1 \in 1 .. MaxLines
    BY MailboxAssumption
  <2>2. Append(sent[1], line) = sent[1] \o <<line>>
    BY <1>4, AppendIsConcat
  <2>3. sent' = [sent EXCEPT ![1] = @ \o <<line>>]
    BY <2>2, <1>3
  <2>4. ~Over(1)
    BY <1>4, <1>9 DEF Over
  <2>5. \A e \in Channels : Past(e)' = Past(e) /\ Over(e)' = Over(e)
    BY <1>3 DEF Past, Over
  <2> QED
    BY <2>1, <2>3, <2>4, <2>5, <1>3, SemFacts, SendStep
<1> QED
  BY <1>10, <1>11, <1>12, <1>13, <1>14, <1>15 DEF Allowed

\* What is displayed is the latest line: once, or again after the set was deleted.
LEMMA DisplayKeeps == ASSUME SemInv, kind = "sem", Display PROVE SemInv' /\ Allowed
<1> USE DEF SemInv
<1>1. /\ rpc[1] = "read" /\ rpc' = [rpc EXCEPT ![1] = "test"]
      /\ got' = [got EXCEPT ![1] = Append(@, buf)] /\ took' = [took EXCEPT ![1] = Len(sent[1])]
      /\ UNCHANGED <<kind, spc, sent, kills, typed, buf, alive, gen, val, semid, ini>>
  BY DEF Display, semVars
<1>2. /\ SentNo \in Nat /\ TookNo \in Nat /\ TookNo <= SentNo /\ SentNo <= TookNo + 1 /\ SentNo > 0
      /\ sent[1] \in Seq(Line) /\ got[1] \in Seq(Line) /\ SentNo = Len(sent[1]) /\ TookNo = took[1]
  BY <1>1, Counts, SemFacts DEF History, Memory, Reader, SentNo, TookNo
<1>3. ~Writing /\ (SentNo = TookNo => spc[1] = "done")
  <2>1. SentNo = TookNo => spc[1] = "done"
    BY <1>1, <1>2 DEF OneToken
  <2>2. ~Writing
    BY <1>1 DEF OneToken, Reader, Writer, Writing
  <2> QED
    BY <2>1, <2>2
<1>4. PICK line \in Line : line = buf /\ line = Latest /\ line = sent[1][SentNo]
  <2>1. SentNo \in 1 .. Len(sent[1])
    BY <1>2
  <2>2. sent[1][SentNo] \in Line
    BY <2>1, <1>2, ElementOfSeq
  <2> QED
    BY <2>2, <1>2, <1>3 DEF Memory, Latest
<1>5. PICK g \in Seq(Line), n \in Nat : g = got[1] /\ n = Len(g) /\ TookNo <= n /\ (TookNo < n => spc[1] = "done" /\ TookNo = SentNo)
  BY <1>2, Counts DEF History
<1>6. PICK g2 \in Seq(Line) : g2 = Append(g, line) /\ Len(g2) = n + 1 /\ Last(g2) = line
  <2>1. PICK a \in Seq(Line) : a = Append(g, line) /\ IsAppended(a, g, line, n)
    BY <1>5, Appended
  <2> QED
    BY <2>1 DEF IsAppended, Last
<1>7. /\ got' = [got EXCEPT ![1] = g2] /\ got'[1] = g2 /\ got' \in [Channels -> Seq(Line)]
      /\ took'[1] = SentNo /\ took' \in [Channels -> Nat] /\ got'[2] = got[2] /\ took'[2] = took[2]
  <2>1. got \in [Channels -> Seq(Line)] /\ took \in [Channels -> Nat]
    BY DEF History
  <2>2. got' = [got EXCEPT ![1] = g2] /\ took' = [took EXCEPT ![1] = SentNo]
    BY <1>1, <1>2, <1>4, <1>5, <1>6
  <2> QED
    BY <2>1, <2>2, <1>2, SemFacts
<1>8. rpc'[1] = "test" /\ spc'[1] = spc[1] /\ SentNo' = SentNo /\ Latest' = Latest /\ TookNo' = SentNo
  BY <1>1, <1>7, SemFacts DEF SemPlaces, SentNo, Latest, TookNo
<1>9. History'
  <2>1. SentNo <= n + 1 /\ (SentNo < n + 1 => spc[1] = "done")
    BY <1>2, <1>3, <1>5
  <2>2. Last(got'[1]) = sent'[1][TookNo']
    BY <1>1, <1>4, <1>6, <1>7, <1>8
  <2>3. TookNo' <= Len(got'[1]) /\ (TookNo' < Len(got'[1]) => spc'[1] = "done")
    BY <2>1, <1>6, <1>7, <1>8, Zenon
  <2> QED
    BY <2>2, <2>3, <1>1, <1>2, <1>7, <1>8 DEF History
<1>10. SemPlaces'
  BY <1>1 DEF SemPlaces, Channels
<1>11. OneSet'
  BY <1>1, <1>8 DEF OneSet
<1>12. Memory'
  <2>1. ~Writing' /\ Reader' /\ spc'[1] # "release"
    BY <1>1, <1>3, <1>8 DEF Writing, Reader, OneToken, Writer
  <2> QED
    BY <2>1, <1>1, <1>2, <1>8 DEF Memory, Writing
<1>13. OneToken'
  <2>1. Reader /\ Reader' /\ Writer' = Writer
    BY <1>1, <1>8 DEF Reader, Writer
  <2> QED
    BY <2>1, <1>1, <1>8 DEF OneToken
<1>14. \A e \in Channels : e = 1 \/ e = 2
  BY DEF Channels
<1>15. \A e \in Channels : rpc[e] # "print" /\ rpc'[e] # "print"
  BY <1>10 DEF SemPlaces
<1>16. \A e \in Channels : Past(e) = took[e] /\ Past(e)' = took'[e]
  <2>1. took \in [Channels -> Nat]
    BY DEF History
  <2> QED
    BY <2>1, <1>7, <1>15 DEF Past
<1>17. CASE SentNo = TookNo + 1
  <2>1. n = TookNo
    BY <1>2, <1>5, <1>17
  <2>2. ~Over(1) /\ ~Over(1)'
    BY <2>1, <1>2, <1>5, <1>6, <1>7, <1>17 DEF Over
  <2>3. Over(2)' = Over(2)
    BY <1>7 DEF Over
  <2>4. got' = [got EXCEPT ![1] = @ \o SubSeq(sent[1], Past(1) + 1, SentNo)]
    <3>1. PICK s \in Seq(Line), k \in Nat : s = sent[1] /\ k = TookNo /\ k + 1 = SentNo
      BY <1>2, <1>17
    <3>2. \A j \in 1 .. 1 : s[k + j] \in Line
      BY <3>1, <1>4
    <3>3. PICK x \in Seq(Line) : x = SubSeq(s, k + 1, k + 1) /\ IsPart(x, s, k, 1)
      <4>1. 1 \in Nat
        OBVIOUS
      <4> QED
        BY <3>2, <4>1, PartOf
    <3>4. Len(x) = 1 /\ x[1] = line
      <4>1. Len(x) = 1 /\ x[1] = s[k + 1]
        BY <3>3 DEF IsPart
      <4> QED
        BY <4>1, <3>1, <1>4
    <3>5. x = <<line>>
      <4>1. <<line>> \in Seq(Line) /\ Len(<<line>>) = 1 /\ <<line>>[1] = line
        OBVIOUS
      <4>2. \A j \in 1 .. Len(x) : x[j] = <<line>>[j]
        BY <3>4, <4>1
      <4> QED
        BY <3>4, <4>1, <4>2, SeqEqual
    <3>6. Append(g, line) = g \o <<line>>
      BY AppendIsConcat
    <3>7. SubSeq(sent[1], Past(1) + 1, SentNo) = x
      BY <3>1, <3>3, <1>2, <1>16, SemFacts
    <3> QED
      BY <3>5, <3>6, <3>7, <1>5, <1>6, <1>7
  <2>5. SentNo \in Past(1) + 1 .. Len(sent[1])
    BY <1>2, <1>16, <1>17, SemFacts
  <2>6. \A e \in Channels : Past(e)' = (IF e = 1 THEN SentNo ELSE Past(e)) /\ Over(e)' = Over(e)
    BY <2>2, <2>3, <1>7, <1>14, <1>16 DEF Over
  <2>7. Promise!Next
    BY <2>2, <2>4, <2>5, <2>6, <1>1, SemFacts, ArriveStep
  <2> QED
    BY <2>7, <1>9, <1>10, <1>11, <1>12, <1>13 DEF Allowed
<1>18. CASE SentNo = TookNo
  <2>1. Past(1) = Len(sent[1]) /\ \A e \in Channels : Past(e)' = Past(e)
    BY <1>2, <1>7, <1>14, <1>16, <1>18, SemFacts
  <2>2. Over(1)'
    <3>1. SentNo < n + 1
      BY <1>2, <1>5, <1>18
    <3> QED
      BY <3>1, <1>2, <1>6, <1>7 DEF Over
  <2>3. \A e \in Channels : e # 1 => Over(e)' = Over(e)
    BY <1>7, <1>14 DEF Over
  <2>4. got[1] # <<>> /\ got' = [got EXCEPT ![1] = Append(@, Last(@))]
    <3>1. Last(got[1]) = line
      BY <1>2, <1>4, <1>18 DEF History
    <3>2. n > 0
      BY <1>2, <1>5, <1>18
    <3>3. got[1] # <<>>
      BY <3>2, <1>5, EmptySeq
    <3> QED
      BY <3>1, <3>3, <1>5, <1>6, <1>7
  <2>5. "again" \in Faults
    BY DEF Faults, Fifos
  <2>6. Promise!Next
    BY <2>1, <2>2, <2>3, <2>4, <2>5, <1>1, SemFacts, TrailStep
  <2> QED
    BY <2>6, <1>9, <1>10, <1>11, <1>12, <1>13 DEF Allowed
<1> QED
  BY <1>2, <1>17, <1>18

\* A new set is all zero; both processes go on to fill it in, or to use it.
LEMMA CreateKeeps ==
    ASSUME SemInv, Create, UNCHANGED <<kind, sent, got, took, kills, typed, buf>>
    PROVE  SemInv' /\ Allowed
<1> USE DEF SemInv
<1>1. PICK p \in {"sender", "receiver"} :
          /\ Set!CreateSem(p)
          /\ IF p = "sender" THEN spc[1] = "create" /\ spc' = [spc EXCEPT ![1] = "wait"] /\ rpc' = rpc
                             ELSE rpc[1] = "create" /\ rpc' = [rpc EXCEPT ![1] = "wait"] /\ spc' = spc
  BY SemFacts DEF Create
<1>2. SentNo' = SentNo /\ TookNo' = TookNo /\ Latest' = Latest /\ SentNo \in Nat /\ TookNo \in Nat /\ TookNo <= SentNo
  BY HistoryKept, Counts
<1>3. /\ spc'[1] = IF p = "sender" THEN "wait" ELSE spc[1]
      /\ rpc'[1] = IF p = "sender" THEN rpc[1] ELSE "wait"
  BY <1>1, SemFacts DEF SemPlaces
<1>4. IF alive
      THEN /\ semid' = [semid EXCEPT ![p] = gen]
           /\ alive' = alive /\ gen' = gen /\ val' = val /\ ini' = ini
      ELSE /\ alive' = TRUE /\ gen' = gen + 1 /\ val' = [s \in 0 .. 1 |-> 0]
           /\ semid' = [semid EXCEPT ![p] = gen + 1] /\ ini' = [ini EXCEPT ![p] = 0]
  BY <1>1, SemFacts, Zenon DEF Set!CreateSem
<1>5. SemPlaces'
  <2>1. spc' \in [Channels -> {"create", "wait", "write", "copy", "trim", "release", "delete", "done"}]
    BY <1>1 DEF SemPlaces
  <2>2. rpc' \in [Channels -> {"create", "wait", "read", "test", "release", "done"}] /\ rpc'[2] = "done"
    BY <1>1 DEF SemPlaces, Channels
  <2>3. alive' \in BOOLEAN /\ gen' \in Nat /\ val' \in [0 .. 1 -> Nat]
    <3>1. CASE alive
      BY <3>1, <1>4 DEF SemPlaces
    <3>2. CASE ~alive
      BY <3>2, <1>4 DEF SemPlaces
    <3> QED
      BY <3>1, <3>2
  <2>4. semid' \in [{"sender", "receiver"} -> Nat] /\ ini' \in [{"sender", "receiver"} -> 0 .. 2]
    <3>1. PICK id \in Nat : semid' = [semid EXCEPT ![p] = id]
      BY <1>4 DEF SemPlaces
    <3>2. ini' = ini \/ ini' = [ini EXCEPT ![p] = 0]
      BY <1>4
    <3>3. semid' \in [{"sender", "receiver"} -> Nat]
      BY <3>1 DEF SemPlaces
    <3>4. ini' \in [{"sender", "receiver"} -> 0 .. 2]
      BY <3>2 DEF SemPlaces
    <3> QED
      BY <3>3, <3>4
  <2> QED
    BY <2>1, <2>2, <2>3, <2>4 DEF SemPlaces
<1>6. Memory'
  BY <1>1, <1>2, <1>3 DEF Memory, Writing, Reader
<1>7. OneSet'
  <2>1. CASE alive
    <3>1. alive' /\ ini' = ini /\ gen' = gen /\ semid'[p] = gen /\ \A r \in {"sender", "receiver"} : r # p => semid'[r] = semid[r]
      BY <2>1, <1>4 DEF SemPlaces
    <3> QED
      BY <3>1, <1>1, <1>3, SemFacts DEF OneSet
  <2>2. CASE ~alive
    <3>1. /\ alive' /\ ini'[p] = 0 /\ gen' = gen + 1 /\ semid'[p] = gen + 1
          /\ \A r \in {"sender", "receiver"} : r # p => ini'[r] = ini[r] /\ semid'[r] = semid[r]
      BY <2>2, <1>4 DEF SemPlaces
    <3> QED
      BY <2>2, <3>1, <1>1, <1>3, SemFacts DEF OneSet
  <2> QED
    BY <2>1, <2>2
<1>8. OneToken'
  <2>1. Writer' = Writer /\ Reader' = Reader
    BY <1>1, <1>3 DEF Writer, Reader
  <2>2. CASE alive
    <3>1. val' = val /\ ini' = ini
      BY <2>2, <1>4
    <3> QED
      BY <2>1, <3>1, <1>1, <1>2, <1>3 DEF OneToken
  <2>3. CASE ~alive
    <3>1. val'[0] = 0 /\ val'[1] = 0
      BY <2>3, <1>4
    <3>2. spc[1] # "done" => ~Writer /\ ~Reader /\ SentNo = 0 /\ rpc[1] = "create"
      BY <2>3 DEF OneSet, Writer, Reader, Memory
    <3> QED
      BY <2>1, <3>1, <3>2, <1>1, <1>2, <1>3 DEF OneToken
  <2> QED
    BY <2>2, <2>3
<1>9. /\ spc[1] = "done" => spc'[1] = "done"
      /\ sent' = sent /\ got' = got /\ took' = took /\ kills' = kills
  BY <1>1, <1>3
<1> QED
  BY <1>5, <1>6, <1>7, <1>8, <1>9, QuietSem

\* Semaphore 0 gets the token before anything is typed; semaphore 1 gets none.
LEMMA InitSemKeeps ==
    ASSUME SemInv, NEW p \in {"sender", "receiver"}, Set!InitSem(p), UNCHANGED <<kind, sent, got, took, kills, typed, buf, spc, rpc>>
    PROVE  SemInv' /\ Allowed
<1> USE DEF SemInv
<1>1. /\ ini[p] # 2 /\ ini' = [ini EXCEPT ![p] = @ + 1] /\ alive' = alive /\ gen' = gen /\ semid' = semid
      /\ val' = IF alive /\ semid[p] = gen THEN [val EXCEPT ![ini[p]] = 1 - ini[p]] ELSE val
  <2>1. ini[p] \in 0 .. 1
    BY DEF Set!InitSem, Set!Created, SemPlaces
  <2>2. [s \in 0 .. 1 |-> 1 - s][ini[p]] = 1 - ini[p]
    BY <2>1
  <2> QED
    BY <2>2 DEF Set!InitSem, Set!Created, Set!Valid
<1>2. ini[p] \in 0 .. 1 /\ ini \in [{"sender", "receiver"} -> 0 .. 2] /\ val \in [0 .. 1 -> Nat]
  BY <1>1 DEF SemPlaces
<1>3. SentNo' = SentNo /\ TookNo' = TookNo /\ Latest' = Latest /\ SentNo \in Nat /\ TookNo \in Nat /\ TookNo <= SentNo
  BY HistoryKept, Counts
<1>4. SemPlaces'
  <2>1. ini' \in [{"sender", "receiver"} -> 0 .. 2]
    BY <1>1, <1>2
  <2>2. 1 - ini[p] \in Nat
    BY <1>2
  <2>3. val' \in [0 .. 1 -> Nat]
    BY <2>2, <1>1, <1>2
  <2> QED
    BY <2>1, <2>3, <1>1 DEF SemPlaces
<1>5. Memory'
  BY <1>3 DEF Memory, Writing, Reader
<1>6. OneSet'
  <2>1. ini'[p] = ini[p] + 1 /\ \A r \in {"sender", "receiver"} : r # p => ini'[r] = ini[r]
    BY <1>1, <1>2
  <2> QED
    BY <2>1, <1>1, <1>2, SemFacts DEF OneSet
<1>7. OneToken'
  <2> SUFFICES ASSUME spc[1] # "done" PROVE OneToken'
    BY DEF OneToken
  <2>1. ini'[p] = ini[p] + 1 /\ \A r \in {"sender", "receiver"} : r # p => ini'[r] = ini[r] /\ ini[r] = 2
    BY <1>1, <1>2, SemFacts DEF OneSet
  <2>2. ini'["sender"] # 0 /\ ini'["receiver"] # 0
    BY <2>1, <1>2, SemFacts
  <2>3. Writer' = Writer /\ Reader' = Reader
    BY DEF Writer, Reader
  <2>4. CASE ini[p] = 0
    <3>1. val[0] = 0 /\ val[1] = 0 /\ ~Writer /\ ~Reader /\ SentNo = 0 /\ TookNo = 0
      BY <2>4, <1>3, SemFacts DEF OneToken
    <3>2. val'[1] = 0 /\ val'[0] \in {0, 1}
      BY <2>4, <3>1, <1>1, <1>2
    <3> QED
      BY <3>1, <3>2, <2>2, <2>3, <1>3 DEF OneToken, Reader
  <2>5. CASE ini[p] = 1
    <3>1. val'[0] = val[0] /\ val'[1] \in {0, val[1]}
      BY <2>5, <1>1, <1>2
    <3> QED
      BY <3>1, <2>2, <2>3, <1>3 DEF OneToken
  <2> QED
    BY <2>4, <2>5, <1>2
<1>8. /\ spc[1] = "done" => spc'[1] = "done"
      /\ sent' = sent /\ got' = got /\ took' = took /\ kills' = kills
  OBVIOUS
<1> QED
  BY <1>4, <1>5, <1>6, <1>7, <1>8, QuietSem

\* P and V of a process that uses the set there is.
LEMMA PossibleP ==
    ASSUME SemPlaces, NEW p \in {"sender", "receiver"}, NEW s \in 0 .. 1, Set!P(p, s)
    PROVE  /\ alive' = alive /\ gen' = gen /\ semid' = semid /\ ini' = ini /\ val' \in [0 .. 1 -> Nat]
           /\ alive /\ semid[p] = gen => val[s] > 0 /\ val' = [val EXCEPT ![s] = @ - 1]
<1>1. /\ alive' = alive /\ gen' = gen /\ semid' = semid /\ ini' = ini
      /\ alive /\ semid[p] = gen => val[s] > 0
      /\ val' = IF alive /\ semid[p] = gen THEN [val EXCEPT ![s] = @ - 1] ELSE val
  BY DEF Set!P, Set!Valid
<1>2. val' \in [0 .. 1 -> Nat]
  BY <1>1 DEF SemPlaces
<1> QED
  BY <1>1, <1>2

LEMMA PossibleV ==
    ASSUME SemPlaces, NEW p \in {"sender", "receiver"}, NEW s \in 0 .. 1, Set!V(p, s)
    PROVE  /\ alive' = alive /\ gen' = gen /\ semid' = semid /\ ini' = ini /\ val' \in [0 .. 1 -> Nat]
           /\ alive /\ semid[p] = gen => val' = [val EXCEPT ![s] = @ + 1]
<1>1. /\ alive' = alive /\ gen' = gen /\ semid' = semid /\ ini' = ini
      /\ val' = IF alive /\ semid[p] = gen THEN [val EXCEPT ![s] = @ + 1] ELSE val
  BY DEF Set!V, Set!Valid
<1>2. val' \in [0 .. 1 -> Nat]
  BY <1>1 DEF SemPlaces
<1> QED
  BY <1>1, <1>2

\* The sender takes the token of semaphore 0: what was sent was displayed.
LEMMA SenderWaitsKeeps == ASSUME SemInv, SenderWaits PROVE SemInv' /\ Allowed
<1> USE DEF SemInv
<1>1. /\ spc[1] = "wait" /\ spc' = [spc EXCEPT ![1] = "write"] /\ Set!P("sender", 0) /\ ini["sender"] = 2
      /\ UNCHANGED <<kind, rpc, sent, got, took, kills, typed, buf>>
  BY DEF SenderWaits, Set!Created, recvVars
<1>2. spc'[1] = "write" /\ rpc'[1] = rpc[1] /\ SentNo' = SentNo /\ TookNo' = TookNo /\ Latest' = Latest
  BY <1>1, HistoryKept, SemFacts DEF SemPlaces
<1>3. /\ alive' = alive /\ gen' = gen /\ semid' = semid /\ ini' = ini /\ val' \in [0 .. 1 -> Nat]
      /\ val[0] > 0 /\ val' = [val EXCEPT ![0] = @ - 1]
  <2>1. alive /\ semid["sender"] = gen
    BY <1>1 DEF OneSet, SemPlaces
  <2> QED
    BY <2>1, <1>1, SemFacts, PossibleP
<1>4. val[0] = 1 /\ val[1] = 0 /\ ~Writer /\ ~Reader /\ SentNo = TookNo /\ val'[0] = 0 /\ val'[1] = 0
  BY <1>1, <1>3, SemFacts DEF OneToken, SemPlaces
<1>5. SemPlaces'
  BY <1>1, <1>3 DEF SemPlaces
<1>6. Memory'
  BY <1>1, <1>2, <1>4 DEF Memory, Writing, Reader
<1>7. OneSet'
  BY <1>1, <1>2, <1>3 DEF OneSet
<1>8. OneToken'
  <2>1. ~Reader' /\ ini'["sender"] # 0 /\ ini'["receiver"] # 0 /\ rpc'[1] \notin {"read", "test", "release"}
    BY <1>1, <1>2, <1>3, <1>4 DEF Reader, OneToken
  <2> QED
    BY <2>1, <1>4 DEF OneToken
<1> QED
  BY <1>1, <1>5, <1>6, <1>7, <1>8, QuietSem

\* It gives the token to semaphore 1 when the line is in the memory.
LEMMA SenderReleasesKeeps == ASSUME SemInv, SenderReleases PROVE SemInv' /\ Allowed
<1> USE DEF SemInv
<1>1. /\ spc[1] = "release" /\ Set!V("sender", 1)
      /\ spc' = [spc EXCEPT ![1] = IF IsQuit(buf) THEN "delete" ELSE "wait"]
      /\ UNCHANGED <<kind, rpc, sent, got, took, kills, typed, buf>>
  BY DEF SenderReleases, recvVars
<1>2. rpc'[1] = rpc[1] /\ SentNo' = SentNo /\ TookNo' = TookNo /\ Latest' = Latest /\ spc'[1] = IF IsQuit(buf) THEN "delete" ELSE "wait"
  BY <1>1, HistoryKept, SemFacts DEF SemPlaces
<1>3. /\ alive' = alive /\ gen' = gen /\ semid' = semid /\ ini' = ini /\ val' \in [0 .. 1 -> Nat]
      /\ val' = [val EXCEPT ![1] = @ + 1]
  <2>1. alive /\ semid["sender"] = gen
    BY <1>1 DEF OneSet, SemPlaces
  <2> QED
    BY <2>1, <1>1, SemFacts, PossibleV
<1>4. Writer /\ ~Writing /\ SentNo > 0
  BY <1>1 DEF Writer, Writing, Memory
<1>5. val[0] = 0 /\ val[1] = 0 /\ ~Reader /\ val'[0] = 0 /\ val'[1] = 1
  BY <1>1, <1>3, <1>4, SemFacts DEF OneToken, SemPlaces
<1>6. SemPlaces'
  <2>1. spc' \in [Channels -> {"create", "wait", "write", "copy", "trim", "release", "delete", "done"}]
    BY <1>1 DEF SemPlaces
  <2> QED
    BY <2>1, <1>1, <1>3 DEF SemPlaces
<1>7. Memory'
  <2>1. ~Writing' /\ Reader' = Reader /\ spc'[1] \in {"delete", "wait"}
    BY <1>1, <1>2 DEF Writing, Reader
  <2>2. buf = Latest
    BY <1>4 DEF Memory
  <2>3. spc'[1] = "delete" => IsQuit(Latest)
    BY <1>2, <2>2
  <2>4. spc'[1] = "wait" => ~IsQuit(Latest)
    BY <1>2, <2>2
  <2> QED
    BY <2>1, <2>2, <2>3, <2>4, <1>1, <1>2, <1>4 DEF Memory
<1>8. OneSet'
  <2>1. spc'[1] \in {"delete", "wait"}
    BY <1>2
  <2> QED
    BY <2>1, <1>1, <1>2, <1>3 DEF OneSet
<1>9. OneToken'
  <2>1. spc'[1] \in {"delete", "wait"}
    BY <1>2
  <2>2. ~Writer' /\ ~Reader' /\ ini'["sender"] # 0 /\ ini'["receiver"] # 0 /\ rpc'[1] \notin {"read", "test", "release"}
    BY <2>1, <1>1, <1>2, <1>3, <1>4, <1>5 DEF Writer, Reader, OneToken
  <2>3. SentNo' = TookNo' + 1
    BY <1>1, <1>2 DEF Memory
  <2> QED
    BY <2>2, <2>3, <1>2, <1>4, <1>5 DEF OneToken
<1> QED
  BY <1>1, <1>6, <1>7, <1>8, <1>9, QuietSem

\* The set is deleted after quit, wherever the receiver is.
LEMMA SenderDeletesKeeps == ASSUME SemInv, SenderDeletes PROVE SemInv' /\ Allowed
<1> USE DEF SemInv
<1>1. /\ spc[1] = "delete" /\ spc' = [spc EXCEPT ![1] = "done"]
      /\ alive' \in BOOLEAN
      /\ UNCHANGED <<kind, rpc, sent, got, took, kills, typed, buf, gen, val, semid, ini>>
  BY DEF SenderDeletes, Set!Delete, recvVars
<1>2. spc'[1] = "done" /\ rpc'[1] = rpc[1] /\ SentNo' = SentNo /\ TookNo' = TookNo /\ Latest' = Latest
  BY <1>1, HistoryKept, SemFacts DEF SemPlaces
<1>3. SemPlaces'
  <2>1. spc' \in [Channels -> {"create", "wait", "write", "copy", "trim", "release", "delete", "done"}]
    BY <1>1 DEF SemPlaces
  <2> QED
    BY <2>1, <1>1 DEF SemPlaces
<1>4. Memory'
  BY <1>1, <1>2 DEF Memory, Writing, Reader
<1>5. OneSet' /\ OneToken'
  BY <1>2 DEF OneSet, OneToken
<1> QED
  BY <1>1, <1>3, <1>4, <1>5, QuietSem

\* The receiver takes the token of semaphore 1, or goes on without a set.
LEMMA ReceiverWaitsKeeps == ASSUME SemInv, ReceiverWaits PROVE SemInv' /\ Allowed
<1> USE DEF SemInv
<1>1. /\ rpc[1] = "wait" /\ rpc' = [rpc EXCEPT ![1] = "read"] /\ Set!P("receiver", 1) /\ ini["receiver"] = 2
      /\ UNCHANGED <<kind, spc, sent, got, took, kills, typed, buf>>
  BY DEF ReceiverWaits, Set!Created, recvVars
<1>2. rpc'[1] = "read" /\ spc'[1] = spc[1] /\ SentNo' = SentNo /\ TookNo' = TookNo /\ Latest' = Latest
  BY <1>1, HistoryKept, SemFacts DEF SemPlaces
<1>3. alive' = alive /\ gen' = gen /\ semid' = semid /\ ini' = ini /\ val' \in [0 .. 1 -> Nat]
  BY <1>1, SemFacts, PossibleP
<1>4. spc[1] # "done" => val[1] = 1 /\ val[0] = 0 /\ ~Writer /\ SentNo = TookNo + 1 /\ SentNo > 0 /\ val'[0] = 0 /\ val'[1] = 0
  <2> SUFFICES ASSUME spc[1] # "done"
               PROVE  val[1] = 1 /\ val[0] = 0 /\ ~Writer /\ SentNo = TookNo + 1 /\ SentNo > 0 /\ val'[0] = 0 /\ val'[1] = 0
    OBVIOUS
  <2>1. alive /\ semid["receiver"] = gen
    BY <1>1 DEF OneSet, SemPlaces
  <2>2. val[1] > 0 /\ val' = [val EXCEPT ![1] = @ - 1]
    BY <2>1, <1>1, SemFacts, PossibleP
  <2>3. val[1] = 1 /\ val[0] = 0 /\ val'[0] = 0 /\ val'[1] = 0
    BY <2>2, SemFacts DEF OneToken, SemPlaces
  <2>4. ~Writer /\ SentNo = TookNo + 1
    BY <2>3 DEF OneToken
  <2> QED
    BY <2>3, <2>4, Counts
<1>5. SemPlaces'
  <2>1. rpc' \in [Channels -> {"create", "wait", "read", "test", "release", "done"}] /\ rpc'[2] = "done"
    BY <1>1 DEF SemPlaces, Channels
  <2> QED
    BY <2>1, <1>1, <1>3 DEF SemPlaces
<1>6. Memory'
  <2>1. SentNo > 0
    BY <1>4 DEF Memory
  <2> QED
    BY <2>1, <1>1, <1>2 DEF Memory, Writing
<1>7. OneSet'
  BY <1>1, <1>2, <1>3 DEF OneSet
<1>8. OneToken'
  <2> SUFFICES ASSUME spc[1] # "done" PROVE OneToken'
    BY <1>2 DEF OneToken
  <2>1. ~Writer' /\ Reader' /\ ini'["sender"] # 0 /\ ini'["receiver"] # 0 /\ rpc'[1] = "read"
    BY <1>1, <1>2, <1>3, <1>4 DEF Writer, Reader, OneToken
  <2>2. SentNo' = TookNo' + 1
    BY <1>2, <1>4
  <2> QED
    BY <2>1, <2>2, <1>4 DEF OneToken
<1> QED
  BY <1>1, <1>5, <1>6, <1>7, <1>8, QuietSem

\* It gives it back to semaphore 0 after it has displayed the line.
LEMMA ReceiverReleasesKeeps == ASSUME SemInv, ReceiverReleases PROVE SemInv' /\ Allowed
<1> USE DEF SemInv
<1>1. /\ rpc[1] = "release" /\ rpc' = [rpc EXCEPT ![1] = "wait"] /\ Set!V("receiver", 0)
      /\ UNCHANGED <<kind, spc, sent, got, took, kills, typed, buf>>
  BY DEF ReceiverReleases, recvVars
<1>2. rpc'[1] = "wait" /\ spc'[1] = spc[1] /\ SentNo' = SentNo /\ TookNo' = TookNo /\ Latest' = Latest
  BY <1>1, HistoryKept, SemFacts DEF SemPlaces
<1>3. alive' = alive /\ gen' = gen /\ semid' = semid /\ ini' = ini /\ val' \in [0 .. 1 -> Nat]
  BY <1>1, SemFacts, PossibleV
<1>4. spc[1] # "done" => val[0] = 0 /\ val[1] = 0 /\ ~Writer /\ SentNo = TookNo /\ val'[0] = 1 /\ val'[1] = 0
  <2> SUFFICES ASSUME spc[1] # "done" PROVE val[0] = 0 /\ val[1] = 0 /\ ~Writer /\ SentNo = TookNo /\ val'[0] = 1 /\ val'[1] = 0
    OBVIOUS
  <2>1. alive /\ semid["receiver"] = gen
    BY <1>1 DEF OneSet, SemPlaces
  <2>2. val' = [val EXCEPT ![0] = @ + 1]
    BY <2>1, <1>1, SemFacts, PossibleV
  <2> QED
    BY <2>2, <1>1, SemFacts DEF OneToken, SemPlaces, Reader
<1>5. SemPlaces'
  <2>1. rpc' \in [Channels -> {"create", "wait", "read", "test", "release", "done"}] /\ rpc'[2] = "done"
    BY <1>1 DEF SemPlaces, Channels
  <2> QED
    BY <2>1, <1>1, <1>3 DEF SemPlaces
<1>6. Memory'
  BY <1>1, <1>2 DEF Memory, Writing, Reader
<1>7. OneSet'
  BY <1>1, <1>2, <1>3 DEF OneSet
<1>8. OneToken'
  <2> SUFFICES ASSUME spc[1] # "done" PROVE OneToken'
    BY <1>2 DEF OneToken
  <2>1. ~Writer' /\ ~Reader' /\ ini'["sender"] # 0 /\ ini'["receiver"] # 0
    BY <1>1, <1>2, <1>3, <1>4 DEF Writer, Reader, OneToken
  <2> QED
    BY <2>1, <1>2, <1>4 DEF OneToken
<1> QED
  BY <1>1, <1>5, <1>6, <1>7, <1>8, QuietSem

\* A killed receiver loses the token if it has it; another one starts afresh.
LEMMA KillKeeps == ASSUME SemInv, kind = "sem", NEW d \in Channels, Kill(d) PROVE SemInv' /\ Allowed
<1> USE DEF SemInv
<1>1. d = 1
  BY DEF Kill, SemPlaces, Channels
<1>2. /\ rpc' = [rpc EXCEPT ![1] = "create"] /\ Set!Abandon("receiver")
      /\ kills' = kills + 1
      /\ UNCHANGED <<kind, spc, sent, got, took, typed, buf>>
  BY <1>1 DEF Kill, Fifos
<1>3. ini' = [ini EXCEPT !["receiver"] = 2] /\ UNCHANGED <<alive, gen, val, semid>>
  BY <1>2 DEF Set!Abandon
<1>4. rpc'[1] = "create" /\ spc'[1] = spc[1] /\ SentNo' = SentNo /\ TookNo' = TookNo /\ Latest' = Latest
  BY <1>2, HistoryKept, SemFacts DEF SemPlaces
<1>5. ini'["receiver"] = 2 /\ ini'["sender"] = ini["sender"]
  BY <1>3, SemFacts DEF SemPlaces
<1>6. SemPlaces'
  <2>1. rpc' \in [Channels -> {"create", "wait", "read", "test", "release", "done"}] /\ rpc'[2] = "done"
    BY <1>2 DEF SemPlaces, Channels
  <2>2. ini' \in [{"sender", "receiver"} -> 0 .. 2]
    BY <1>3 DEF SemPlaces
  <2> QED
    BY <2>1, <2>2, <1>2, <1>3 DEF SemPlaces
<1>7. Memory'
  BY <1>2, <1>4 DEF Memory, Writing, Reader
<1>8. OneSet'
  BY <1>3, <1>4, <1>5 DEF OneSet
<1>9. OneToken'
  BY <1>3, <1>4, <1>5 DEF OneToken, Writer, Reader
<1>10. History'
  BY <1>2, <1>4, HistoryKept
<1>11. Promise!Next
  <2>1. \A e \in Channels : rpc[e] # "print" /\ rpc'[e] # "print"
    BY <1>6 DEF SemPlaces
  <2>2. \A e \in Channels : Past(e)' = Past(e) /\ Over(e)' = Over(e)
    BY <1>2, <2>1 DEF Past, Over
  <2> QED
    BY <2>2, <1>2, SemFacts, DieStep
<1> QED
  BY <1>6, <1>7, <1>8, <1>9, <1>10, <1>11 DEF Allowed

\* Every step of the programs with semaphores.
LEMMA SemSteps ==
    ASSUME MailboxAssumption, kind = "sem", SemInv, Next
    PROVE  SemInv' /\ Allowed
<1>1. ASSUME NEW d \in Channels, Sender(d) \/ Receiver(d) PROVE FALSE
  <2>1. spc[d] # "open"
    BY DEF SemInv, SemPlaces
  <2>2. kind \notin {"drain"} \union Fifos /\ kind \notin Piped /\ kind \notin Queues
    BY DEF Fifos, Piped, Queues
  <2> QED
    BY <1>1, <2>1, <2>2
       DEF Sender, Receiver, WriteFifo, WriteOnce, WriteOn, BrokenPipe, Post, Open, ReadPipe, ReadNothing, Receive, Show,
           RemoveQueue, SemInv, SemPlaces, Piped
<1>2. ASSUME Setup PROVE SemInv' /\ Allowed
  <2>1. UNCHANGED <<kind, sent, got, took, kills, typed, buf>>
    BY <1>2 DEF Setup, recvVars
  <2>2. CASE Create
    BY <2>1, <2>2, CreateKeeps
  <2>3. ASSUME NEW p \in {"sender", "receiver"}, Set!InitSem(p), UNCHANGED <<spc, rpc>> PROVE SemInv' /\ Allowed
    BY <2>1, <2>3, InitSemKeeps
  <2> QED
    BY <1>2, <2>2, <2>3 DEF Setup
<1>3. ASSUME SharedSender PROVE SemInv' /\ Allowed
  BY <1>3, BeginKeeps, CopyKeeps, TrimKeeps, SenderWaitsKeeps, SenderReleasesKeeps, SenderDeletesKeeps DEF SharedSender
<1>4. ASSUME SharedReceiver PROVE SemInv' /\ Allowed
  BY <1>4, DisplayKeeps, TestKeeps, ReceiverWaitsKeeps, ReceiverReleasesKeeps DEF SharedReceiver
<1> QED
  BY <1>1, <1>2, <1>3, <1>4, KillKeeps DEF Next

-----------------------------------------------------------------------------
(* All programs *)

\* Nothing is promised of the bare shared memory.
IInv ==
    /\ kind \in AllKinds
    /\ kind \in Piped => PipeInv
    /\ kind \in Queues => QueueInv
    /\ kind = "sem" => SemInv

LEMMA Initially == MailboxAssumption /\ Init => IInv
<1> SUFFICES ASSUME MailboxAssumption, Init PROVE IInv
  OBVIOUS
<1>1. kind \in AllKinds
  BY MailboxAssumption DEF Init
<1>2. <<>> \in Seq(Line)
  OBVIOUS
<1>3. <<>> \in Seq(Message)
  OBVIOUS
<1>4. /\ sent = [d \in Channels |-> <<>>] /\ got = [d \in Channels |-> <<>>] /\ pipe = [d \in Channels |-> <<>>]
      /\ took = [d \in Channels |-> 0] /\ held = [d \in Channels |-> Blank]
      /\ mq = <<>> /\ mqUp = TRUE /\ typed = [d \in Channels |-> 0]
  BY DEF Init
<1>5. /\ sent \in [Channels -> Seq(Line)] /\ got \in [Channels -> Seq(Line)] /\ got \in [Channels -> Seq(Shown)]
      /\ pipe \in [Channels -> Seq(Line)] /\ mq \in Seq(Message)
      /\ took \in [Channels -> Nat] /\ held \in [Channels -> Shown]
  <2>1. <<>> \in Seq(Shown)
    OBVIOUS
  <2> QED
    BY <2>1, <1>2, <1>3, <1>4 DEF Shown
<1>6. /\ spc = [d \in Channels |-> IF d \in Active THEN StartOf("write") ELSE "done"]
      /\ rpc = [d \in Channels |-> IF d \in Active THEN StartOf("read") ELSE "done"]
  BY DEF Init
<1>7. ASSUME kind \in Piped PROVE PipeInv
  <2>1. StartOf("write") \in {"open", "write"} /\ StartOf("read") \in {"open", "read"}
    BY <1>7, KindFacts DEF StartOf
  <2>2. PipePlaces
    BY <2>1, <1>6 DEF PipePlaces
  <2>3. \A d \in Channels : IsRest(pipe[d], sent[d], took[d]) /\ Len(got[d]) = took[d]
    <3>1. IsRest(<<>>, <<>>, 0)
      BY DEF IsRest
    <3>2. Len(<<>>) = 0
      OBVIOUS
    <3> QED
      BY <3>1, <3>2, <1>4
  <2>4. ASSUME kind = "drain", NEW d \in Channels, rpc[d] = "read" PROVE spc[d] = "write"
    <3>1. StartOf("write") = "write"
      BY <2>4 DEF StartOf, Fifos
    <3> QED
      BY <2>4, <3>1, <1>6
  <2> QED
    BY <2>2, <2>3, <2>4, <1>5 DEF PipeInv, PipeLines
<1>8. ASSUME kind \in Queues PROVE QueueInv
  <2>1. StartOf("write") = "write" /\ StartOf("read") = "read"
    BY <1>8, KindFacts DEF StartOf
  <2>2. QueuePlaces
    BY <2>1, <1>4, <1>6 DEF QueuePlaces
  <2>3. \A d \in Channels : Len(got[d]) <= took[d] /\ took[d] <= Len(sent[d]) /\ rpc[d] # "print"
    <3>1. Len(<<>>) = 0
      OBVIOUS
    <3> QED
      BY <3>1, <2>1, <1>4, <1>6
  <2>4. \E at : Matched(at, mq, Len(mq), sent, Lens(sent), took)
    <3>1. Len(mq) = 0 /\ \A t \in Channels : Lens(sent)[t] = 0 /\ took[t] = 0
      BY <1>4 DEF Lens
    <3>2. PICK at : at \in [1 .. 0 -> Nat]
      <4>1. [i \in 1 .. 0 |-> 0] \in [1 .. 0 -> Nat]
        OBVIOUS
      <4> QED
        BY <4>1, Zenon
    <3>3. \A i \in 1 .. 0 : FALSE
      OBVIOUS
    <3>4. \A k \in Nat : ~(k > 0 /\ k <= 0)
      OBVIOUS
    <3>5. Matched(at, mq, 0, sent, Lens(sent), took)
      BY <3>1, <3>2, <3>3, <3>4 DEF Matched
    <3> QED
      BY <3>1, <3>5
  <2> QED
    BY <2>2, <2>3, <2>4, <1>4, <1>5 DEF QueueInv, QueueLines
<1>9. ASSUME kind = "sem" PROVE SemInv
  <2>1. StartOf("write") = "create" /\ StartOf("read") = "create" /\ Active = {1}
    BY <1>9 DEF StartOf, Active, BothWays, Fifos
  <2>2. spc[1] = "create" /\ rpc[1] = "create" /\ rpc[2] = "done"
    BY <2>1, <1>6, SemFacts
  <2>3. /\ alive = FALSE /\ gen = 0 /\ val = [s \in 0 .. 1 |-> 0]
        /\ semid = [p \in {"sender", "receiver"} |-> 0] /\ ini = [p \in {"sender", "receiver"} |-> 2]
    BY SemFacts DEF Init, Set!SemInit
  <2>4. SentNo = 0 /\ TookNo = 0 /\ Len(got[1]) = 0
    BY <1>4, SemFacts DEF SentNo, TookNo
  <2>5. SemPlaces
    <3>1. spc \in [Channels -> {"create", "wait", "write", "copy", "trim", "release", "delete", "done"}]
      BY <2>1, <1>6
    <3>2. rpc \in [Channels -> {"create", "wait", "read", "test", "release", "done"}]
      BY <2>1, <1>6
    <3>3. alive \in BOOLEAN /\ gen \in Nat /\ val \in [0 .. 1 -> Nat]
      BY <2>3
    <3>4. semid \in [{"sender", "receiver"} -> Nat] /\ ini \in [{"sender", "receiver"} -> 0 .. 2]
      BY <2>3
    <3> QED
      BY <3>1, <3>2, <3>3, <3>4, <2>2 DEF SemPlaces
  <2>6. History
    BY <2>4, <1>5 DEF History
  <2>7. Memory
    BY <2>2, <2>4, <1>4, SemFacts DEF Memory, Writing, Reader
  <2>8. OneSet
    BY <2>2, <2>3, SemFacts DEF OneSet
  <2>9. OneToken
    BY <2>2, <2>3, <2>4, SemFacts DEF OneToken, Writer, Reader
  <2> QED
    BY <2>5, <2>6, <2>7, <2>8, <2>9 DEF SemInv
<1> QED
  BY <1>1, <1>7, <1>8, <1>9 DEF IInv

\* No program turns into another one.
LEMMA SameKind == Next => kind' = kind
<1> SUFFICES ASSUME Next PROVE kind' = kind
  OBVIOUS
<1>1. ASSUME NEW d \in Channels, Sender(d) PROVE kind' = kind
  BY <1>1 DEF Sender, WriteFifo, WriteOnce, WriteOn, BrokenPipe, Post
<1>2. ASSUME NEW d \in Channels, Receiver(d) \/ Kill(d) PROVE kind' = kind
  BY <1>2 DEF Receiver, Open, ReadPipe, ReadNothing, Receive, Show, RemoveQueue, Kill
<1>3. ASSUME SharedSender PROVE kind' = kind
  BY <1>3 DEF SharedSender, Begin, Copy, Trim, SenderWaits, SenderReleases, SenderDeletes
<1>4. ASSUME SharedReceiver \/ Setup PROVE kind' = kind
  BY <1>4 DEF SharedReceiver, Display, Test, ReceiverWaits, ReceiverReleases, Setup
<1> QED
  BY <1>1, <1>2, <1>3, <1>4 DEF Next

LEMMA Steps ==
    ASSUME MailboxAssumption, IInv, Next
    PROVE  IInv' /\ (kind = "shm" \/ Allowed)
<1>1. kind' = kind /\ kind \in AllKinds
  BY SameKind DEF IInv
<1>2. CASE kind \in Piped
  BY <1>1, <1>2, PipeSteps, KindFacts DEF IInv
<1>3. CASE kind \in Queues
  BY <1>1, <1>3, QueueSteps, KindFacts DEF IInv
<1>4. CASE kind = "sem"
  BY <1>1, <1>4, SemSteps, KindFacts DEF IInv
<1>5. CASE kind = "shm"
  BY <1>1, <1>5 DEF IInv, Piped, Queues
<1> QED
  BY <1>1, <1>2, <1>3, <1>4, <1>5, KindFacts

LEMMA Stutters == IInv /\ UNCHANGED vars => IInv'
<1> SUFFICES ASSUME IInv, UNCHANGED vars PROVE IInv'
  OBVIOUS
<1>1. /\ kind' = kind /\ spc' = spc /\ rpc' = rpc /\ sent' = sent /\ got' = got /\ typed' = typed /\ pipe' = pipe
      /\ mq' = mq /\ mqUp' = mqUp /\ buf' = buf /\ took' = took /\ held' = held
  BY DEF vars, recvVars
<1>2. alive' = alive /\ gen' = gen /\ val' = val /\ semid' = semid /\ ini' = ini
  BY DEF vars, semVars
<1>3. PipeInv => PipeInv'
  BY <1>1 DEF PipeInv, PipePlaces, PipeLines, AtEnd
<1>4. QueueInv => QueueInv'
  BY <1>1 DEF QueueInv, QueuePlaces, QueueLines, Lens
<1>5. SentNo' = SentNo /\ TookNo' = TookNo /\ Latest' = Latest /\ Writing' = Writing /\ Writer' = Writer /\ Reader' = Reader
  BY <1>1 DEF SentNo, TookNo, Latest, Writing, Writer, Reader
<1>6. SemInv => SemInv'
  BY <1>1, <1>2, <1>5 DEF SemInv, SemPlaces, History, Memory, OneSet, OneToken
<1> QED
  BY <1>1, <1>3, <1>4, <1>6 DEF IInv

LEMMA Invariance == ASSUME MailboxAssumption PROVE Spec => []IInv
<1>1. Init => IInv
  BY Initially, MailboxAssumption
<1>2. IInv /\ [Next]_vars => IInv'
  BY Steps, Stutters, MailboxAssumption
<1> QED
  BY <1>1, <1>2, PTL DEF Spec

-----------------------------------------------------------------------------
(* The refinement *)

LEMMA RefineInit == Init => Promise!Init
<1> SUFFICES ASSUME Init PROVE Promise!Init
  OBVIOUS
<1>1. /\ sent = [d \in Channels |-> <<>>] /\ got = [d \in Channels |-> <<>>] /\ took = [d \in Channels |-> 0] /\ kills = 0
      /\ rpc = [d \in Channels |-> IF d \in Active THEN StartOf("read") ELSE "done"]
  BY DEF Init
<1>2. \A d \in Channels : rpc[d] # "print"
  BY <1>1 DEF StartOf
<1>3. \A d \in Channels : Past(d) = 0 /\ Over(d) = FALSE
  <2>1. Len(<<>>) = 0
    OBVIOUS
  <2> QED
    BY <2>1, <1>1, <1>2 DEF Past, Over
<1>4. Faults \in SUBSET {"lose", "again", "blank"}
  BY DEF Faults
<1>5. [d \in Channels |-> Past(d)] = [d \in Channels |-> 0] /\ [d \in Channels |-> Over(d)] = [d \in Channels |-> FALSE]
  BY <1>3
<1> QED
  BY <1>1, <1>4, <1>5 DEF Promise!Init, IfBare

\* The programs with the bare shared memory are not killed.
LEMMA NobodyKills == Next /\ kind = "shm" => kills' = kills
<1> SUFFICES ASSUME Next, kind = "shm" PROVE kills' = kills
  OBVIOUS
<1>1. ASSUME NEW d \in Channels, Sender(d) PROVE kills' = kills
  BY <1>1 DEF Sender, WriteFifo, WriteOnce, WriteOn, BrokenPipe, Post
<1>2. ASSUME NEW d \in Channels, Receiver(d) PROVE kills' = kills
  BY <1>2 DEF Receiver, Open, ReadPipe, ReadNothing, Receive, Show, RemoveQueue
<1>3. ASSUME NEW d \in Channels, Kill(d) PROVE FALSE
  BY <1>3 DEF Kill, Fifos
<1>4. ASSUME SharedSender PROVE kills' = kills
  BY <1>4 DEF SharedSender, Begin, Copy, Trim, SenderWaits, SenderReleases, SenderDeletes
<1>5. ASSUME SharedReceiver \/ Setup PROVE kills' = kills
  BY <1>5 DEF SharedReceiver, Display, Test, ReceiverWaits, ReceiverReleases, Setup
<1> QED
  BY <1>1, <1>2, <1>3, <1>4, <1>5 DEF Next

LEMMA RefineStep ==
    ASSUME MailboxAssumption
    PROVE  IInv /\ [Next]_vars => [Promise!Next]_Channel
<1> SUFFICES ASSUME IInv, [Next]_vars PROVE [Promise!Next]_Channel
  OBVIOUS
<1>1. CASE Next
  <2>1. kind' = kind
    BY <1>1, SameKind
  <2>2. kind = "shm" \/ Promise!Next \/ Idle
    BY <1>1, Steps, MailboxAssumption DEF Allowed
  <2>3. kind = "shm" \/ Idle => kills' = kills
    BY <1>1, NobodyKills DEF Idle
  <2> QED
    BY <2>1, <2>2, <2>3, QuietStep
<1>2. CASE UNCHANGED vars
  <2>1. kind' = kind /\ kills' = kills /\ sent' = sent /\ got' = got /\ took' = took /\ rpc' = rpc
    BY <1>2 DEF vars, recvVars
  <2>2. Idle
    BY <2>1 DEF Idle, Past, Over
  <2> QED
    BY <2>1, <2>2, QuietStep
<1> QED
  BY <1>1, <1>2

\* Every program but the one with the bare shared memory delivers its lines in
\* order, for any number of lines, any capacity and any number of kills.  None is
\* left out but one for each kill of a receiver of 17, taken by msgrcv and not yet
\* printed; none is displayed twice but the last one, by 10 at the end of its pipe
\* and by 20 after its semaphores were deleted; nothing else is displayed but the
\* empty buffer of 12 at the end of its FIFO.
THEOREM ImplementsLineTransfer == Spec => IsLineTransfer
<1>1. MailboxAssumption
  BY MailboxAssumption
<1> QED
  BY <1>1, RefineInit, RefineStep, Invariance, PTL DEF Spec, IsLineTransfer, Promise!Spec, Promise!channelVars, Channel

-----------------------------------------------------------------------------
(* Types, limits, and what each program leaves alone *)

Bounds ==
    /\ kind \in Kinds
    /\ typed \in [Channels -> Nat]
    /\ paced \subseteq Channels
    /\ kills \in 0 .. MaxKills
    /\ Len(mq) <= Cap

\* Each program keeps to its own medium.
Unused ==
    /\ kind \notin Piped => pipe = [d \in Channels |-> <<>>]
    /\ kind \notin Queues => mq = <<>> /\ mqUp = TRUE /\ held = [d \in Channels |-> Blank]
    /\ kind # "sem" =>
          /\ alive = FALSE /\ val = [s \in 0 .. 1 |-> 0]
          /\ ini = [p \in {"sender", "receiver"} |-> 2]

\* The bare shared memory: while the newline is in it, the rest is a line.
BareInv ==
    /\ spc \in [Channels -> {"write", "copy", "trim", "done"}]
    /\ rpc \in [Channels -> {"read", "test", "done"}]
    /\ sent \in [Channels -> Seq(Line)] /\ took \in [Channels -> Nat]
    /\ spc[1] = "trim" => \E line \in Line : buf = Untrimmed(line)

\* After the sender has deleted the set there is no token any more: a receiver
\* that makes a set of its own waits for semaphore 1 for ever.
LateReceiver ==
    spc[1] = "done" =>
        /\ val[0] <= 1 /\ val[1] <= 1
        /\ alive => /\ rpc[1] \in {"create", "wait"} /\ val[1] = 0
                    /\ rpc[1] = "wait" => semid["receiver"] = gen

FullInv ==
    /\ IInv /\ Bounds /\ Unused
    /\ kind = "shm" => BareInv
    /\ kind = "sem" => LateReceiver

\* A line that is typed is a line.
LEMMA TypedLines ==
    ASSUME MailboxAssumption, NEW d \in Channels
    PROVE  Typed(d) \subseteq Line
<1>1. QuitNo \in Nat
  BY MailboxAssumption DEF QuitNo
<1> QED
  BY <1>1 DEF Typed, Line

LEMMA CountedTyped ==
    ASSUME typed \in [Channels -> Nat], NEW d \in Channels, Counted(d)
    PROVE  typed' \in [Channels -> Nat]
<1>1. typed' = [typed EXCEPT ![d] = @ + 1]
  BY DEF Counted
<1> QED
  BY <1>1

\* A message is put only where there is room, and a message less leaves more.
LEMMA QueueBounded ==
    ASSUME MailboxAssumption, IInv, Len(mq) <= Cap, NEW d \in Channels, Post(d) \/ Receive(d) \/ RemoveQueue(d)
    PROVE  Len(mq') <= Cap
<1>3. Cap \in Nat
  BY MailboxAssumption
<1>6. CASE RemoveQueue(d)
  <2>1. Len(<<>>) = 0
    OBVIOUS
  <2>2. mq' = <<>>
    BY <1>6 DEF RemoveQueue
  <2> QED
    BY <2>1, <2>2, <1>3
<1> SUFFICES ASSUME Post(d) \/ Receive(d) PROVE Len(mq') <= Cap
  BY <1>6
<1>1. kind \in Queues /\ QueueInv
  BY DEF IInv, Post, Receive
<1>2. PICK n \in Nat : n = Len(mq) /\ DOMAIN mq = 1 .. n
  BY <1>1, LenProperties DEF QueueInv, QueueLines
<1>4. CASE Post(d)
  <2>1. PICK type \in Channels, line \in Typed(d) : mq' = Append(mq, [type |-> type, line |-> line])
    BY <1>4 DEF Post
  <2>2. [type |-> type, line |-> line] \in Message
    BY <2>1, TypedLines, MailboxAssumption DEF Message
  <2>3. PICK m \in Message : m = [type |-> type, line |-> line]
    BY <2>2
  <2>4. \E a \in Seq(Message) : a = Append(mq, m) /\ IsAppended(a, mq, m, n)
    BY <1>1, <1>2, <2>3, Appended DEF QueueInv, QueueLines
  <2>5. Len(mq') = n + 1
    BY <2>1, <2>3, <2>4 DEF IsAppended
  <2>6. n < Cap
    BY <1>2, <1>4 DEF Post
  <2> QED
    BY <2>5, <2>6, <1>3
<1>5. CASE Receive(d)
  <2>1. PICK i : i = Min(OfType(d))
    OBVIOUS
  <2>2. mq' = RemoveAt(mq, i)
    BY <1>5, <2>1, Zenon DEF Receive
  <2>3. i \in 1 .. n
    <3>1. OfType(d) \in SUBSET Nat /\ OfType(d) # {}
      BY <1>2, <1>5 DEF OfType, Receive
    <3>2. i \in OfType(d)
      BY <2>1, <3>1, SmallestOf
    <3> QED
      BY <3>2, <1>2 DEF OfType
  <2>4. \E z \in Seq(Message) : z = RemoveAt(mq, i) /\ IsRemoved(z, mq, n, i)
    BY <1>1, <1>2, <2>3, Removed DEF QueueInv, QueueLines
  <2>5. Len(RemoveAt(mq, i)) = n - 1
    BY <2>4 DEF IsRemoved
  <2>6. n <= Cap
    BY <1>2
  <2> QED
    BY <2>2, <2>5, <2>6, <1>2, <1>3
<1> QED
  BY <1>4, <1>5

LEMMA BoundsKept ==
    ASSUME MailboxAssumption, IInv, Bounds, Next
    PROVE  Bounds'
<1>1. kind' = kind /\ kind' \in Kinds
  BY SameKind DEF Bounds
<1>2. ASSUME NEW d \in Channels, Sender(d) PROVE Bounds'
  <2>1. CASE WriteFifo(d)
    <3>1. typed' \in [Channels -> Nat]
      BY <2>1, CountedTyped DEF WriteFifo, Bounds
    <3>2. paced' \subseteq Channels
      BY <2>1, Zenon DEF WriteFifo, Bounds
    <3>3. mq' = mq /\ kills' = kills
      BY <2>1 DEF WriteFifo
    <3> QED
      BY <3>1, <3>2, <3>3, <1>1 DEF Bounds
  <2>2. CASE Post(d)
    <3>1. typed' \in [Channels -> Nat]
      BY <2>2, CountedTyped DEF Post, Bounds
    <3>2. Len(mq') <= Cap
      BY <2>2, QueueBounded, MailboxAssumption DEF Bounds
    <3>3. paced' = paced /\ kills' = kills
      BY <2>2 DEF Post
    <3> QED
      BY <3>1, <3>2, <3>3, <1>1 DEF Bounds
  <2>3. CASE WriteOnce(d) \/ WriteOn(d) \/ BrokenPipe(d)
    <3>1. typed' = typed /\ paced' = paced /\ kills' = kills /\ mq' = mq
      BY <2>3 DEF WriteOnce, WriteOn, BrokenPipe
    <3> QED
      BY <3>1, <1>1 DEF Bounds
  <2> QED
    BY <1>2, <2>1, <2>2, <2>3 DEF Sender
<1>3. ASSUME NEW d \in Channels, Receiver(d) PROVE Bounds'
  <2>1. typed' = typed /\ paced' = paced /\ kills' = kills
    BY <1>3 DEF Receiver, Open, ReadPipe, ReadNothing, Receive, Show, RemoveQueue
  <2>2. CASE Receive(d) \/ RemoveQueue(d)
    BY <2>1, <2>2, <1>1, QueueBounded, MailboxAssumption DEF Bounds
  <2>3. CASE Open(d) \/ ReadPipe(d) \/ ReadNothing(d) \/ Show(d)
    <3>1. mq' = mq
      BY <2>3 DEF Open, ReadPipe, ReadNothing, Show
    <3> QED
      BY <2>1, <3>1, <1>1 DEF Bounds
  <2> QED
    BY <1>3, <2>2, <2>3 DEF Receiver
<1>4. ASSUME NEW d \in Channels, Kill(d) PROVE Bounds'
  <2>1. typed' = typed /\ paced' = paced /\ mq' = mq /\ kills < MaxKills /\ kills' = kills + 1
    BY <1>4 DEF Kill
  <2> QED
    BY <2>1, <1>1, MailboxAssumption DEF Bounds
<1>5. ASSUME Copy PROVE Bounds'
  <2>1. typed' \in [Channels -> Nat]
    BY <1>5, CountedTyped, SemFacts DEF Copy, Bounds
  <2>2. paced' = paced /\ kills' = kills /\ mq' = mq
    BY <1>5 DEF Copy
  <2> QED
    BY <2>1, <2>2, <1>1 DEF Bounds
<1>6. ASSUME Begin \/ Trim \/ SenderWaits \/ SenderReleases \/ SenderDeletes \/ SharedReceiver \/ Setup PROVE Bounds'
  <2>1. typed' = typed /\ paced' = paced /\ kills' = kills /\ mq' = mq
    BY <1>6 DEF Begin, Trim, SenderWaits, SenderReleases, SenderDeletes, SharedReceiver, Display, Test,
                ReceiverWaits, ReceiverReleases, Setup
  <2> QED
    BY <2>1, <1>1 DEF Bounds
<1> QED
  BY <1>2, <1>3, <1>4, <1>5, <1>6 DEF Next, SharedSender

\* No program touches the medium of another one.
LEMMA UnusedKept ==
    ASSUME IInv, Unused, kind = "shm" => BareInv, Next
    PROVE  Unused'
<1>1. kind' = kind
  BY SameKind
<1>2. ASSUME kind \notin Piped PROVE pipe' = pipe
  <2>1. kind \notin {"pipe", "drain"} /\ kind # "flood" /\ kind \notin Fifos
    BY <1>2 DEF Piped, Fifos
  <2>2. ASSUME NEW d \in Channels, Sender(d) PROVE pipe' = pipe
    BY <1>2, <2>1, <2>2 DEF Sender, WriteFifo, WriteOnce, WriteOn, BrokenPipe, Post
  <2>3. ASSUME NEW d \in Channels, Receiver(d) \/ Kill(d) PROVE pipe' = pipe
    BY <1>2, <2>3 DEF Receiver, Open, ReadPipe, ReadNothing, Receive, Show, RemoveQueue, Kill
  <2>4. ASSUME SharedSender \/ SharedReceiver \/ Setup PROVE pipe' = pipe
    BY <2>4 DEF SharedSender, Begin, Copy, Trim, SenderWaits, SenderReleases, SenderDeletes, SharedReceiver,
                Display, Test, ReceiverWaits, ReceiverReleases, Setup
  <2> QED
    BY <2>2, <2>3, <2>4 DEF Next
<1>3. ASSUME kind \notin Queues PROVE mq' = mq /\ mqUp' = mqUp /\ held' = [d \in Channels |-> Blank]
  <2>1. ASSUME NEW d \in Channels, Sender(d) PROVE mq' = mq /\ mqUp' = mqUp /\ held' = held
    BY <1>3, <2>1 DEF Sender, WriteFifo, WriteOnce, WriteOn, BrokenPipe, Post, recvVars
  <2>2. \A d \in Channels : rpc[d] \notin {"print", "remove"}
    BY <1>3, KindFacts DEF IInv, PipeInv, PipePlaces, SemInv, SemPlaces, BareInv
  <2>3. ASSUME NEW d \in Channels, Receiver(d) PROVE mq' = mq /\ mqUp' = mqUp /\ held' = held
    BY <1>3, <2>2, <2>3 DEF Receiver, Open, ReadPipe, ReadNothing, Receive, Show, RemoveQueue, recvVars
  <2>4. held = [d \in Channels |-> Blank]
    BY <1>3 DEF Unused
  <2>5. ASSUME NEW d \in Channels, Kill(d) PROVE mq' = mq /\ mqUp' = mqUp /\ held' = held
    BY <2>4, <2>5 DEF Kill
  <2>6. ASSUME SharedSender \/ SharedReceiver \/ Setup PROVE mq' = mq /\ mqUp' = mqUp /\ held' = held
    BY <2>6 DEF SharedSender, Begin, Copy, Trim, SenderWaits, SenderReleases, SenderDeletes, SharedReceiver,
                Display, Test, ReceiverWaits, ReceiverReleases, Setup, recvVars
  <2> QED
    BY <2>1, <2>3, <2>4, <2>5, <2>6 DEF Next
<1>4. ASSUME kind # "sem" PROVE alive' = alive /\ val' = val /\ ini' = ini
  <2>1. /\ spc[1] \notin {"create", "wait", "release", "delete"}
        /\ rpc[1] \notin {"create", "wait", "release"}
    BY <1>4, KindFacts, SemFacts DEF IInv, PipeInv, PipePlaces, QueueInv, QueuePlaces, BareInv
  <2>2. \A p \in {"sender", "receiver"} : ini[p] = 2
    BY <1>4 DEF Unused
  <2>3. ASSUME NEW d \in Channels, Sender(d) \/ Receiver(d) PROVE UNCHANGED semVars
    BY <2>3 DEF Sender, WriteFifo, WriteOnce, WriteOn, BrokenPipe, Post, Receiver, Open, ReadPipe, ReadNothing,
                Receive, Show, RemoveQueue
  <2>4. ASSUME NEW d \in Channels, Kill(d) PROVE UNCHANGED semVars
    BY <1>4, <2>4 DEF Kill
  <2>5. ASSUME Begin \/ Copy \/ Trim \/ Display \/ Test PROVE UNCHANGED semVars
    BY <2>5 DEF Begin, Copy, Trim, Display, Test
  <2>6. ~SenderWaits /\ ~SenderReleases /\ ~SenderDeletes /\ ~ReceiverWaits /\ ~ReceiverReleases /\ ~Create
    BY <2>1 DEF SenderWaits, SenderReleases, SenderDeletes, ReceiverWaits, ReceiverReleases, Create
  <2>7. \A p \in {"sender", "receiver"} : ~Set!InitSem(p)
    BY <2>2 DEF Set!InitSem, Set!Created
  <2>8. UNCHANGED semVars
    BY <2>3, <2>4, <2>5, <2>6, <2>7 DEF Next, SharedSender, SharedReceiver, Setup
  <2> QED
    BY <2>8 DEF semVars
<1> QED
  BY <1>1, <1>2, <1>3, <1>4 DEF Unused

\* The line in the bare shared memory, and where its two programs are.
LEMMA BareKept ==
    ASSUME MailboxAssumption, kind = "shm", BareInv, Next
    PROVE  BareInv'
<1> USE DEF BareInv
<1>1. kind \notin Piped /\ kind \notin Queues /\ kind \notin Fifos /\ kind \notin {"drain"} \union Fifos
  BY DEF Piped, Queues, Fifos
<1>2. /\ spc[1] \notin {"create", "wait", "release", "delete"} /\ rpc[1] \notin {"create", "wait", "release"}
      /\ \A d \in Channels : spc[d] # "open" /\ rpc[d] \notin {"print", "remove"}
  BY SemFacts
<1>3. ASSUME NEW d \in Channels, Sender(d) \/ Receiver(d) \/ Kill(d) PROVE FALSE
  BY <1>1, <1>2, <1>3 DEF Sender, WriteFifo, WriteOnce, WriteOn, BrokenPipe, Post, Receiver, Open, ReadPipe,
                          ReadNothing, Receive, Show, RemoveQueue, Kill, Piped
<1>4. ~SenderWaits /\ ~SenderReleases /\ ~SenderDeletes /\ ~ReceiverWaits /\ ~ReceiverReleases /\ ~Create
  BY <1>2 DEF SenderWaits, SenderReleases, SenderDeletes, ReceiverWaits, ReceiverReleases, Create
<1>5. CASE Begin
  <2>1. spc' = [spc EXCEPT ![1] = "copy"] /\ rpc' = rpc /\ sent' = sent /\ took' = took
    BY <1>5 DEF Begin, recvVars
  <2> QED
    BY <2>1, SemFacts
<1>6. CASE Copy
  <2>1. spc' = [spc EXCEPT ![1] = "trim"] /\ rpc' = rpc /\ sent' = sent /\ took' = took
    BY <1>6 DEF Copy, recvVars
  <2>2. \E line \in Line : buf' = Untrimmed(line)
    BY <1>6, TypedLines, SemFacts DEF Copy
  <2> QED
    BY <2>1, <2>2, SemFacts
<1>7. CASE Trim
  <2>1. PICK line : line = <<buf[1], -1 - buf[2]>>
    OBVIOUS
  <2>2. PICK place \in {"done", "write"} : spc' = [spc EXCEPT ![1] = place]
    BY <1>7 DEF Trim
  <2>3. rpc' = rpc /\ took' = took /\ spc[1] = "trim" /\ sent' = [sent EXCEPT ![1] = Append(@, line)]
    BY <1>7, <2>1 DEF Trim, recvVars
  <2>4. line \in Line
    <3>1. PICK l \in Line : buf = Untrimmed(l)
      BY <2>3
    <3>2. QuitNo \in Nat
      BY MailboxAssumption DEF QuitNo
    <3>3. PICK a \in Channels, n \in 1 .. QuitNo : l = <<a, n>>
      BY DEF Line
    <3>4. buf[1] = a /\ buf[2] = -1 - n
      BY <3>1, <3>3 DEF Untrimmed
    <3>5. n \in Int /\ -1 - (-1 - n) = n
      BY <3>2
    <3> QED
      BY <2>1, <3>3, <3>4, <3>5 DEF Line
  <2>5. sent[1] \in Seq(Line)
    BY SemFacts
  <2>6. Append(sent[1], line) \in Seq(Line)
    BY <2>4, <2>5
  <2>7. sent' \in [Channels -> Seq(Line)]
    BY <2>3, <2>6
  <2> QED
    BY <2>2, <2>3, <2>7, SemFacts
<1>8. CASE Display
  <2>1. rpc' = [rpc EXCEPT ![1] = "test"] /\ spc' = spc /\ sent' = sent /\ buf' = buf
    BY <1>8 DEF Display
  <2>2. PICK n \in Nat : n = Len(sent[1])
    BY SemFacts, LenProperties
  <2>3. took' = [took EXCEPT ![1] = n]
    BY <1>8, <2>2 DEF Display
  <2> QED
    BY <2>1, <2>3
<1>9. CASE Test
  <2>1. PICK place \in {"done", "read"} : rpc' = [rpc EXCEPT ![1] = place]
    BY <1>9 DEF Test
  <2>2. spc' = spc /\ sent' = sent /\ buf' = buf /\ took' = took
    BY <1>9 DEF Test, recvVars
  <2> QED
    BY <2>1, <2>2
<1>10. CASE Setup
  <2>1. UNCHANGED <<spc, rpc, sent, buf, took>>
    BY <1>4, <1>10 DEF Setup, recvVars
  <2> QED
    BY <2>1
<1> QED
  BY <1>3, <1>4, <1>5, <1>6, <1>7, <1>8, <1>9, <1>10 DEF Next, SharedSender, SharedReceiver

\* The sender leaves no token behind, and nobody makes one afterwards.
LEMMA LateKept ==
    ASSUME kind = "sem", SemInv, LateReceiver, Next
    PROVE  LateReceiver'
<1> USE DEF SemInv
<1>1. /\ spc \in [Channels -> {"create", "wait", "write", "copy", "trim", "release", "delete", "done"}]
      /\ rpc \in [Channels -> {"create", "wait", "read", "test", "release", "done"}]
      /\ val \in [0 .. 1 -> Nat] /\ semid \in [{"sender", "receiver"} -> Nat] /\ gen \in Nat
      /\ ini \in [{"sender", "receiver"} -> 0 .. 2] /\ alive \in BOOLEAN
  BY DEF SemPlaces
<1>2. ASSUME NEW d \in Channels, Sender(d) \/ Receiver(d) PROVE FALSE
  <2>1. spc[d] # "open" /\ kind \notin {"drain"} \union Fifos /\ kind \notin Piped /\ kind \notin Queues
    BY <1>1 DEF Fifos, Piped, Queues
  <2>2. rpc[d] \notin {"print", "remove"}
    BY <1>1
  <2> QED
    BY <1>2, <2>1, <2>2
       DEF Sender, WriteFifo, WriteOnce, WriteOn, BrokenPipe, Post, Receiver, Open, ReadPipe, ReadNothing, Receive,
           Show, RemoveQueue, Piped
<1>3. CASE Begin \/ Copy \/ Trim \/ SenderWaits \/ SenderReleases
  <2>1. PICK place : place # "done" /\ spc' = [spc EXCEPT ![1] = place]
    BY <1>3 DEF Begin, Copy, Trim, SenderWaits, SenderReleases
  <2>2. spc'[1] # "done"
    BY <2>1, <1>1, SemFacts
  <2> QED
    BY <2>2 DEF LateReceiver
<1>4. CASE SenderDeletes
  <2>1. spc[1] = "delete" /\ alive' = (alive /\ ~(alive /\ semid["sender"] = gen)) /\ val' = val
    BY <1>4 DEF SenderDeletes, Set!Delete, Set!Valid
  <2>2. semid["sender"] = gen /\ val[0] <= 1 /\ val[1] <= 1
    BY <2>1 DEF OneSet, OneToken
  <2>3. alive' = FALSE
    BY <2>1, <2>2
  <2> QED
    BY <2>1, <2>2, <2>3 DEF LateReceiver
<1>5. CASE Display \/ Test
  <2>1. /\ rpc[1] \in {"read", "test"} /\ spc' = spc
        /\ UNCHANGED <<alive, gen, val, semid>>
    BY <1>5 DEF Display, Test, semVars
  <2>2. spc[1] = "done" => ~alive
    BY <2>1 DEF LateReceiver
  <2> QED
    BY <2>1, <2>2 DEF LateReceiver
<1>6. CASE ReceiverWaits
  <2>1. rpc[1] = "wait" /\ spc' = spc /\ Set!P("receiver", 1)
    BY <1>6 DEF ReceiverWaits
  <2>2. /\ alive' = alive
        /\ alive /\ semid["receiver"] = gen => val[1] > 0
        /\ val' = IF alive /\ semid["receiver"] = gen THEN [val EXCEPT ![1] = @ - 1] ELSE val
    BY <2>1 DEF Set!P, Set!Valid
  <2>3. spc[1] = "done" => ~alive
    BY <2>1, <2>2 DEF LateReceiver
  <2> QED
    BY <2>1, <2>2, <2>3 DEF LateReceiver
<1>7. CASE ReceiverReleases
  <2>1. rpc[1] = "release" /\ spc' = spc /\ alive' = alive
        /\ val' = IF alive /\ semid["receiver"] = gen THEN [val EXCEPT ![0] = @ + 1] ELSE val
    BY <1>7 DEF ReceiverReleases, Set!V, Set!Valid
  <2>2. spc[1] = "done" => ~alive
    BY <2>1 DEF LateReceiver
  <2> QED
    BY <2>1, <2>2 DEF LateReceiver
<1>8. CASE Create
  <2>1. CASE spc[1] = "create" /\ spc' = [spc EXCEPT ![1] = "wait"]
    <3>1. spc'[1] = "wait"
      BY <2>1, <1>1, SemFacts
    <3> QED
      BY <3>1 DEF LateReceiver
  <2>2. CASE rpc[1] = "create" /\ Set!CreateSem("receiver") /\ rpc' = [rpc EXCEPT ![1] = "wait"] /\ spc' = spc
    <3>1. rpc'[1] = "wait"
      BY <2>2, <1>1, SemFacts
    <3>2. CASE alive
      <4>1. alive' = alive /\ val' = val /\ gen' = gen /\ semid' = [semid EXCEPT !["receiver"] = gen]
        BY <2>2, <3>2 DEF Set!CreateSem
      <4>2. semid'["receiver"] = gen'
        BY <4>1, <1>1
      <4> QED
        BY <4>1, <4>2, <3>1, <3>2, <2>2 DEF LateReceiver
    <3>3. CASE ~alive
      <4>1. val' = [s \in 0 .. 1 |-> 0] /\ gen' = gen + 1 /\ semid' = [semid EXCEPT !["receiver"] = gen + 1]
        BY <2>2, <3>3, SemFacts DEF Set!CreateSem
      <4>2. semid'["receiver"] = gen' /\ val'[0] = 0 /\ val'[1] = 0
        BY <4>1, <1>1
      <4> QED
        BY <4>2, <3>1 DEF LateReceiver
    <3> QED
      BY <3>2, <3>3
  <2> QED
    BY <1>8, <2>1, <2>2 DEF Create
<1>9. ASSUME NEW p \in {"sender", "receiver"}, Set!InitSem(p), UNCHANGED <<spc, rpc>> PROVE LateReceiver'
  <2>1. ini[p] \in 0 .. 1
    BY <1>1, <1>9 DEF Set!InitSem, Set!Created
  <2>2. PICK i \in 0 .. 1 : i = ini[p]
    BY <2>1
  <2>3. [s \in 0 .. 1 |-> 1 - s][i] = 1 - i
    BY <2>2
  <2>4. val' = val \/ val' = [val EXCEPT ![i] = 1 - i]
    BY <2>2, <2>3, <1>9 DEF Set!InitSem
  <2>5. val'[0] \in {val[0], 1} /\ val'[1] \in {val[1], 0}
    BY <2>2, <2>4, <1>1
  <2>6. UNCHANGED <<alive, gen, semid>>
    BY <1>9 DEF Set!InitSem
  <2> QED
    BY <2>5, <2>6, <1>9 DEF LateReceiver
<1>10. CASE Setup
  BY <1>8, <1>9, <1>10 DEF Setup
<1>11. ASSUME NEW d \in Channels, Kill(d) PROVE LateReceiver'
  <2>1. rpc[2] = "done"
    BY DEF SemPlaces
  <2>2. d = 1
    BY <1>11, <2>1 DEF Kill, Channels
  <2>3. rpc' = [rpc EXCEPT ![1] = "create"] /\ spc' = spc /\ UNCHANGED <<alive, gen, val, semid>>
    BY <1>11, <2>2 DEF Kill, Set!Abandon, Fifos
  <2>4. rpc'[1] = "create"
    BY <2>3, <1>1, SemFacts
  <2> QED
    BY <2>3, <2>4 DEF LateReceiver
<1> QED
  BY <1>2, <1>3, <1>4, <1>5, <1>6, <1>7, <1>10, <1>11 DEF Next, SharedSender, SharedReceiver

LEMMA InitT == MailboxAssumption /\ Init => FullInv
<1> SUFFICES ASSUME MailboxAssumption, Init PROVE FullInv
  OBVIOUS
<1>1. IInv
  BY Initially, MailboxAssumption
<1>2. /\ pipe = [d \in Channels |-> <<>>] /\ mq = <<>> /\ mqUp = TRUE /\ kind \in Kinds /\ paced = {} /\ kills = 0
      /\ typed = [d \in Channels |-> 0] /\ sent = [d \in Channels |-> <<>>]
      /\ took = [d \in Channels |-> 0] /\ held = [d \in Channels |-> Blank]
  BY DEF Init
<1>3. alive = FALSE /\ val = [s \in 0 .. 1 |-> 0] /\ ini = [p \in {"sender", "receiver"} |-> 2]
  BY SemFacts DEF Init, Set!SemInit
<1>4. Bounds
  <2>1. Len(<<>>) = 0
    OBVIOUS
  <2> QED
    BY <1>2, <2>1, MailboxAssumption DEF Bounds
<1>5. Unused
  BY <1>2, <1>3, SemFacts DEF Unused
<1>6. ASSUME kind = "shm" PROVE BareInv
  <2>1. StartOf("write") = "write" /\ StartOf("read") = "read" /\ Active = {1}
    BY <1>6 DEF StartOf, Active, BothWays, Fifos
  <2>2. /\ spc = [d \in Channels |-> IF d \in Active THEN "write" ELSE "done"]
        /\ rpc = [d \in Channels |-> IF d \in Active THEN "read" ELSE "done"]
    BY <2>1 DEF Init
  <2>3. spc \in [Channels -> {"write", "copy", "trim", "done"}] /\ rpc \in [Channels -> {"read", "test", "done"}]
    BY <2>2
  <2>4. <<>> \in Seq(Line)
    OBVIOUS
  <2>5. sent \in [Channels -> Seq(Line)] /\ took \in [Channels -> Nat] /\ spc[1] # "trim"
    BY <2>2, <2>4, <1>2, SemFacts
  <2> QED
    BY <2>3, <2>5 DEF BareInv
<1>7. ASSUME kind = "sem" PROVE LateReceiver
  BY <1>3 DEF LateReceiver
<1> QED
  BY <1>1, <1>4, <1>5, <1>6, <1>7 DEF FullInv

LEMMA NextT == MailboxAssumption /\ FullInv /\ [Next]_vars => FullInv'
<1> SUFFICES ASSUME MailboxAssumption, FullInv, [Next]_vars PROVE FullInv'
  OBVIOUS
<1> USE DEF FullInv
<1>1. CASE Next
  <2>1. kind' = kind
    BY <1>1, SameKind
  <2>2. IInv'
    BY <1>1, Steps, MailboxAssumption
  <2>3. Bounds' /\ Unused'
    BY <1>1, BoundsKept, UnusedKept, MailboxAssumption
  <2>4. kind = "shm" => BareInv'
    BY <1>1, BareKept, MailboxAssumption
  <2>5. kind = "sem" => LateReceiver'
    BY <1>1, LateKept DEF IInv
  <2> QED
    BY <2>1, <2>2, <2>3, <2>4, <2>5
<1>2. CASE UNCHANGED vars
  <2>1. IInv'
    BY <1>2, Stutters
  <2>2. /\ kind' = kind /\ spc' = spc /\ rpc' = rpc /\ sent' = sent /\ got' = got /\ typed' = typed /\ pipe' = pipe
        /\ mq' = mq /\ mqUp' = mqUp /\ buf' = buf /\ paced' = paced /\ kills' = kills /\ took' = took /\ held' = held
    BY <1>2 DEF vars, recvVars
  <2>3. alive' = alive /\ gen' = gen /\ val' = val /\ semid' = semid /\ ini' = ini
    BY <1>2 DEF vars, semVars
  <2>4. Bounds' /\ Unused'
    BY <2>2, <2>3 DEF Bounds, Unused
  <2>5. (BareInv => BareInv') /\ (LateReceiver => LateReceiver')
    BY <2>2, <2>3 DEF BareInv, LateReceiver
  <2> QED
    BY <2>1, <2>2, <2>4, <2>5
<1> QED
  BY <1>1, <1>2

LEMMA AllInvariance == ASSUME MailboxAssumption PROVE Spec => []FullInv
<1>1. Init => FullInv
  BY InitT, MailboxAssumption
<1>2. FullInv /\ [Next]_vars => FullInv'
  BY NextT, MailboxAssumption
<1> QED
  BY <1>1, <1>2, PTL DEF Spec

LEMMA TypesHold == ASSUME MailboxAssumption, FullInv PROVE TypeOK
<1> DEFINE SPlaces == {"open", "create", "wait", "write", "copy", "trim", "release", "delete", "done", "killed"}
           RPlaces == {"open", "create", "wait", "read", "print", "remove", "test", "release", "spin", "done", "killed"}
<1>1. kind \in Piped \/ kind \in Queues \/ kind = "shm" \/ kind = "sem"
  BY KindFacts DEF FullInv, IInv
<1>2. /\ kind \in Piped => PipeInv
      /\ kind \in Queues => QueueInv
      /\ kind = "sem" => SemInv /\ LateReceiver
      /\ kind = "shm" => BareInv
      /\ Bounds /\ Unused
  BY DEF FullInv, IInv
<1>3. spc \in [Channels -> SPlaces]
  BY <1>1, <1>2 DEF PipeInv, PipePlaces, QueueInv, QueuePlaces, SemInv, SemPlaces, BareInv
<1>4. rpc \in [Channels -> RPlaces]
  BY <1>1, <1>2 DEF PipeInv, PipePlaces, QueueInv, QueuePlaces, SemInv, SemPlaces, BareInv
<1>5. sent \in [Channels -> Seq(Line)] /\ took \in [Channels -> Nat]
  BY <1>1, <1>2 DEF PipeInv, PipeLines, QueueInv, QueueLines, SemInv, History, BareInv
<1>6. pipe \in [Channels -> Seq(Line)]
  <2>1. CASE kind \in Piped
    BY <2>1, <1>2 DEF PipeInv, PipeLines
  <2>2. CASE kind \notin Piped
    <3>1. <<>> \in Seq(Line)
      OBVIOUS
    <3>2. pipe = [d \in Channels |-> <<>>]
      BY <2>2, <1>2 DEF Unused
    <3> QED
      BY <3>1, <3>2
  <2> QED
    BY <2>1, <2>2
<1>7. mq \in Seq(Message) /\ mqUp \in BOOLEAN
  <2>1. CASE kind \in Queues
    BY <2>1, <1>2 DEF QueueInv, QueueLines, QueuePlaces
  <2>2. CASE kind \notin Queues
    <3>1. <<>> \in Seq(Message)
      OBVIOUS
    <3> QED
      BY <2>2, <3>1, <1>2 DEF Unused
  <2> QED
    BY <2>1, <2>2
<1>8. alive \in BOOLEAN /\ val \in [0 .. 1 -> 0 .. 1]
  <2>1. CASE kind = "sem"
    <3>1. alive \in BOOLEAN /\ val \in [0 .. 1 -> Nat]
      BY <2>1, <1>2 DEF SemInv, SemPlaces
    <3>2. val[0] <= 1 /\ val[1] <= 1
      BY <2>1, <1>2 DEF SemInv, OneToken, LateReceiver
    <3>3. \A s \in 0 .. 1 : val[s] \in 0 .. 1
      <4> SUFFICES ASSUME NEW s \in 0 .. 1 PROVE val[s] \in 0 .. 1
        OBVIOUS
      <4>1. s = 0 \/ s = 1
        OBVIOUS
      <4> QED
        BY <4>1, <3>1, <3>2
    <3> QED
      BY <3>1, <3>3
  <2>2. CASE kind # "sem"
    <3>1. alive = FALSE /\ val = [s \in 0 .. 1 |-> 0]
      BY <2>2, <1>2 DEF Unused
    <3>2. alive \in BOOLEAN
      BY <3>1
    <3>3. val \in [0 .. 1 -> 0 .. 1]
      BY <3>1
    <3> QED
      BY <3>2, <3>3
  <2> QED
    BY <2>1, <2>2
<1>9. held \in [Channels -> Line \union {Blank}]
  BY <1>1, <1>2 DEF QueueInv, QueueLines, Unused, Shown
<1> QED
  BY <1>2, <1>3, <1>4, <1>5, <1>6, <1>7, <1>8, <1>9 DEF TypeOK, Bounds, Message

\* The variables keep their types: the queue never holds more than its limit
\* (msgsnd blocks), and no semaphore ever counts two tokens, the sets included
\* that a late receiver makes for itself.
THEOREM MailboxTypes == Spec => []TypeOK
<1>1. MailboxAssumption
  BY MailboxAssumption
<1>2. FullInv => TypeOK
  BY <1>1, TypesHold
<1> QED
  BY <1>1, <1>2, AllInvariance, PTL

-----------------------------------------------------------------------------
(* What the promise means for what was displayed *)

\* The lines that a receiver may lose on its way.
Losses == IF kind = "msgq" THEN kills ELSE 0

\* The first n of the lines g displayed are lines of s, in order, of which at most
\* L were left out so far; p lines of s have been dealt with.  What comes behind
\* them comes at the end: empty lines, or the last line over again.
IsChain(at, n, g, s, p, L, k) ==
    /\ n \in Nat /\ n <= Len(g) /\ p \in Nat /\ p <= Len(s) /\ p <= n + L
    /\ at \in [1 .. n -> 1 .. p]
    /\ \A i \in 1 .. n : g[i] = s[at[i]] /\ at[i] <= i + L
    /\ \A i, j \in 1 .. n : i < j => at[i] < at[j]
    /\ \A i \in n + 1 .. Len(g) : IF k \in Fifos THEN g[i] = Blank ELSE n > 0 /\ g[i] = g[n]

LEMMA ChainSends ==
    ASSUME NEW S, NEW s \in Seq(S), NEW l \in Seq(S), NEW at, NEW n, NEW g, NEW p, NEW L, NEW k, IsChain(at, n, g, s, p, L, k)
    PROVE  IsChain(at, n, g, s \o l, p, L, k)
<1>1. PICK m \in Nat, c \in Nat : m = Len(s) /\ c = Len(l)
  BY LenProperties
<1>2. PICK t : t = s \o l
  OBVIOUS
<1>3. Len(t) = m + c /\ \A j \in 1 .. m : t[j] = s[j]
  BY <1>1, <1>2, ConcatProperties
<1>4. n \in Nat /\ p \in Nat /\ p <= m /\ at \in [1 .. n -> 1 .. p]
  BY <1>1 DEF IsChain
<1>5. \A i \in 1 .. n : at[i] \in 1 .. m
  BY <1>4, <1>1
<1>6. \A i \in 1 .. n : t[at[i]] = s[at[i]]
  BY <1>3, <1>5
<1>7. IsChain(at, n, g, t, p, L, k)
  BY <1>1, <1>3, <1>4, <1>6 DEF IsChain
<1> QED
  BY <1>2, <1>7

LEMMA ChainArrives ==
    ASSUME NEW S, NEW T, S \subseteq T, NEW s \in Seq(S), NEW g \in Seq(T), NEW at, NEW n, NEW p, NEW L \in Nat, NEW k,
           IsChain(at, n, g, s, p, L, k), n = Len(g), NEW m \in p + 1 .. Len(s)
    PROVE  \E at2 : IsChain(at2, Len(g \o SubSeq(s, p + 1, m)), g \o SubSeq(s, p + 1, m), s, m, L, k)
<1>1. PICK q \in Nat : q = Len(s)
  BY LenProperties
<1>2. n \in Nat /\ p \in Nat /\ p <= n + L /\ at \in [1 .. n -> 1 .. p] /\ p < m /\ m <= q /\ m \in Nat
  BY <1>1 DEF IsChain
<1>3. PICK c \in Nat : c = m - p /\ c > 0 /\ p + c = m
  BY <1>2
<1>4. \A j \in 1 .. c : s[p + j] \in S
  <2> SUFFICES ASSUME NEW j \in 1 .. c PROVE s[p + j] \in S
    OBVIOUS
  <2>1. p + j \in 1 .. Len(s)
    BY <1>1, <1>2, <1>3
  <2> QED
    BY <2>1, ElementOfSeq
<1>5. PICK h \in Seq(S) : h = SubSeq(s, p + 1, m) /\ IsPart(h, s, p, c)
  BY <1>2, <1>3, <1>4, PartOf
<1>6. h \in Seq(T) /\ Len(h) = c /\ \A j \in 1 .. c : h[j] = s[p + j]
  BY <1>5, Widened DEF IsPart
<1>7. PICK r : r = g \o h
  OBVIOUS
<1>8. Len(r) = n + c /\ \A j \in 1 .. n + c : r[j] = IF j <= n THEN g[j] ELSE h[j - n]
  BY <1>6, <1>7, ConcatProperties
<1> DEFINE at2 == [i \in 1 .. n + c |-> IF i <= n THEN at[i] ELSE p + (i - n)]
<1>9. \A i \in 1 .. n + c : at2[i] = (IF i <= n THEN at[i] ELSE p + (i - n))
  OBVIOUS
<1>10. \A i \in 1 .. n : at[i] \in 1 .. p
  BY <1>2
<1>11. \A i \in 1 .. n + c : at2[i] \in 1 .. m
  BY <1>2, <1>3, <1>9, <1>10
<1>12. at2 \in [1 .. n + c -> 1 .. m]
  BY <1>11
<1>13. ASSUME NEW i \in 1 .. n + c PROVE r[i] = s[at2[i]] /\ at2[i] <= i + L
  <2>1. CASE i <= n
    <3>1. i \in 1 .. n
      BY <2>1, <1>2
    <3>2. g[i] = s[at[i]] /\ at[i] <= i + L
      BY <3>1 DEF IsChain
    <3> QED
      BY <2>1, <3>2, <1>8, <1>9
  <2>2. CASE ~(i <= n)
    <3>1. i - n \in 1 .. c
      BY <2>2, <1>2
    <3>2. r[i] = s[p + (i - n)]
      BY <2>2, <3>1, <1>6, <1>8
    <3>3. p + (i - n) <= i + L
      BY <2>2, <1>2
    <3> QED
      BY <2>2, <3>2, <3>3, <1>9
  <2> QED
    BY <2>1, <2>2
<1>14. ASSUME NEW i \in 1 .. n + c, NEW j \in 1 .. n + c, i < j PROVE at2[i] < at2[j]
  <2>1. CASE j <= n
    <3>1. i \in 1 .. n /\ j \in 1 .. n
      BY <2>1, <1>2, <1>14
    <3>2. at[i] < at[j]
      BY <3>1, <1>14 DEF IsChain
    <3> QED
      BY <3>1, <3>2, <1>9
  <2>2. CASE ~(j <= n) /\ i <= n
    <3>1. i \in 1 .. n
      BY <2>2, <1>2
    <3>2. at[i] \in 1 .. p
      BY <3>1, <1>10
    <3>3. at2[i] = at[i] /\ at2[j] = p + (j - n)
      BY <2>2, <1>9
    <3> QED
      BY <2>2, <3>2, <3>3, <1>2
  <2>3. CASE ~(j <= n) /\ ~(i <= n)
    BY <2>3, <1>2, <1>9, <1>14
  <2> QED
    BY <2>1, <2>2, <2>3
<1>15. \A i \in n + c + 1 .. n + c : FALSE
  BY <1>2
<1>16. m <= n + c + L /\ n + c \in Nat
  BY <1>2, <1>3
<1> HIDE DEF at2
<1>17. IsChain(at2, n + c, r, s, m, L, k)
  BY <1>1, <1>2, <1>8, <1>12, <1>13, <1>14, <1>15, <1>16 DEF IsChain
<1> QED
  BY ONLY <1>5, <1>7, <1>8, <1>17, Zenon

LEMMA ChainDies ==
    ASSUME NEW at, NEW n, NEW g, NEW s, NEW p, NEW L \in Nat, NEW k, IsChain(at, n, g, s, p, L, k), NEW c \in 0 .. 1,
           c = 0 \/ p < Len(s)
    PROVE  p + c <= Len(s) => IsChain(at, n, g, s, p + c, L + 1, k)
<1> SUFFICES ASSUME p + c <= Len(s) PROVE IsChain(at, n, g, s, p + c, L + 1, k)
  OBVIOUS
<1>1. n \in Nat /\ p \in Nat /\ p <= n + L /\ at \in [1 .. n -> 1 .. p]
  BY DEF IsChain
<1>2. at \in [1 .. n -> 1 .. p + c]
  BY <1>1
<1>3. \A i \in 1 .. n : at[i] <= i + (L + 1)
  <2> SUFFICES ASSUME NEW i \in 1 .. n PROVE at[i] <= i + (L + 1)
    OBVIOUS
  <2>1. at[i] <= i + L /\ at[i] \in Nat
    BY <1>1 DEF IsChain
  <2> QED
    BY <2>1, <1>1
<1>4. p + c \in Nat /\ p + c <= n + (L + 1)
  BY <1>1
<1> QED
  BY <1>1, <1>2, <1>3, <1>4 DEF IsChain

LEMMA ChainTrails ==
    ASSUME NEW T, NEW g \in Seq(T), NEW e \in T, NEW at, NEW n, NEW s, NEW p, NEW L, NEW k,
           IsChain(at, n, g, s, p, L, k), IF k \in Fifos THEN e = Blank ELSE g # <<>> /\ e = Last(g)
    PROVE  IsChain(at, n, Append(g, e), s, p, L, k)
<1>1. PICK m \in Nat : m = Len(g)
  BY LenProperties
<1>2. PICK a \in Seq(T) : a = Append(g, e) /\ IsAppended(a, g, e, m)
  BY <1>1, Appended
<1>3. Len(a) = m + 1 /\ a[m + 1] = e /\ \A j \in 1 .. m : a[j] = g[j]
  BY <1>2 DEF IsAppended
<1>4. n \in Nat /\ n <= m
  BY <1>1 DEF IsChain
<1>5. \A i \in 1 .. n : a[i] = g[i]
  BY <1>3, <1>4
<1>6. ASSUME NEW i \in n + 1 .. Len(a) PROVE IF k \in Fifos THEN a[i] = Blank ELSE n > 0 /\ a[i] = a[n]
  <2>1. CASE i <= m
    <3>1. i \in 1 .. m /\ i \in n + 1 .. Len(g) /\ (n > 0 => n \in 1 .. m)
      BY <2>1, <1>1, <1>4
    <3>2. IF k \in Fifos THEN g[i] = Blank ELSE n > 0 /\ g[i] = g[n]
      BY <3>1 DEF IsChain
    <3> QED
      BY <3>1, <3>2, <1>3
  <2>2. CASE ~(i <= m)
    <3>1. i = m + 1
      BY <2>2, <1>3, <1>4
    <3>2. CASE k \in Fifos
      BY <3>1, <3>2, <1>3
    <3>3. CASE k \notin Fifos
      <4>1. m > 0 /\ e = g[m]
        BY <3>3, <1>1, EmptySeq DEF Last
      <4>2. CASE n = m
        BY <3>1, <3>3, <4>1, <4>2, <1>3
      <4>3. CASE n # m
        <5>1. m \in n + 1 .. Len(g)
          BY <4>3, <1>1, <1>4
        <5>2. n > 0 /\ g[m] = g[n]
          BY <5>1, <3>3 DEF IsChain
        <5>3. a[n] = g[n]
          BY <5>2, <1>4, <1>5
        <5> QED
          BY <5>2, <5>3, <4>1, <3>1, <3>3, <1>3
      <4> QED
        BY <4>2, <4>3
    <3> QED
      BY <3>2, <3>3
  <2> QED
    BY <2>1, <2>2
<1>7. n <= Len(a)
  BY <1>3, <1>4
<1>8. IsChain(at, n, a, s, p, L, k)
  BY <1>5, <1>6, <1>7 DEF IsChain
<1> QED
  BY <1>2, <1>8

\* What is on channel d makes a chain, complete until something is displayed after the end.
Sound(d) ==
    /\ Over(d) => Past(d) = Len(sent[d])
    /\ \E n, at : IsChain(at, n, got[d], sent[d], Past(d), Losses, kind) /\ (~Over(d) => n = Len(got[d]))

Chained == kind # "shm" => \A d \in Channels : Sound(d)

LEMMA LossesCount ==
    ASSUME kills \in Nat, kind' = kind
    PROVE  /\ Losses \in Nat
           /\ kills' = kills => Losses' = Losses
           /\ kills' = kills + 1 => Losses' = IF kind = "msgq" THEN Losses + 1 ELSE Losses
  BY DEF Losses

\* A channel on which nothing happens, whether a receiver dies elsewhere or not.
LEMMA SoundElsewhere ==
    ASSUME NEW d \in Channels, Sound(d), kind' = kind, got'[d] = got[d], sent'[d] = sent[d],
           Past(d)' = Past(d), Over(d)' = Over(d), Losses \in Nat, Losses' = Losses \/ Losses' = Losses + 1
    PROVE  Sound(d)'
<1>1. PICK n, at : IsChain(at, n, got[d], sent[d], Past(d), Losses, kind) /\ (~Over(d) => n = Len(got[d]))
  BY DEF Sound
<1>2. CASE Losses' = Losses
  BY <1>1, <1>2 DEF Sound
<1>3. CASE Losses' = Losses + 1
  <2>1. 0 \in 0 .. 1 /\ Past(d) \in Nat /\ Past(d) + 0 = Past(d) /\ Past(d) <= Len(sent[d])
    BY <1>1 DEF IsChain
  <2>2. IsChain(at, n, got[d], sent[d], Past(d), Losses + 1, kind)
    BY <2>1, <1>1, ChainDies
  <2> QED
    BY <2>2, <1>1, <1>3 DEF Sound
<1> QED
  BY <1>2, <1>3

LEMMA SoundSends ==
    ASSUME NEW d \in Channels, Sound(d), kind' = kind, Losses' = Losses, sent[d] \in Seq(Line), ~Over(d), got'[d] = got[d],
           Past(d)' = Past(d), Over(d)' = Over(d), NEW l \in Seq(Line), sent'[d] = sent[d] \o l
    PROVE  Sound(d)'
<1>1. PICK n, at : IsChain(at, n, got[d], sent[d], Past(d), Losses, kind) /\ n = Len(got[d])
  BY DEF Sound
<1>2. IsChain(at, n, got[d], sent[d] \o l, Past(d), Losses, kind)
  BY <1>1, ChainSends
<1> QED
  BY <1>1, <1>2 DEF Sound

LEMMA SoundArrives ==
    ASSUME NEW d \in Channels, Sound(d), kind' = kind, Losses \in Nat, Losses' = Losses, sent[d] \in Seq(Line),
           got[d] \in Seq(Shown), ~Over(d), sent'[d] = sent[d], Over(d)' = Over(d),
           NEW m \in Past(d) + 1 .. Len(sent[d]), Past(d)' = m, got'[d] = got[d] \o SubSeq(sent[d], Past(d) + 1, m)
    PROVE  Sound(d)'
<1>1. PICK n, at : IsChain(at, n, got[d], sent[d], Past(d), Losses, kind) /\ n = Len(got[d])
  BY DEF Sound
<1>2. Line \subseteq Shown
  BY DEF Shown
<1>3. PICK g : g = got[d] \o SubSeq(sent[d], Past(d) + 1, m)
  OBVIOUS
<1>4. PICK at2 : IsChain(at2, Len(g), g, sent[d], m, Losses, kind)
  BY <1>1, <1>2, <1>3, ChainArrives
<1> QED
  BY <1>3, <1>4 DEF Sound

LEMMA SoundDies ==
    ASSUME NEW d \in Channels, Sound(d), kind' = kind, Losses \in Nat, Losses' = Losses + 1, sent'[d] = sent[d],
           got'[d] = got[d], Over(d)' = Over(d), Past(d) < Len(sent[d]), Past(d)' = Past(d) + 1, Len(sent[d]) \in Nat
    PROVE  Sound(d)'
<1>1. PICK n, at : IsChain(at, n, got[d], sent[d], Past(d), Losses, kind) /\ (~Over(d) => n = Len(got[d]))
  BY DEF Sound
<1>2. 1 \in 0 .. 1 /\ Past(d) \in Nat /\ Past(d) + 1 <= Len(sent[d])
  BY <1>1 DEF IsChain
<1>3. IsChain(at, n, got[d], sent[d], Past(d) + 1, Losses + 1, kind)
  BY <1>1, <1>2, ChainDies
<1>4. ~Over(d)
  BY <1>2 DEF Sound
<1> QED
  BY <1>1, <1>3, <1>4 DEF Sound

LEMMA SoundTrails ==
    ASSUME NEW d \in Channels, Sound(d), kind' = kind, Losses' = Losses, sent'[d] = sent[d], got[d] \in Seq(Shown),
           Past(d) = Len(sent[d]), Past(d)' = Past(d), Over(d)',
           IF kind \in Fifos THEN got'[d] = Append(got[d], Blank)
                             ELSE got[d] # <<>> /\ got'[d] = Append(got[d], Last(got[d]))
    PROVE  Sound(d)'
<1>1. PICK n, at : IsChain(at, n, got[d], sent[d], Past(d), Losses, kind)
  BY DEF Sound
<1>2. PICK e \in Shown : got'[d] = Append(got[d], e) /\ IF kind \in Fifos THEN e = Blank ELSE got[d] # <<>> /\ e = Last(got[d])
  <2>1. CASE kind \in Fifos
    BY <2>1 DEF Shown
  <2>2. CASE kind \notin Fifos
    <3>1. Len(got[d]) \in 1 .. Len(got[d])
      BY <2>2, EmptySeq, LenProperties
    <3>2. Last(got[d]) \in Shown
      BY <3>1, ElementOfSeq DEF Last
    <3> QED
      BY <2>2, <3>2
  <2> QED
    BY <2>1, <2>2
<1>3. IsChain(at, n, got'[d], sent[d], Past(d), Losses, kind)
  BY <1>1, <1>2, ChainTrails
<1> QED
  BY <1>3 DEF Sound

\* What the lines are in every program with a channel.
LEMMA SortsOf ==
    ASSUME IInv, kind # "shm"
    PROVE  sent \in [Channels -> Seq(Line)] /\ got \in [Channels -> Seq(Shown)]
<1>1. CASE kind \in Piped
  BY <1>1 DEF IInv, PipeInv, PipeLines
<1>2. CASE kind \in Queues
  BY <1>2 DEF IInv, QueueInv, QueueLines
<1>3. CASE kind = "sem"
  <2>1. sent \in [Channels -> Seq(Line)] /\ got \in [Channels -> Seq(Line)]
    BY <1>3 DEF IInv, SemInv, History
  <2>2. \A d \in Channels : got[d] \in Seq(Shown)
    <3>1. Line \subseteq Shown
      BY DEF Shown
    <3> QED
      BY <2>1, <3>1, Widened
  <2> QED
    BY <2>1, <2>2
<1> QED
  BY <1>1, <1>2, <1>3, KindFacts DEF IInv

LEMMA ChainedStep ==
    ASSUME MailboxAssumption, IInv, kills \in Nat, kind # "shm", kind' = kind, Promise!Next, Chained
    PROVE  Chained'
<1>1. PICK d \in Channels : Promise!Send(d) \/ Promise!Arrive(d) \/ Promise!Die(d) \/ Promise!Trail(d)
  BY DEF Promise!Next
<1>2. /\ IfBare(<<>>, sent) = sent /\ IfBare(<<>>, sent)' = sent'
      /\ IfBare(<<>>, got) = got /\ IfBare(<<>>, got)' = got'
  BY DEF IfBare
<1> DEFINE past == IfBare(0, [e \in Channels |-> Past(e)])
           over == IfBare(FALSE, [e \in Channels |-> Over(e)])
<1>3. /\ past = [e \in Channels |-> Past(e)] /\ past' = [e \in Channels |-> Past(e)']
      /\ over = [e \in Channels |-> Over(e)] /\ over' = [e \in Channels |-> Over(e)']
  BY DEF IfBare
<1>4. \A e \in Channels : past[e] = Past(e) /\ past'[e] = Past(e)' /\ over[e] = Over(e) /\ over'[e] = Over(e)'
  BY <1>3
<1> HIDE DEF past, over
<1>5. \A e \in Channels : Sound(e) /\ sent[e] \in Seq(Line) /\ got[e] \in Seq(Shown) /\ Len(sent[e]) \in Nat
  BY SortsOf, LenProperties DEF Chained
<1>6. /\ Losses \in Nat /\ (kills' = kills => Losses' = Losses)
      /\ (kills' = kills + 1 => Losses' = IF kind = "msgq" THEN Losses + 1 ELSE Losses)
  BY LossesCount
<1>7. SUFFICES ASSUME NEW e \in Channels PROVE Sound(e)'
  BY DEF Chained
<1>8. sent \in [Channels -> Seq(Line)] /\ got \in [Channels -> Seq(Shown)]
  BY SortsOf
<1>9. CASE Promise!Send(d)
  <2>0. PICK n \in 1 .. MaxLines : \E lines \in [1 .. n -> Line] : sent' = [sent EXCEPT ![d] = @ \o lines]
    BY <1>2, <1>9 DEF Promise!Send
  <2>1. PICK lines \in [1 .. n -> Line] : sent' = [sent EXCEPT ![d] = @ \o lines]
    BY <2>0
  <2>2. ~over[d] /\ got' = got /\ past' = past /\ over' = over /\ kills' = kills
    BY <1>2, <1>9 DEF Promise!Send, past, over
  <2>3. lines \in Seq(Line)
    <3>1. n \in Nat
      BY MailboxAssumption
    <3> QED
      BY <3>1, ListIsSeq
  <2>4. CASE e = d
    BY <2>1, <2>2, <2>3, <2>4, <1>4, <1>5, <1>6, <1>8, SoundSends
  <2>5. CASE e # d
    BY <2>1, <2>2, <2>5, <1>4, <1>5, <1>6, <1>8, SoundElsewhere
  <2> QED
    BY <2>4, <2>5
<1>10. CASE Promise!Arrive(d)
  <2>1. PICK n \in past[d] + 1 .. Len(sent[d]) :
            got' = [got EXCEPT ![d] = @ \o SubSeq(sent[d], past[d] + 1, n)] /\ past' = [past EXCEPT ![d] = n]
    BY <1>2, <1>10 DEF Promise!Arrive, past
  <2>2. ~over[d] /\ sent' = sent /\ over' = over /\ kills' = kills
    BY <1>2, <1>10 DEF Promise!Arrive, over
  <2>3. past'[d] = n /\ (e # d => past'[e] = past[e])
    BY <2>1, <1>3
  <2>4. CASE e = d
    <3>1. got'[d] = got[d] \o SubSeq(sent[d], Past(d) + 1, n) /\ n \in Past(d) + 1 .. Len(sent[d])
      BY <2>1, <1>4, <1>8
    <3>2. Past(d)' = n /\ ~Over(d) /\ Over(d)' = Over(d) /\ sent'[d] = sent[d] /\ Losses' = Losses
      BY <2>2, <2>3, <1>4, <1>6
    <3> QED
      BY <3>1, <3>2, <2>4, <1>5, <1>6, SoundArrives
  <2>5. CASE e # d
    BY <2>1, <2>2, <2>3, <2>5, <1>4, <1>5, <1>6, <1>8, SoundElsewhere
  <2> QED
    BY <2>4, <2>5
<1>11. CASE Promise!Die(d)
  <2>1. kills' = kills + 1 /\ sent' = sent /\ got' = got /\ over' = over
    BY <1>2, <1>11 DEF Promise!Die, over
  <2>2. \/ past' = past
        \/ "lose" \in Faults /\ past[d] < Len(sent[d]) /\ past' = [past EXCEPT ![d] = @ + 1]
    BY <1>2, <1>11 DEF Promise!Die, past
  <2>3. CASE past'[e] = past[e]
    BY <2>1, <2>3, <1>4, <1>5, <1>6, SoundElsewhere
  <2>4. CASE past'[e] # past[e]
    <3>1. "lose" \in Faults /\ past[d] < Len(sent[d]) /\ past' = [past EXCEPT ![d] = @ + 1]
      BY <2>2, <2>4
    <3>2. e = d /\ past'[d] = past[d] + 1
      BY <3>1, <2>4, <1>3
    <3>3. kind = "msgq"
      BY <3>1 DEF Faults
    <3>4. Past(d)' = Past(d) + 1 /\ Past(d) < Len(sent[d]) /\ Over(d)' = Over(d) /\ Losses' = Losses + 1
      BY <3>1, <3>2, <3>3, <2>1, <1>4, <1>6
    <3> QED
      BY <3>2, <3>4, <2>1, <1>5, <1>6, SoundDies
  <2> QED
    BY <2>3, <2>4
<1>12. CASE Promise!Trail(d)
  <2>1. past[d] = Len(sent[d]) /\ over' = [over EXCEPT ![d] = TRUE] /\ sent' = sent /\ past' = past /\ kills' = kills
    BY <1>2, <1>12 DEF Promise!Trail, past, over
  <2>2. \/ "again" \in Faults /\ got[d] # <<>> /\ got' = [got EXCEPT ![d] = Append(@, Last(@))]
        \/ "blank" \in Faults /\ got' = [got EXCEPT ![d] = Append(@, Blank)]
    BY <1>2, <1>12 DEF Promise!Trail, Promise!Last, Last
  <2>3. IF kind \in Fifos THEN got' = [got EXCEPT ![d] = Append(@, Blank)]
                          ELSE got[d] # <<>> /\ got' = [got EXCEPT ![d] = Append(@, Last(@))]
    BY <2>2 DEF Faults, Fifos
  <2>4. over'[d] /\ (e # d => over'[e] = over[e] /\ got'[e] = got[e])
    BY <2>1, <2>3, <1>3, <1>8
  <2>5. CASE e = d
    <3>1. IF kind \in Fifos THEN got'[d] = Append(got[d], Blank)
                            ELSE got[d] # <<>> /\ got'[d] = Append(got[d], Last(got[d]))
      BY <2>3, <1>8
    <3>2. Past(d) = Len(sent[d]) /\ Past(d)' = Past(d) /\ Over(d)' /\ sent'[d] = sent[d] /\ Losses' = Losses
      BY <2>1, <2>4, <1>4, <1>6
    <3> QED
      BY <3>1, <3>2, <2>5, <1>5, SoundTrails
  <2>6. CASE e # d
    BY <2>1, <2>4, <2>6, <1>4, <1>5, <1>6, SoundElsewhere
  <2> QED
    BY <2>5, <2>6
<1> QED
  BY <1>1, <1>9, <1>10, <1>11, <1>12

LEMMA ChainedInit == Init => Chained
<1> SUFFICES ASSUME Init, NEW d \in Channels PROVE Sound(d)
  BY DEF Chained
<1>1. /\ sent = [e \in Channels |-> <<>>] /\ got = [e \in Channels |-> <<>>] /\ took = [e \in Channels |-> 0] /\ kills = 0
      /\ rpc = [e \in Channels |-> IF e \in Active THEN StartOf("read") ELSE "done"]
  BY DEF Init
<1>2. sent[d] = <<>> /\ got[d] = <<>> /\ Len(<<>>) = 0
  BY <1>1
<1>3. rpc[d] # "print"
  BY <1>1 DEF StartOf
<1>4. Past(d) = 0 /\ ~Over(d) /\ Losses = 0
  BY <1>1, <1>2, <1>3 DEF Past, Over, Losses
<1>5. PICK at : at \in [1 .. 0 -> 1 .. 0]
  <2>1. [i \in 1 .. 0 |-> i] \in [1 .. 0 -> 1 .. 0]
    OBVIOUS
  <2> QED
    BY <2>1, Zenon
<1>6. (\A i \in 1 .. 0 : FALSE) /\ (\A i \in 0 + 1 .. 0 : FALSE)
  OBVIOUS
<1>7. IsChain(at, 0, <<>>, <<>>, 0, 0, kind)
  BY <1>2, <1>5, <1>6 DEF IsChain
<1> QED
  BY <1>2, <1>4, <1>7 DEF Sound

LEMMA ChainedNext == MailboxAssumption /\ IInv /\ Bounds /\ Chained /\ [Next]_vars => Chained'
<1> SUFFICES ASSUME MailboxAssumption, IInv, Bounds, Chained, [Next]_vars PROVE Chained'
  OBVIOUS
<1>1. kills \in Nat
  BY MailboxAssumption DEF Bounds
<1>2. CASE UNCHANGED vars
  <2>1. kind' = kind /\ kills' = kills /\ sent' = sent /\ got' = got /\ took' = took /\ rpc' = rpc
    BY <1>2 DEF vars, recvVars
  <2>2. \A d \in Channels : Past(d)' = Past(d) /\ Over(d)' = Over(d)
    BY <2>1 DEF Past, Over
  <2>3. ASSUME kind # "shm", NEW d \in Channels PROVE Sound(d)'
    BY <2>1, <2>2, <2>3, <1>1, LossesCount, SoundElsewhere DEF Chained
  <2> QED
    BY <2>1, <2>3 DEF Chained
<1>3. CASE Next
  <2>1. kind' = kind
    BY <1>3, SameKind
  <2>2. kind = "shm" \/ Promise!Next \/ Idle
    BY <1>3, Steps, MailboxAssumption DEF Allowed
  <2>3. CASE kind = "shm"
    BY <2>1, <2>3 DEF Chained
  <2>4. CASE kind # "shm" /\ Promise!Next
    BY <2>1, <2>4, <1>1, ChainedStep, MailboxAssumption
  <2>5. ASSUME kind # "shm", Idle, NEW d \in Channels PROVE Sound(d)'
    <3>1. kills' = kills /\ sent' = sent /\ got' = got /\ Past(d)' = Past(d) /\ Over(d)' = Over(d)
      BY <2>5 DEF Idle
    <3> QED
      BY <2>1, <2>5, <3>1, <1>1, LossesCount, SoundElsewhere DEF Chained
  <2>6. CASE kind # "shm" /\ Idle
    BY <2>1, <2>5, <2>6 DEF Chained
  <2> QED
    BY <2>2, <2>3, <2>4, <2>6
<1> QED
  BY <1>2, <1>3

\* What the receivers have displayed, line by line: lines that were sent, in the
\* order in which they were sent, with at most one left out for each kill of a
\* receiver of 17 (between msgrcv and printf), and none in the others.  More comes
\* only when no other line is left: empty lines from 12, in the others nothing but
\* the last line again.
ArrivedInOrder ==
    kind # "shm" => \A d \in Channels :
        \E n \in 0 .. Len(got[d]) : \E at \in [1 .. n -> 1 .. Len(sent[d])] :
            /\ \A i \in 1 .. n : got[d][i] = sent[d][at[i]] /\ at[i] <= i + Losses
            /\ \A i, j \in 1 .. n : i < j => at[i] < at[j]
            /\ n < Len(got[d]) => Len(sent[d]) <= n + Losses
            /\ \A i \in n + 1 .. Len(got[d]) :
                   IF kind \in Fifos THEN got[d][i] = Blank ELSE n > 0 /\ got[d][i] = got[d][n]

LEMMA ChainsArrive == ASSUME MailboxAssumption, IInv, Bounds, Chained PROVE ArrivedInOrder
<1> SUFFICES ASSUME kind # "shm", NEW d \in Channels
             PROVE  \E n \in 0 .. Len(got[d]) : \E at \in [1 .. n -> 1 .. Len(sent[d])] :
                        /\ \A i \in 1 .. n : got[d][i] = sent[d][at[i]] /\ at[i] <= i + Losses
                        /\ \A i, j \in 1 .. n : i < j => at[i] < at[j]
                        /\ n < Len(got[d]) => Len(sent[d]) <= n + Losses
                        /\ \A i \in n + 1 .. Len(got[d]) :
                               IF kind \in Fifos THEN got[d][i] = Blank ELSE n > 0 /\ got[d][i] = got[d][n]
  BY DEF ArrivedInOrder
<1>1. PICK n, at : IsChain(at, n, got[d], sent[d], Past(d), Losses, kind) /\ (~Over(d) => n = Len(got[d]))
  BY DEF Chained, Sound
<1>2. PICK m \in Nat, c \in Nat : m = Len(sent[d]) /\ c = Len(got[d])
  BY SortsOf, LenProperties
<1>3. n \in Nat /\ n <= c /\ Past(d) \in Nat /\ Past(d) <= m /\ Past(d) <= n + Losses /\ at \in [1 .. n -> 1 .. Past(d)]
  BY <1>1, <1>2 DEF IsChain
<1>4. n \in 0 .. Len(got[d]) /\ at \in [1 .. n -> 1 .. Len(sent[d])]
  BY <1>2, <1>3
<1>5. n < Len(got[d]) => Len(sent[d]) <= n + Losses
  <2>1. n < Len(got[d]) => Past(d) = Len(sent[d])
    BY <1>1, <1>2, <1>3 DEF Chained, Sound
  <2> QED
    BY <2>1, <1>2, <1>3
<1>6. /\ \A i \in 1 .. n : got[d][i] = sent[d][at[i]] /\ at[i] <= i + Losses
      /\ \A i, j \in 1 .. n : i < j => at[i] < at[j]
      /\ \A i \in n + 1 .. Len(got[d]) : IF kind \in Fifos THEN got[d][i] = Blank ELSE n > 0 /\ got[d][i] = got[d][n]
  BY <1>1 DEF IsChain
<1> QED
  BY <1>4, <1>5, <1>6

THEOREM ArrivedInvariant == Spec => []ArrivedInOrder
<1>1. MailboxAssumption
  BY MailboxAssumption
<1>2. Init => Chained
  BY ChainedInit
<1>3. IInv /\ Bounds /\ Chained /\ [Next]_vars => Chained'
  BY <1>1, ChainedNext
<1>4. FullInv => IInv /\ Bounds
  BY DEF FullInv
<1>5. IInv /\ Bounds /\ Chained => ArrivedInOrder
  BY <1>1, ChainsArrive
<1> QED
  BY <1>1, <1>2, <1>3, <1>4, <1>5, AllInvariance, PTL DEF Spec

\* The receiver that comes after the sender has deleted the set (20_sem): if there
\* is a set it is its own, and it cannot pass P on semaphore 1.
LateIsStuck == kind = "sem" /\ spc[1] = "done" /\ alive => rpc[1] \in {"create", "wait"} /\ val[1] = 0

THEOREM LateReceiverIsStuck == Spec => []LateIsStuck
<1>1. MailboxAssumption
  BY MailboxAssumption
<1>2. FullInv => LateIsStuck
  BY DEF FullInv, LateReceiver, LateIsStuck
<1> QED
  BY <1>1, <1>2, AllInvariance, PTL
=============================================================================

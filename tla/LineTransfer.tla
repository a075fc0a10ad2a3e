----------------------------- MODULE LineTransfer -----------------------------
(***************************************************************************)
(* What a channel for lines promises: what arrives on it is what was sent, *)
(* in the order in which it was sent.  There are three ways to fall short: *)
(*   lose    a receiver dies with the line that it has taken               *)
(*   again   after the end the last line is displayed again                *)
(*   blank   after the end empty lines are displayed                       *)
(***************************************************************************)
EXTENDS Sequences, SequencesExt

CONSTANTS Channels, Line, MaxBurst, Blank

VARIABLES
    sent,       \* each channel: the lines sent so far
    got,        \* what has been displayed
    next,       \* how many of the lines sent were displayed or lost
    over,       \* something was displayed after the end
    deaths,     \* how many receivers have died
    faults      \* how the channel may fall short

channelVars == <<sent, got, next, over, deaths, faults>>

Init ==
    /\ sent = [d \in Channels |-> <<>>]
    /\ got = [d \in Channels |-> <<>>]
    /\ next = [d \in Channels |-> 0]
    /\ over = [d \in Channels |-> FALSE]
    /\ deaths = 0
    /\ faults \in SUBSET {"lose", "again", "blank"}

\* One or several lines at once.
Send(d) ==
    /\ ~over[d]
    /\ \E n \in 1 .. MaxBurst : \E lines \in [1 .. n -> Line] : sent' = [sent EXCEPT ![d] = @ \o lines]
    /\ UNCHANGED <<got, next, over, deaths, faults>>

\* The next line, or the next ones.
Arrive(d) ==
    /\ ~over[d]
    /\ \E n \in next[d] + 1 .. Len(sent[d]) :
          /\ got' = [got EXCEPT ![d] = @ \o SubSeq(sent[d], next[d] + 1, n)]
          /\ next' = [next EXCEPT ![d] = n]
    /\ UNCHANGED <<sent, over, deaths, faults>>

\* A receiver dies, with the next line or without it.
Die(d) ==
    /\ deaths' = deaths + 1
    /\ \/ UNCHANGED next
       \/ /\ "lose" \in faults
          /\ next[d] < Len(sent[d])
          /\ next' = [next EXCEPT ![d] = @ + 1]
    /\ UNCHANGED <<sent, got, over, faults>>

\* More is displayed when there is nothing left; nothing is sent any more.
Trail(d) ==
    /\ next[d] = Len(sent[d])
    /\ over' = [over EXCEPT ![d] = TRUE]
    /\ \/ "again" \in faults /\ got[d] # <<>> /\ got' = [got EXCEPT ![d] = Append(@, Last(@))]
       \/ "blank" \in faults /\ got' = [got EXCEPT ![d] = Append(@, Blank)]
    /\ UNCHANGED <<sent, next, deaths, faults>>

Next == \E d \in Channels : Send(d) \/ Arrive(d) \/ Die(d) \/ Trail(d)

Spec == Init /\ [][Next]_channelVars
=============================================================================

---------------------------- MODULE ProcessProofs ----------------------------
(***************************************************************************)
(* What is proved of the programs of 03_Process and 04_Pthread in which    *)
(* threads or processes wait for each other (Wakeups), write halves of one *)
(* file (FileCopies), or take turns (SemRing).  The three components share *)
(* no state; each has its own part, with its own inductive invariant.      *)
(***************************************************************************)
EXTENDS Wakeups, FileCopies, SemRing, FiniteSetTheorems, TLAPS

-----------------------------------------------------------------------------
(***************************************************************************)
(* What is waited for in Wakeups has happened, for any number of consumers *)
(* and counting threads, any number of children, increments and spurious   *)
(* wakeups.                                                                *)
(*                                                                         *)
(* Items are counted where they are: still to produce, in the semaphore,   *)
(* with a thread that was woken, consumed, or notified to nobody.  Every   *)
(* step moves one of them, except that a broadcast moves all at once.  The *)
(* counter is exact because the thread that has loaded it holds the mutex. *)
(* Of SIGCHLD one can be pending and one handled; with the signal blocked  *)
(* around fork there is one child at a time, and the parent does not go on *)
(* before it has been reaped.                                              *)
(***************************************************************************)

USE DEF Free

Mains == {"join", "exit", "block", "fork", "reset", "unblock", "spin", "loop", "killed"}
Places == {"start", "locked", "wait", "woken", "done", "loaded", "stored",
           "unborn", "running", "called", "zombie", "reaped"}

-----------------------------------------------------------------------------
(* The inductive invariant *)

Typed ==
    /\ kind \in Kinds /\ kind \in AllKinds
    /\ main \in Mains
    /\ ws \in [Workers -> Places]
    /\ done \in [Workers -> Nat]
    /\ left \in Nat /\ left <= N
    /\ avail \in Nat /\ lost \in Nat /\ spurious \in 0 .. MaxSpurious
    /\ holder \in Workers \union {Free}
    /\ num \in Nat /\ reg \in [Workers -> Nat] /\ shown \in Seq(Nat)
    /\ pending \in BOOLEAN /\ handling \in BOOLEAN /\ pid \in {0, 1} /\ coalesced \in Nat

\* Each program keeps to its own places.
PlacesOf(k) ==
    IF k \in Conds THEN {"start", "locked", "wait", "woken", "done"}
    ELSE IF k \in Counters THEN {"start", "locked", "loaded", "stored"}
    ELSE IF k = "post" THEN {"start"}
    ELSE IF k = "usr1" THEN {"unborn", "running", "called", "zombie", "reaped"}
    ELSE {"unborn", "running", "zombie", "reaped"}

InPlace ==
    /\ \A w \in Workers : ws[w] \in PlacesOf(kind)
    /\ kind \notin Signals => main \in {"join", "exit"} /\ ~pending /\ ~handling
    /\ kind \in Signals => main \notin {"join", "exit"}
    /\ kind = "mask" => main \in {"block", "fork", "reset", "unblock", "spin"}
    /\ kind \in {"reap", "usr1"} => main \in {"fork", "loop", "killed"}
    /\ kind = "reap" => main # "killed"

Woken == {w \in Workers : ws[w] = "woken"}

\* Where the items are.
ItemsInv ==
    /\ IsFiniteSet(Doings)
    /\ kind = "post" => Total + avail = N - left
    /\ kind # "post" => avail = 0
    /\ kind \in Conds => Total + Cardinality(Woken) + lost = N - left + spurious
    /\ kind \in Conds => lost <= N - left
    /\ kind \notin Conds => lost = 0
    /\ kind = "broadcast" => left \in {0, N}

\* Where a counting thread holds the mutex.
Held == IF kind = "whole" THEN {"locked", "loaded", "stored"} ELSE {"locked", "loaded"}

CountInv ==
    kind \in Counters =>
        /\ num = Total
        /\ \A w \in Workers : ws[w] \in Held <=> holder = w
        /\ \A w \in Workers : ws[w] = "loaded" => reg[w] = num
        /\ kind = "whole" =>
              /\ \A i \in DOMAIN shown : shown[i] = i
              /\ (\E w \in Workers : ws[w] = "stored") => num = Len(shown) + 1
              /\ (\A w \in Workers : ws[w] # "stored") => num = Len(shown)

\* One zombie for each signal that is pending, handled or merged.
ZombieInv ==
    kind \in {"reap", "mask"} =>
        Cardinality(Zombies) = coalesced + Bit(pending) + Bit(handling)

\* The only child that is not reaped is running, or its signal is on the way.
OneChild == \E w \in Workers : ws[w] = "running" /\ \A v \in Workers : ws[v] = "running" => v = w
NoChild == \A w \in Workers : ws[w] # "running"

MaskInv ==
    kind = "mask" =>
        /\ coalesced = 0
        /\ main \in {"block", "fork"} => NoChild /\ ~pending /\ ~handling
        /\ main \in {"reset", "unblock"} => ~handling
        /\ main \in {"reset", "unblock", "spin"} =>
              \/ OneChild /\ ~pending /\ ~handling
              \/ NoChild /\ pending /\ ~handling
              \/ NoChild /\ ~pending /\ handling
              \/ NoChild /\ ~pending /\ ~handling
        /\ main \in {"reset", "unblock"} => ~(NoChild /\ ~pending)
        /\ main = "unblock" => pid = 0
        /\ main = "spin" => (pid = 0 <=> (OneChild \/ pending \/ handling))

\* The child of usr1 calls once.
CallInv ==
    kind = "usr1" =>
        /\ coalesced = 0
        /\ \A w \in Workers : w # Chosen => ws[w] = "unborn"
        /\ pending \/ handling => ws[Chosen] \notin {"unborn", "running"}

QuietInv == kind \notin Signals => coalesced = 0

SignalInv == ZombieInv /\ MaskInv /\ CallInv /\ QuietInv

IInv == Typed /\ InPlace /\ ItemsInv /\ CountInv /\ SignalInv

-----------------------------------------------------------------------------
(* Counting *)

\* Any set of workers is finite and has a size; all of them are N.
LEMMA WorkersCounted ==
    /\ N \in Nat
    /\ \A S \in SUBSET Workers : IsFiniteSet(S) /\ Cardinality(S) \in Nat /\ Cardinality(S) <= N
<1>1. N \in Nat
    BY WakeupAssumption, FS_CardinalityType DEF N
<1>2. ASSUME NEW S \in SUBSET Workers
      PROVE IsFiniteSet(S) /\ Cardinality(S) \in Nat /\ Cardinality(S) <= N
    BY WakeupAssumption, FS_Subset, FS_CardinalityType DEF N
<1> QED
    BY <1>1, <1>2

\* A worker that joins a set makes it larger by one.
LEMMA OneMore ==
    ASSUME NEW S \in SUBSET Workers, NEW w \in Workers, w \notin S,
           NEW T, T = S \union {w}
    PROVE  Cardinality(T) = Cardinality(S) + 1
BY WorkersCounted, FS_AddElement

\* A worker that leaves it makes it smaller by one.
LEMMA OneLess ==
    ASSUME NEW S \in SUBSET Workers, NEW w \in S,
           NEW T, T = S \ {w}
    PROVE  Cardinality(T) = Cardinality(S) - 1
BY WorkersCounted, FS_RemoveElement

\* Two sets without a common element.
LEMMA DisjointSum ==
    ASSUME NEW S, NEW T, IsFiniteSet(S), IsFiniteSet(T), S \intersect T = {}
    PROVE  Cardinality(S \union T) = Cardinality(S) + Cardinality(T)
<1>1. Cardinality(S) \in Nat /\ Cardinality(T) \in Nat
    BY FS_CardinalityType
<1>2. Cardinality(S \intersect T) = 0
    BY FS_EmptySet
<1>3. Cardinality(S \union T) = Cardinality(S) + Cardinality(T) - Cardinality(S \intersect T)
    BY FS_Union
<1> QED
    BY <1>1, <1>2, <1>3

\* What a worker consumes or increments is counted once.
LEMMA DoneOnce ==
    ASSUME IsFiniteSet(Doings), done \in [Workers -> Nat], NEW w \in Workers,
           done' = [done EXCEPT ![w] = @ + 1]
    PROVE  IsFiniteSet(Doings') /\ Total' = Total + 1 /\ Total \in Nat
<1> DEFINE new == <<w, done[w] + 1>>
<1>1. \A v \in Workers : done'[v] \in Nat /\ done'[v] = IF v = w THEN done[w] + 1 ELSE done[v]
    OBVIOUS
<1>2. Doings' = Doings \union {new}
    <2>1. ASSUME NEW d \in Doings' PROVE d \in Doings \union {new}
        <3>1. PICK v \in Workers : \E i \in 1 .. done'[v] : d = <<v, i>>
            BY <2>1 DEF Doings
        <3>2. PICK i \in 1 .. done'[v] : d = <<v, i>>
            BY <3>1
        <3>3. CASE i \in 1 .. done[v]
            BY <3>2, <3>3 DEF Doings
        <3>4. CASE i \notin 1 .. done[v]
            <4>1. v = w /\ i = done[w] + 1
                BY <1>1, <3>2, <3>4
            <4> QED
                BY <3>2, <4>1
        <3> QED
            BY <3>3, <3>4
    <2>2. ASSUME NEW d \in Doings PROVE d \in Doings'
        <3>1. PICK v \in Workers : \E i \in 1 .. done[v] : d = <<v, i>>
            BY <2>2 DEF Doings
        <3>2. \E i \in 1 .. done'[v] : d = <<v, i>>
            BY <1>1, <3>1
        <3> QED
            BY <3>2 DEF Doings
    <2>3. new \in Doings'
        <3>1. done[w] + 1 \in 1 .. done'[w]
            BY <1>1
        <3> QED
            BY <3>1 DEF Doings
    <2> QED
        BY <2>1, <2>2, <2>3
<1>3. new \notin Doings
    <2> SUFFICES ASSUME new \in Doings PROVE FALSE
        OBVIOUS
    <2>1. PICK v \in Workers : \E i \in 1 .. done[v] : new = <<v, i>>
        BY DEF Doings
    <2>2. PICK i \in 1 .. done[v] : new = <<v, i>>
        BY <2>1
    <2>3. v = w /\ i = done[w] + 1
        BY <2>2
    <2> QED
        BY <2>2, <2>3
<1> HIDE DEF new
<1>4. IsFiniteSet(Doings \union {new}) /\ Cardinality(Doings \union {new}) = Cardinality(Doings) + 1
    BY <1>3, FS_AddElement
<1> QED
    BY <1>2, <1>4, FS_CardinalityType DEF Total

\* At the beginning nothing has been done.
LEMMA NothingDone == ASSUME \A w \in Workers : done[w] = 0 PROVE IsFiniteSet(Doings) /\ Total = 0
<1>1. Doings = {}
    BY DEF Doings
<1> QED
    BY <1>1, FS_EmptySet DEF Total

-----------------------------------------------------------------------------
(* Where the threads are *)

LEMMA InitTyped == Init => Typed /\ InPlace
<1> SUFFICES ASSUME Init PROVE Typed /\ InPlace
    OBVIOUS
<1>1. Typed
    <2>1. kind \in Kinds /\ kind \in AllKinds /\ main \in Mains /\ holder \in Workers \union {Free}
        BY WakeupAssumption DEF Init, Mains
    <2>2. ws \in [Workers -> Places] /\ done \in [Workers -> Nat] /\ reg \in [Workers -> Nat]
        BY DEF Init, Places
    <2>3. left \in Nat /\ left <= N
        BY WorkersCounted DEF Init
    <2>4. avail \in Nat /\ lost \in Nat /\ spurious \in 0 .. MaxSpurious
        BY WakeupAssumption DEF Init
    <2>5. num \in Nat /\ shown \in Seq(Nat)
        BY DEF Init
    <2>6. pending \in BOOLEAN /\ handling \in BOOLEAN /\ pid \in {0, 1} /\ coalesced \in Nat
        BY DEF Init
    <2> QED
        BY <2>1, <2>2, <2>3, <2>4, <2>5, <2>6 DEF Typed
<1>2. kind \in AllKinds
    BY <1>1 DEF Typed
<1>3. \A w \in Workers : ws[w] \in PlacesOf(kind)
    BY <1>2 DEF Init, PlacesOf, AllKinds, Conds, Counters, Signals
<1>4. InPlace
    BY <1>2, <1>3 DEF Init, InPlace, AllKinds, Conds, Counters, Signals
<1> QED
    BY <1>1, <1>4


\* The chosen one is a worker, and so are those who take part.
LEMMA TeamWorks == Chosen \in Workers /\ Team \subseteq Workers
<1>1. Chosen \in Workers
    BY WakeupAssumption DEF Chosen
<1> QED
    BY <1>1 DEF Team

\* One worker goes on, the others stay where they are.
LEMMA OneGoes ==
    ASSUME ws \in [Workers -> Places], NEW w \in Workers, NEW from, NEW to \in Places, Goes(w, from, to)
    PROVE  /\ ws[w] = from
           /\ ws' \in [Workers -> Places]
           /\ \A v \in Workers : ws'[v] = IF v = w THEN to ELSE ws[v]
BY DEF Goes

\* The places of a program are closed under the steps of one worker.
LEMMA PlaceKept ==
    ASSUME Typed, InPlace, kind' = kind, NEW w \in Workers, NEW from, NEW to \in Places, Goes(w, from, to),
           to \in PlacesOf(kind)
    PROVE  ws' \in [Workers -> Places] /\ \A v \in Workers : ws'[v] \in PlacesOf(kind')
BY OneGoes DEF Typed, InPlace

\* The producer and the semaphore.
LEMMA ProducerTyped ==
    ASSUME Typed, InPlace, Producer \/ \E w \in Workers : SemWait(w)
    PROVE  Typed' /\ InPlace'
<1> USE WorkersCounted
<1>1. CASE SemPost
    BY <1>1 DEF SemPost, Typed, InPlace, countVars, sigVars
<1>2. ASSUME NEW w \in Workers, SemWait(w) PROVE Typed' /\ InPlace'
    BY <1>2 DEF SemWait, Typed, InPlace, countVars, sigVars
<1>3. CASE Notify
    <2> USE <1>3 DEF Notify
    <2>1. ws' \in [Workers -> Places] /\ (\A v \in Workers : ws'[v] \in PlacesOf(kind')) /\ lost' \in Nat
        <3>1. CASE Waiting = {}
            BY <3>1 DEF Typed, InPlace
        <3>2. CASE Waiting # {}
            <4>1. PICK w \in Waiting : Goes(w, "wait", "woken") /\ UNCHANGED lost
                BY <3>2
            <4>2. w \in Workers /\ "woken" \in Places /\ "woken" \in PlacesOf(kind)
                BY <4>1 DEF Waiting, Places, PlacesOf, Conds
            <4> QED
                BY <4>1, <4>2, PlaceKept DEF Typed
        <3> QED
            BY <3>1, <3>2
    <2>2. left' \in Nat /\ left' <= N
        BY DEF Typed
    <2> QED
        BY <2>1, <2>2 DEF Typed, InPlace, countVars, sigVars
<1>4. CASE Broadcast
    <2> USE <1>4 DEF Broadcast
    <2>1. Cardinality(Workers \ Waiting) \in Nat
        OBVIOUS
    <2>2. ws' \in [Workers -> Places]
        BY DEF Typed, Places
    <2>3. "woken" \in PlacesOf(kind)
        BY DEF PlacesOf, Conds
    <2>4. \A v \in Workers : ws'[v] \in PlacesOf(kind')
        BY <2>3 DEF Typed, InPlace
    <2> QED
        BY <2>1, <2>2, <2>4 DEF Typed, InPlace, countVars, sigVars
<1> QED
    BY <1>1, <1>2, <1>3, <1>4 DEF Producer

\* The threads that wait for a condition, and those that count.
LEMMA ThreadTyped ==
    ASSUME Typed, InPlace, NEW w \in Workers,
           Lock(w) \/ CondWait(w) \/ Spurious(w) \/ Consume(w) \/ Load(w) \/ Store(w) \/ Show(w)
    PROVE  Typed' /\ InPlace'
<1> DEFINE Stay == ws' \in [Workers -> Places] /\ \A v \in Workers : ws'[v] \in PlacesOf(kind')
<1>a. \A p \in {"start", "locked", "wait", "woken", "done", "loaded", "stored"} : p \in Places
    BY DEF Places
<1>b. kind \in Conds => \A p \in {"start", "locked", "wait", "woken", "done"} : p \in PlacesOf(kind)
    BY DEF PlacesOf, Conds
<1>c. kind \in Counters => \A p \in {"start", "locked", "loaded", "stored"} : p \in PlacesOf(kind)
    BY DEF PlacesOf, Conds, Counters
<1>d. ws[w] \in {"wait", "woken"} => kind \in Conds
    BY DEF Typed, InPlace, AllKinds, PlacesOf, Conds, Counters, Signals
<1>e. ws[w] \in {"loaded", "stored"} => kind \in Counters
    BY DEF Typed, InPlace, AllKinds, PlacesOf, Conds, Counters, Signals
<1>1. CASE Lock(w)
    <2>1. Stay
        BY <1>1, <1>a, <1>b, <1>c, PlaceKept DEF Lock
    <2> QED
        BY <1>1, <2>1 DEF Lock, Typed, InPlace, itemVars, countVars, sigVars
<1>2. CASE CondWait(w)
    <2>1. Stay
        BY <1>2, <1>a, <1>b, PlaceKept DEF CondWait
    <2> QED
        BY <1>2, <2>1 DEF CondWait, Typed, InPlace, itemVars, countVars, sigVars
<1>3. CASE Spurious(w)
    <2>1. Stay
        BY <1>3, <1>a, <1>b, <1>d, PlaceKept DEF Spurious, Goes
    <2>2. spurious' \in 0 .. MaxSpurious
        BY <1>3, WakeupAssumption DEF Spurious, Typed
    <2> QED
        BY <1>3, <2>1, <2>2 DEF Spurious, Typed, InPlace, countVars, sigVars
<1>4. CASE Consume(w)
    <2>1. Stay
        BY <1>4, <1>a, <1>b, <1>d, PlaceKept DEF Consume, Goes
    <2>2. done' \in [Workers -> Nat]
        BY <1>4 DEF Consume, Typed
    <2> QED
        BY <1>4, <2>1, <2>2 DEF Consume, Typed, InPlace, itemVars, countVars, sigVars
<1>5. CASE Load(w)
    <2>1. Stay
        BY <1>5, <1>a, <1>c, PlaceKept DEF Load
    <2>2. reg' \in [Workers -> Nat]
        BY <1>5 DEF Load, Typed
    <2> QED
        BY <1>5, <2>1, <2>2 DEF Load, Typed, InPlace, itemVars, sigVars
<1>6. CASE Store(w)
    <2>1. Stay
        BY <1>6, <1>a, <1>c, <1>e, PlaceKept DEF Store, Goes
    <2>2. done' \in [Workers -> Nat] /\ num' \in Nat /\ holder' \in Workers \union {Free}
        BY <1>6 DEF Store, Typed
    <2> QED
        BY <1>6, <2>1, <2>2 DEF Store, Typed, InPlace, itemVars, sigVars
<1>7. CASE Show(w)
    <2>1. Stay
        BY <1>7, <1>a, <1>c, <1>e, PlaceKept DEF Show, Goes
    <2>2. shown' \in Seq(Nat) /\ holder' \in Workers \union {Free}
        BY <1>7 DEF Show, Typed
    <2> QED
        BY <1>7, <2>1, <2>2 DEF Show, Typed, InPlace, itemVars, sigVars
<1> QED
    BY <1>1, <1>2, <1>3, <1>4, <1>5, <1>6, <1>7

\* The parent, its children and its handler; main.
LEMMA ProcessTyped ==
    ASSUME Typed, InPlace, Main \/ Handler \/ \E w \in Workers : ChildExits(w)
    PROVE  Typed' /\ InPlace'
<1> DEFINE Stay == ws' \in [Workers -> Places] /\ \A v \in Workers : ws'[v] \in PlacesOf(kind')
           Mood == /\ kind \notin Signals => main' \in {"join", "exit"} /\ ~pending' /\ ~handling'
                   /\ kind \in Signals => main' \notin {"join", "exit"}
                   /\ kind = "mask" => main' \in {"block", "fork", "reset", "unblock", "spin"}
                   /\ kind \in {"reap", "usr1"} => main' \in {"fork", "loop", "killed"}
                   /\ kind = "reap" => main' # "killed"
<1>a. \A p \in {"unborn", "running", "called", "zombie", "reaped"} : p \in Places
    BY DEF Places
<1>b. kind \in Signals => \A p \in {"unborn", "running", "zombie", "reaped"} : p \in PlacesOf(kind)
    BY DEF PlacesOf, Conds, Counters, Signals
<1>c. "called" \in PlacesOf("usr1")
    BY DEF PlacesOf, Conds, Counters
<1>d. \A w \in Workers : ws[w] \in {"running", "called", "zombie", "unborn"} => kind \in Signals
    BY DEF Typed, InPlace, AllKinds, PlacesOf, Conds, Counters, Signals
<1>1. CASE Return
    BY <1>1 DEF Return, Typed, InPlace, Mains, Signals, itemVars, countVars, sigVars
<1>2. CASE Block
    <2>1. Mood /\ main' \in Mains
        BY <1>2 DEF Block, Parent, InPlace, Signals, Mains, sigVars
    <2> QED
        BY <1>2, <2>1 DEF Block, Typed, InPlace, itemVars, countVars, sigVars
<1>3. CASE Fork
    <2>1. Mood /\ main' \in Mains
        BY <1>3 DEF Fork, Parent, InPlace, Signals, Mains, sigVars
    <2>2. PICK w \in Unborn : Goes(w, "unborn", "running")
        BY <1>3 DEF Fork
    <2>3. w \in Workers /\ ws[w] = "unborn"
        BY <2>2, TeamWorks DEF Unborn, Goes
    <2>4. Stay
        BY <1>3, <2>2, <2>3, <1>a, <1>b, <1>d, PlaceKept DEF Fork
    <2> QED
        BY <1>3, <2>1, <2>4 DEF Fork, Typed, InPlace, itemVars, countVars, sigVars
<1>4. CASE Forget
    <2>1. Mood /\ main' \in Mains /\ pid' \in {0, 1}
        BY <1>4 DEF Forget, Parent, InPlace, Signals, Mains
    <2> QED
        BY <1>4, <2>1 DEF Forget, Typed, InPlace, itemVars, countVars
<1>5. CASE Unblock
    <2>1. Mood /\ main' \in Mains
        BY <1>5 DEF Unblock, Parent, InPlace, Signals, Mains, sigVars
    <2> QED
        BY <1>5, <2>1 DEF Unblock, Typed, InPlace, itemVars, countVars, sigVars
<1>6. CASE SpinOut
    <2>1. Mood /\ main' \in Mains
        BY <1>6 DEF SpinOut, Parent, InPlace, Signals, Mains, sigVars
    <2> QED
        BY <1>6, <2>1 DEF SpinOut, Typed, InPlace, itemVars, countVars, sigVars
<1>7. CASE Deliver
    <2>1. Mood
        BY <1>7 DEF Deliver, InPlace, Typed
    <2> QED
        BY <1>7, <2>1 DEF Deliver, Typed, InPlace, itemVars, countVars
<1>8. CASE Reap
    <2>1. PICK w \in Zombies : Goes(w, "zombie", "reaped")
        BY <1>8 DEF Reap
    <2>2. w \in Workers /\ ws[w] = "zombie" /\ kind \in Signals
        BY <2>1, <1>d DEF Zombies
    <2>3. Stay
        BY <1>8, <2>1, <2>2, <1>a, <1>b, PlaceKept DEF Reap
    <2>4. Mood /\ main' \in Mains
        BY <1>8, <2>2 DEF Reap, InPlace, Signals, Mains, Typed
    <2>5. pid' \in {0, 1} /\ handling' \in BOOLEAN
        BY <1>8 DEF Reap
    <2> QED
        BY <1>8, <2>3, <2>4, <2>5 DEF Reap, Typed, InPlace, itemVars, countVars
<1>9. ASSUME NEW w \in Workers, ChildExits(w) PROVE Typed' /\ InPlace'
    <2>1. kind' = kind /\ kind \in Signals
        BY <1>9, <1>d DEF ChildExits, Goes
    <2>2. Stay
        BY <1>9, <2>1, <1>a, <1>b, <1>c, PlaceKept DEF ChildExits
    <2>3. Raise \/ UNCHANGED sigVars
        BY <1>9 DEF ChildExits
    <2>4. pending' \in BOOLEAN /\ handling' = handling /\ pid' = pid
        BY <2>3 DEF Raise, Typed, sigVars
    <2>5. coalesced' \in Nat
        BY <2>3 DEF Raise, Typed, sigVars
    <2>6. Mood
        BY <1>9, <2>1 DEF ChildExits, InPlace
    <2> QED
        BY <1>9, <2>2, <2>4, <2>5, <2>6 DEF ChildExits, Typed, InPlace, itemVars, countVars
<1> QED
    BY <1>1, <1>2, <1>3, <1>4, <1>5, <1>6, <1>7, <1>8, <1>9 DEF Main, Handler

\* Every step keeps the types and the places.
LEMMA TypedKept == Typed /\ InPlace /\ [Next]_vars => Typed' /\ InPlace'
<1> SUFFICES ASSUME Typed, InPlace, [Next]_vars PROVE Typed' /\ InPlace'
    OBVIOUS
<1>1. CASE UNCHANGED vars
    BY <1>1 DEF vars, itemVars, countVars, sigVars, Typed, InPlace
<1>2. CASE Next
    BY <1>2, ProducerTyped, ThreadTyped, ProcessTyped DEF Next, Worker
<1> QED
    BY <1>1, <1>2

-----------------------------------------------------------------------------
(* Where the items are *)

LEMMA InitItems == Init => ItemsInv
<1> SUFFICES ASSUME Init PROVE ItemsInv
    OBVIOUS
<1>1. IsFiniteSet(Doings) /\ Total = 0
    BY NothingDone DEF Init
<1>2. Woken = {}
    BY DEF Init, Woken
<1>3. Cardinality(Woken) = 0
    BY <1>2, FS_EmptySet
<1>4. kind \in Conds => left = N
    BY DEF Init
<1>5. kind = "post" => left = N
    BY DEF Init
<1>6. lost = 0 /\ avail = 0 /\ spurious = 0
    BY DEF Init
<1> QED
    BY <1>1, <1>3, <1>4, <1>5, <1>6, WorkersCounted DEF ItemsInv, Conds

\* Nobody is woken, consumes or produces.
LEMMA ItemsStay ==
    ASSUME ItemsInv, UNCHANGED <<kind, done, itemVars>>, Woken' = Woken
    PROVE  ItemsInv'
BY DEF ItemsInv, itemVars, Total, Doings

\* A worker moves between places that are not "woken".
LEMMA WokenStay ==
    ASSUME Typed, NEW w \in Workers, NEW from, NEW to \in Places, Goes(w, from, to),
           from # "woken", to # "woken"
    PROVE  Woken' = Woken
BY OneGoes DEF Typed, Woken

\* A worker is woken.
LEMMA WokenMore ==
    ASSUME Typed, NEW w \in Workers, Goes(w, "wait", "woken")
    PROVE  Cardinality(Woken') = Cardinality(Woken) + 1
<1>1. Woken \in SUBSET Workers /\ w \notin Woken
    BY DEF Woken, Goes
<1>2. Woken' = Woken \union {w}
    BY OneGoes DEF Typed, Woken, Places
<1> QED
    BY <1>1, <1>2, OneMore

\* A worker that was woken consumes.
LEMMA WokenLess ==
    ASSUME Typed, NEW w \in Workers, Goes(w, "woken", "done")
    PROVE  Cardinality(Woken') = Cardinality(Woken) - 1
<1>1. Woken \in SUBSET Workers /\ w \in Woken
    BY DEF Woken, Goes
<1>2. Woken' = Woken \ {w}
    BY OneGoes DEF Typed, Woken, Places
<1> QED
    BY <1>1, <1>2, OneLess

\* The items an item step moves.
LEMMA ItemsMoved ==
    ASSUME Typed, InPlace, ItemsInv,
           \/ SemPost \/ Notify \/ Broadcast
           \/ \E w \in Workers : SemWait(w) \/ Spurious(w) \/ Consume(w) \/ Store(w)
    PROVE  ItemsInv'
<1> DEFINE woken == Cardinality(Woken)
<1> USE WorkersCounted
<1>n. woken \in Nat /\ Total \in Nat
    BY FS_CardinalityType DEF Woken, Total, ItemsInv
<1>d. UNCHANGED done => Doings' = Doings /\ Total' = Total
    BY DEF Doings, Total
<1>1. CASE SemPost
    <2>1. kind \notin Conds
        BY <1>1 DEF SemPost, Conds
    <2> QED
        BY <1>1, <1>n, <1>d, <2>1 DEF SemPost, ItemsInv, Typed
<1>2. ASSUME NEW w \in Workers, SemWait(w) PROVE ItemsInv'
    <2>1. kind \notin Conds
        BY <1>2 DEF SemWait, Conds
    <2>2. IsFiniteSet(Doings') /\ Total' = Total + 1
        BY <1>2, DoneOnce DEF SemWait, ItemsInv, Typed
    <2> QED
        BY <1>2, <1>n, <2>1, <2>2 DEF SemWait, ItemsInv, Typed
<1>3. CASE Notify
    <2>1. kind \in Conds /\ kind \notin {"post", "broadcast"}
        BY <1>3 DEF Notify, Conds
    <2>2. CASE Waiting = {}
        <3>1. Woken' = Woken /\ lost' = lost + 1
            BY <1>3, <2>2 DEF Notify, Woken
        <3>2. Cardinality(Woken') = woken
            BY <3>1
        <3> HIDE DEF woken
        <3>3. Total + woken + lost = N - left + spurious /\ lost <= N - left /\ avail = 0
            BY <2>1 DEF ItemsInv, woken
        <3> QED
            BY <1>3, <1>n, <1>d, <2>1, <3>1, <3>2, <3>3 DEF Notify, ItemsInv, Typed
    <2>3. CASE Waiting # {}
        <3>1. PICK w \in Waiting : Goes(w, "wait", "woken") /\ UNCHANGED lost
            BY <1>3, <2>3 DEF Notify
        <3>2. Cardinality(Woken') = woken + 1
            BY <3>1, WokenMore DEF Waiting
        <3> HIDE DEF woken
        <3>3. Total + woken + lost = N - left + spurious /\ lost <= N - left /\ avail = 0
            BY <2>1 DEF ItemsInv, woken
        <3> QED
            BY <1>3, <1>n, <1>d, <2>1, <3>1, <3>2, <3>3 DEF Notify, ItemsInv, Typed
    <2> QED
        BY <2>2, <2>3
<1>4. CASE Broadcast
    <2>1. kind \in Conds /\ kind # "post" /\ kind' = kind
        BY <1>4 DEF Broadcast, Conds
    <2>2. left = N /\ left' = 0 /\ lost' = lost + Cardinality(Workers \ Waiting)
        BY <1>4 DEF Broadcast, ItemsInv, Typed
    <2>3. lost = 0 /\ Total + woken = spurious /\ avail = 0
        BY <1>n, <2>1, <2>2 DEF ItemsInv, Typed
    <2>4. Woken' = Woken \union Waiting
        BY <1>4 DEF Broadcast, Woken, Waiting
    <2>5. Woken \intersect Waiting = {}
        BY DEF Woken, Waiting
    <2>6. Cardinality(Woken') = woken + Cardinality(Waiting)
        <3>1. IsFiniteSet(Woken) /\ IsFiniteSet(Waiting) /\ Cardinality(Waiting) \in Nat
            BY DEF Woken, Waiting
        <3> QED
            BY <2>4, <2>5, <3>1, DisjointSum
    <2>7. Cardinality(Waiting) + Cardinality(Workers \ Waiting) = N
        <3>1. IsFiniteSet(Waiting) /\ Waiting \intersect (Workers \ Waiting) = {}
                 /\ Waiting \union (Workers \ Waiting) = Workers /\ Cardinality(Waiting) \in Nat
            BY DEF Waiting
        <3>2. IsFiniteSet(Workers \ Waiting) /\ Cardinality(Workers \ Waiting) \in Nat
            OBVIOUS
        <3> QED
            BY <3>1, <3>2, DisjointSum DEF N
    <2>8. Cardinality(Waiting) \in Nat /\ Cardinality(Workers \ Waiting) \in Nat
        BY DEF Waiting
    <2> HIDE DEF woken
    <2>9. Total' + Cardinality(Woken') + lost' = N - left' + spurious'
        <3>1. Total' = Total /\ spurious' = spurious
            BY <1>4, <1>d DEF Broadcast
        <3>2. Total + woken = spurious /\ spurious \in Nat
            BY <2>3 DEF Typed
        <3> QED
            BY <1>n, <2>2, <2>3, <2>6, <2>7, <2>8, <3>1, <3>2
    <2>10. lost' <= N - left'
        BY <2>2, <2>3, <2>7, <2>8
    <2> QED
        BY <1>4, <1>d, <2>1, <2>2, <2>3, <2>9, <2>10 DEF Broadcast, ItemsInv
<1>5. ASSUME NEW w \in Workers, Spurious(w) PROVE ItemsInv'
    <2>1. Cardinality(Woken') = woken + 1
        BY <1>5, WokenMore DEF Spurious
    <2>2. kind # "post"
        BY <1>5 DEF Spurious, Goes, Typed, InPlace, PlacesOf, Conds, Counters
    <2> HIDE DEF woken
    <2>3. kind \in Conds => Total + woken + lost = N - left + spurious
        BY DEF ItemsInv, woken
    <2> QED
        BY <1>5, <1>n, <1>d, <2>1, <2>2, <2>3 DEF Spurious, ItemsInv, Typed
<1>6. ASSUME NEW w \in Workers, Consume(w) PROVE ItemsInv'
    <2>1. Cardinality(Woken') = woken - 1
        BY <1>6, WokenLess DEF Consume
    <2>2. kind # "post"
        BY <1>6 DEF Consume, Goes, Typed, InPlace, PlacesOf, Conds, Counters
    <2>3. IsFiniteSet(Doings') /\ Total' = Total + 1
        BY <1>6, DoneOnce DEF Consume, ItemsInv, Typed
    <2> HIDE DEF woken
    <2>4. kind \in Conds => Total + woken + lost = N - left + spurious
        BY DEF ItemsInv, woken
    <2> QED
        BY <1>6, <1>n, <2>1, <2>2, <2>3, <2>4 DEF Consume, ItemsInv, Typed, itemVars
<1>7. ASSUME NEW w \in Workers, Store(w) PROVE ItemsInv'
    <2>1. kind # "post" /\ kind \notin Conds
        BY <1>7 DEF Store, Goes, Typed, InPlace, PlacesOf, Conds, Counters
    <2>2. IsFiniteSet(Doings') /\ Total' = Total + 1
        BY <1>7, DoneOnce DEF Store, ItemsInv, Typed
    <2> QED
        BY <1>7, <1>n, <2>1, <2>2 DEF Store, ItemsInv, Typed, itemVars
<1> QED
    BY <1>1, <1>2, <1>3, <1>4, <1>5, <1>6, <1>7

\* Every step keeps account of the items.
LEMMA ItemsKept == Typed /\ InPlace /\ ItemsInv /\ [Next]_vars => ItemsInv'
<1> SUFFICES ASSUME Typed, InPlace, ItemsInv, [Next]_vars PROVE ItemsInv'
    OBVIOUS
<1>a. \A p \in {"locked", "wait", "loaded", "start", "running", "called", "zombie", "reaped"} : p \in Places
    BY DEF Places
<1>w. UNCHANGED ws => Woken' = Woken
    BY DEF Woken
<1>1. CASE UNCHANGED vars
    BY <1>1, <1>w, ItemsStay DEF vars
<1>2. CASE Producer
    BY <1>2, ItemsMoved DEF Producer
<1>3. ASSUME NEW w \in Workers, SemWait(w) \/ Spurious(w) \/ Consume(w) \/ Store(w) PROVE ItemsInv'
    BY <1>3, ItemsMoved
<1>4. ASSUME NEW w \in Workers, Lock(w) PROVE ItemsInv'
    BY <1>4, <1>a, WokenStay, ItemsStay DEF Lock
<1>5. ASSUME NEW w \in Workers, CondWait(w) PROVE ItemsInv'
    BY <1>5, <1>a, WokenStay, ItemsStay DEF CondWait
<1>6. ASSUME NEW w \in Workers, Load(w) PROVE ItemsInv'
    BY <1>6, <1>a, WokenStay, ItemsStay DEF Load
<1>7. ASSUME NEW w \in Workers, Show(w) PROVE ItemsInv'
    BY <1>7, <1>a, WokenStay, ItemsStay DEF Show
<1>8. ASSUME NEW w \in Workers, ChildExits(w) PROVE ItemsInv'
    BY <1>8, <1>a, WokenStay, ItemsStay DEF ChildExits
<1>9. CASE Fork
    <2>1. PICK w \in Unborn : Goes(w, "unborn", "running")
        BY <1>9 DEF Fork
    <2>2. w \in Workers
        BY <2>1, TeamWorks DEF Unborn
    <2> QED
        BY <1>9, <2>1, <2>2, <1>a, WokenStay, ItemsStay DEF Fork
<1>10. CASE Reap
    <2>1. PICK w \in Zombies : Goes(w, "zombie", "reaped")
        BY <1>10 DEF Reap
    <2> QED
        BY <1>10, <2>1, <1>a, WokenStay, ItemsStay DEF Reap, Zombies
<1>11. CASE Return \/ Block \/ Forget \/ Unblock \/ SpinOut \/ Deliver
    BY <1>11, <1>w, ItemsStay DEF Return, Block, Forget, Unblock, SpinOut, Deliver
<1> QED
    BY <1>1, <1>2, <1>3, <1>4, <1>5, <1>6, <1>7, <1>8, <1>9, <1>10, <1>11
    DEF Next, Main, Handler, Worker

-----------------------------------------------------------------------------
(* Counting under the mutex *)

LEMMA InitCount == Init => CountInv
<1> SUFFICES ASSUME Init, kind \in Counters PROVE CountInv
    BY DEF CountInv
<1>1. \A w \in Workers : ws[w] = "start"
    BY DEF Init, Counters, Signals
<1>2. num = 0 /\ shown = <<>> /\ holder = Free
    BY DEF Init
<1>3. Total = 0
    BY NothingDone DEF Init
<1>4. Len(shown) = 0 /\ DOMAIN shown = {}
    BY <1>2
<1> QED
    BY <1>1, <1>2, <1>3, <1>4, WakeupAssumption DEF CountInv, Held

\* No thread comes or goes and nothing is counted.
LEMMA CountStay ==
    ASSUME CountInv, UNCHANGED <<kind, ws, done, holder, countVars>>
    PROVE  CountInv'
BY DEF CountInv, countVars, Held, Total, Doings

\* A thread takes the mutex.
LEMMA LockCounts ==
    ASSUME Typed, CountInv, kind \in Counters, NEW w \in Workers, Lock(w)
    PROVE  CountInv'
<1>1. /\ ws[w] = "start" /\ "locked" \in Places
      /\ \A v \in Workers : ws'[v] = IF v = w THEN "locked" ELSE ws[v]
    BY OneGoes DEF Lock, Goes, Typed, Places
<1>2. /\ kind' = kind /\ holder = Free /\ holder' = w
      /\ num' = num /\ reg' = reg /\ shown' = shown /\ Held' = Held /\ Total' = Total
    BY DEF Lock, countVars, Held, Total, Doings
<1>3. \A v \in Workers : ws'[v] \in Held <=> holder' = v
    BY <1>1, <1>2, WakeupAssumption DEF CountInv, Held
<1> QED
    BY <1>1, <1>2, <1>3 DEF CountInv

\* It loads the counter.
LEMMA LoadCounts ==
    ASSUME Typed, CountInv, kind \in Counters, NEW w \in Workers, Load(w)
    PROVE  CountInv'
<1>1. /\ ws[w] = "locked" /\ "loaded" \in Places
      /\ \A v \in Workers : ws'[v] = IF v = w THEN "loaded" ELSE ws[v]
    BY OneGoes DEF Load, Goes, Typed, Places
<1>2. /\ kind' = kind /\ holder' = holder
      /\ num' = num /\ shown' = shown /\ Held' = Held /\ Total' = Total
    BY DEF Load, Held, Total, Doings
<1>3. \A v \in Workers : reg'[v] = IF v = w THEN num ELSE reg[v]
    BY DEF Load, Typed
<1>4. \A v \in Workers : ws'[v] \in Held <=> holder' = v
    BY <1>1, <1>2 DEF CountInv, Held
<1> QED
    BY <1>1, <1>2, <1>3, <1>4 DEF CountInv

\* It stores it, incremented.
LEMMA StoreCounts ==
    ASSUME Typed, IsFiniteSet(Doings), CountInv, kind \in Counters, NEW w \in Workers, Store(w)
    PROVE  CountInv'
<1>1. /\ ws[w] = "loaded" /\ "stored" \in Places
      /\ \A v \in Workers : ws'[v] = IF v = w THEN "stored" ELSE ws[v]
    BY OneGoes DEF Store, Goes, Typed, Places
<1>2. kind' = kind /\ shown' = shown /\ Held' = Held /\ reg' = reg
    BY DEF Store, Held
<1>3. holder = w
    BY <1>1 DEF CountInv, Held
<1>4. \A v \in Workers : v # w => ws[v] \notin Held /\ ws[v] # "loaded"
    BY <1>3 DEF CountInv, Held
<1>5. num' = num + 1
    BY <1>1 DEF Store, CountInv
<1>6. num' = Total'
    BY <1>5, DoneOnce DEF Store, Typed, CountInv
<1>7. \A v \in Workers : ws'[v] \in Held <=> holder' = v
    <2>1. CASE kind = "whole"
        BY <1>1, <1>3, <1>4, <2>1 DEF Held, Store
    <2>2. CASE kind = "shared"
        BY <1>1, <1>3, <1>4, <2>2, WakeupAssumption DEF Held, Store
    <2> QED
        BY <2>1, <2>2 DEF Counters
<1>8. kind = "whole" => num' = Len(shown) + 1
    <2>1. kind = "whole" => \A v \in Workers : ws[v] # "stored"
        BY <1>1, <1>4 DEF Held
    <2> QED
        BY <2>1, <1>5 DEF CountInv
<1>9. ws'[w] = "stored"
    BY <1>1
<1>10. \A v \in Workers : ws'[v] # "loaded"
    BY <1>1, <1>4
<1> QED
    BY <1>2, <1>6, <1>7, <1>8, <1>9, <1>10 DEF CountInv

\* It prints it.
LEMMA ShowCounts ==
    ASSUME Typed, CountInv, kind \in Counters, NEW w \in Workers, Show(w)
    PROVE  CountInv'
<1>1. /\ ws[w] = "stored" /\ "start" \in Places
      /\ \A v \in Workers : ws'[v] = IF v = w THEN "start" ELSE ws[v]
    BY OneGoes DEF Show, Goes, Typed, Places
<1>2. kind' = kind /\ num' = num /\ reg' = reg /\ Held' = Held /\ Total' = Total
    BY DEF Show, Held, Total, Doings
<1>3. \A v \in Workers : ws'[v] \in Held <=> holder' = v
    <2>1. CASE kind = "whole"
        BY <1>1, <2>1, WakeupAssumption DEF CountInv, Held, Show
    <2>2. CASE kind = "shared"
        BY <1>1, <2>2 DEF CountInv, Held, Show
    <2> QED
        BY <2>1, <2>2 DEF Counters
<1>4. ASSUME kind = "whole"
      PROVE  /\ \A i \in DOMAIN shown' : shown'[i] = i
             /\ num' = Len(shown')
             /\ \A v \in Workers : ws'[v] # "stored"
    <2>1. holder = w /\ num = Len(shown) + 1 /\ \A i \in DOMAIN shown : shown[i] = i
        BY <1>1, <1>4 DEF CountInv, Held
    <2>2. shown' = Append(shown, num) /\ shown \in Seq(Nat) /\ num \in Nat
        BY DEF Show, Typed
    <2>3. Len(shown') = Len(shown) + 1 /\ Len(shown) \in Nat /\ DOMAIN shown = 1 .. Len(shown)
          /\ DOMAIN shown' = 1 .. Len(shown) + 1
        BY <2>2
    <2>4. \A i \in 1 .. Len(shown) + 1 : shown'[i] = IF i <= Len(shown) THEN shown[i] ELSE num
        BY <2>2
    <2>5. \A i \in DOMAIN shown' : shown'[i] = i
        BY <2>1, <2>3, <2>4
    <2>6. \A v \in Workers : v # w => ws[v] # "stored"
        BY <2>1, <1>4 DEF CountInv, Held
    <2> QED
        BY <1>1, <1>2, <2>1, <2>3, <2>5, <2>6
<1> QED
    BY <1>1, <1>2, <1>3, <1>4 DEF CountInv

\* Every step keeps the counter exact.
LEMMA CountKept == Typed /\ InPlace /\ ItemsInv /\ CountInv /\ [Next]_vars => CountInv'
<1> SUFFICES ASSUME Typed, InPlace, ItemsInv, CountInv, [Next]_vars, kind' \in Counters PROVE CountInv'
    BY DEF CountInv
<1>k. kind' = kind
    BY DEF vars, Next, Producer, Main, Handler, Worker, SemPost, SemWait, Notify, Broadcast, Lock, CondWait,
           Spurious, Consume, Load, Store, Show, Return, Block, Fork, Forget, Unblock, SpinOut, ChildExits,
           Deliver, Reap
<1>c. kind \in Counters /\ kind # "post" /\ kind \notin Conds
    BY <1>k DEF Counters, Conds
<1>p. \A w \in Workers : ws[w] \in {"start", "locked", "loaded", "stored"}
    BY <1>c DEF InPlace, PlacesOf
<1>1. CASE UNCHANGED vars
    BY <1>1, CountStay DEF vars
<1>2. CASE Producer
    BY <1>2, <1>c DEF Producer, SemPost, Notify, Broadcast, Conds
<1>3. CASE Main
    <2>1. CASE Fork
        BY <2>1, <1>p, TeamWorks DEF Fork, Goes, Unborn
    <2>2. CASE Return \/ Block \/ Forget \/ Unblock \/ SpinOut
        BY <2>2, CountStay DEF Return, Block, Forget, Unblock, SpinOut
    <2> QED
        BY <1>3, <2>1, <2>2 DEF Main
<1>4. CASE Handler
    <2>1. CASE Deliver
        BY <2>1, CountStay DEF Deliver
    <2>2. CASE Reap
        BY <2>2, <1>p DEF Reap, Zombies
    <2> QED
        BY <1>4, <2>1, <2>2 DEF Handler
<1>5. ASSUME NEW w \in Workers, SemWait(w) \/ CondWait(w) \/ Spurious(w) \/ Consume(w) \/ ChildExits(w)
      PROVE CountInv'
    BY <1>5, <1>c, <1>p DEF SemWait, CondWait, Spurious, Consume, ChildExits, Goes
<1>6. ASSUME NEW w \in Workers, Lock(w) \/ Load(w) \/ Store(w) \/ Show(w)
      PROVE CountInv'
    BY <1>6, <1>c, LockCounts, LoadCounts, StoreCounts, ShowCounts DEF ItemsInv
<1> QED
    BY <1>1, <1>2, <1>3, <1>4, <1>5, <1>6 DEF Next, Worker

-----------------------------------------------------------------------------
(* Signals *)

LEMMA InitSignals == Init => SignalInv
<1> SUFFICES ASSUME Init PROVE SignalInv
    OBVIOUS
<1>1. pending = FALSE /\ handling = FALSE /\ coalesced = 0 /\ pid = 0 /\ (kind = "mask" => main = "block")
    BY DEF Init
<1>2. \A w \in Workers : ws[w] \in {"unborn", "start"}
    BY DEF Init
<1>3. kind = "usr1" => \A w \in Workers : ws[w] = "unborn"
    BY DEF Init, Signals
<1>4. Cardinality(Zombies) = 0
    <2>1. Zombies = {}
        BY <1>2 DEF Zombies
    <2> QED
        BY <2>1, FS_EmptySet
<1>5. NoChild
    BY <1>2 DEF NoChild
<1> QED
    BY <1>1, <1>3, <1>4, <1>5 DEF SignalInv, ZombieInv, MaskInv, CallInv, QuietInv, Bit

\* No thread or process goes on, and no signal comes.
LEMMA SignalsStay ==
    ASSUME SignalInv, UNCHANGED <<kind, main, ws, sigVars>>
    PROVE  SignalInv'
BY DEF SignalInv, ZombieInv, MaskInv, CallInv, QuietInv, sigVars, Zombies, NoChild, OneChild, Bit

\* Whatever happens in the other programs raises no signal.
LEMMA NoSignals ==
    ASSUME InPlace, SignalInv, kind \notin Signals, UNCHANGED <<kind, coalesced>>
    PROVE  SignalInv'
BY DEF SignalInv, ZombieInv, MaskInv, CallInv, QuietInv, Signals

\* The number of zombies changes only when a worker becomes one or is reaped.
LEMMA ZombiesStay ==
    ASSUME Typed, NEW w \in Workers, NEW from, NEW to \in Places, Goes(w, from, to),
           from # "zombie", to # "zombie"
    PROVE  Zombies' = Zombies
BY OneGoes DEF Typed, Zombies

\* A child ends.
LEMMA ZombiesMore ==
    ASSUME Typed, NEW w \in Workers, NEW from, from # "zombie", Goes(w, from, "zombie")
    PROVE  Cardinality(Zombies') = Cardinality(Zombies) + 1
<1>1. Zombies \in SUBSET Workers /\ w \notin Zombies
    BY DEF Zombies, Goes
<1>2. Zombies' = Zombies \union {w}
    BY OneGoes DEF Typed, Zombies, Places
<1> QED
    BY <1>1, <1>2, OneMore

\* A child is reaped.
LEMMA ZombiesLess ==
    ASSUME Typed, NEW w \in Workers, Goes(w, "zombie", "reaped")
    PROVE  Cardinality(Zombies') = Cardinality(Zombies) - 1
<1>1. Zombies \in SUBSET Workers /\ w \in Zombies
    BY DEF Zombies, Goes
<1>2. Zombies' = Zombies \ {w}
    BY OneGoes DEF Typed, Zombies, Places
<1> QED
    BY <1>1, <1>2, OneLess

\* The parent gets a child.
LEMMA ForkSignals == ASSUME Typed, InPlace, SignalInv, Fork PROVE SignalInv'
<1>1. PICK w \in Unborn : Goes(w, "unborn", "running")
    BY DEF Fork
<1>2. w \in Workers /\ w \in Team /\ "running" \in Places
    BY <1>1, TeamWorks DEF Unborn, Places
<1>3. /\ ws[w] = "unborn"
      /\ \A v \in Workers : ws'[v] = IF v = w THEN "running" ELSE ws[v]
    BY <1>1, <1>2, OneGoes DEF Typed
<1>4. kind' = kind /\ pending' = pending /\ handling' = handling /\ pid' = pid /\ coalesced' = coalesced
    BY DEF Fork, sigVars
<1>5. Zombies' = Zombies
    BY <1>1, <1>2, ZombiesStay
<1>6. ZombieInv'
    BY <1>4, <1>5 DEF SignalInv, ZombieInv, Bit
<1>7. MaskInv'
    <2> SUFFICES ASSUME kind = "mask" PROVE MaskInv'
        BY <1>4 DEF MaskInv
    <2>1. main = "fork" /\ main' = "reset"
        BY DEF Fork, Parent
    <2>2. coalesced = 0 /\ NoChild /\ ~pending /\ ~handling
        BY <2>1 DEF SignalInv, MaskInv
    <2>3. OneChild'
        BY <1>2, <1>3, <2>2 DEF OneChild, NoChild
    <2>4. ~NoChild'
        BY <1>2, <1>3 DEF NoChild
    <2> QED
        BY <1>4, <2>1, <2>2, <2>3, <2>4 DEF MaskInv
<1>8. CallInv'
    <2> SUFFICES ASSUME kind = "usr1" PROVE CallInv'
        BY <1>4 DEF CallInv
    <2>1. w = Chosen
        BY <1>2 DEF Team
    <2>2. ~pending /\ ~handling
        BY <1>3, <2>1 DEF SignalInv, CallInv
    <2> QED
        BY <1>3, <1>4, <2>1, <2>2 DEF SignalInv, CallInv
<1> QED
    BY <1>4, <1>6, <1>7, <1>8 DEF SignalInv, QuietInv

\* A child ends, or calls.
LEMMA ExitSignals == ASSUME Typed, InPlace, SignalInv, NEW w \in Workers, ChildExits(w) PROVE SignalInv'
<1>a. kind' = kind /\ main' = main
    BY DEF ChildExits
<1>b. "zombie" \in Places /\ "called" \in Places
    BY DEF Places
<1>c. ws[w] \in {"running", "called"}
    BY DEF ChildExits, Goes
<1>d. kind \in Signals /\ (ws[w] = "called" => kind = "usr1")
    BY <1>c DEF Typed, InPlace, AllKinds, PlacesOf, Conds, Counters, Signals
<1>1. CASE kind = "usr1"
    <2>1. w = Chosen /\ coalesced = 0
        BY <1>1, <1>c DEF SignalInv, CallInv
    <2>2. CASE Goes(w, "running", "called") /\ Raise
        <3>1. ~pending /\ ~handling
            BY <1>1, <2>1, <2>2 DEF SignalInv, CallInv, Goes
        <3>2. coalesced' = 0
            BY <2>1, <2>2, <3>1 DEF Raise
        <3>3. \A v \in Workers : ws'[v] = IF v = w THEN "called" ELSE ws[v]
            BY <2>2, <1>b, OneGoes DEF Typed
        <3> QED
            BY <1>1, <1>a, <2>1, <3>2, <3>3 DEF SignalInv, ZombieInv, MaskInv, CallInv, QuietInv, Signals
    <2>3. CASE Goes(w, "called", "zombie") /\ UNCHANGED sigVars
        <3>1. \A v \in Workers : ws'[v] = IF v = w THEN "zombie" ELSE ws[v]
            BY <2>3, <1>b, OneGoes DEF Typed
        <3> QED
            BY <1>1, <1>a, <2>1, <2>3, <3>1 DEF SignalInv, ZombieInv, MaskInv, CallInv, QuietInv, Signals, sigVars
    <2> QED
        BY <1>1, <2>2, <2>3 DEF ChildExits
<1>2. CASE kind # "usr1"
    <2>1. Goes(w, "running", "zombie") /\ Raise
        BY <1>2, <1>c, <1>d DEF ChildExits, Goes
    <2>2. Cardinality(Zombies') = Cardinality(Zombies) + 1
        BY <2>1, ZombiesMore
    <2>3. /\ ws[w] = "running"
          /\ \A v \in Workers : ws'[v] = IF v = w THEN "zombie" ELSE ws[v]
        BY <2>1, <1>b, OneGoes DEF Typed
    <2>4. pending' = TRUE /\ handling' = handling /\ pid' = pid
        BY <2>1 DEF Raise
    <2>5. ZombieInv'
        <3>1. CASE pending
            <4>1. coalesced' = coalesced + 1
                BY <2>1, <3>1 DEF Raise
            <4> QED
                BY <1>a, <2>2, <2>4, <3>1, <4>1, WorkersCounted DEF SignalInv, ZombieInv, Bit, Typed
        <3>2. CASE ~pending
            <4>1. coalesced' = coalesced
                BY <2>1, <3>2 DEF Raise
            <4> QED
                BY <1>a, <2>2, <2>4, <3>2, <4>1, WorkersCounted DEF SignalInv, ZombieInv, Bit, Typed
        <3> QED
            BY <3>1, <3>2
    <2>6. MaskInv'
        <3> SUFFICES ASSUME kind = "mask" PROVE MaskInv'
            BY <1>a DEF MaskInv
        <3>1. ~NoChild /\ main \in {"reset", "unblock", "spin"}
            BY <2>3 DEF NoChild, SignalInv, MaskInv, InPlace
        <3>2. OneChild /\ ~pending /\ ~handling /\ coalesced = 0
            BY <3>1 DEF SignalInv, MaskInv
        <3>3. NoChild'
            BY <2>3, <3>2 DEF OneChild, NoChild
        <3>4. coalesced' = 0
            BY <2>1, <3>2 DEF Raise
        <3>5. main = "unblock" => pid = 0
            BY DEF SignalInv, MaskInv
        <3>6. main = "spin" => pid = 0
            BY <3>2 DEF SignalInv, MaskInv
        <3> QED
            BY <1>a, <2>4, <3>1, <3>2, <3>3, <3>4, <3>5, <3>6 DEF MaskInv
    <2> QED
        BY <1>2, <1>a, <1>d, <2>5, <2>6 DEF SignalInv, CallInv, QuietInv
<1> QED
    BY <1>1, <1>2

\* The handler starts.
LEMMA DeliverSignals == ASSUME Typed, InPlace, SignalInv, Deliver PROVE SignalInv'
<1>1. pending = TRUE /\ handling = FALSE /\ pending' = FALSE /\ handling' = TRUE
    BY DEF Deliver, Typed
<1>2. kind' = kind /\ main' = main /\ ws' = ws /\ pid' = pid /\ coalesced' = coalesced
    BY DEF Deliver
<1>3. Zombies' = Zombies /\ (NoChild' <=> NoChild) /\ (OneChild' <=> OneChild)
    BY <1>2 DEF Zombies, NoChild, OneChild
<1>4. ZombieInv'
    BY <1>1, <1>2, <1>3 DEF SignalInv, ZombieInv, Bit, Typed
<1>5. MaskInv'
    <2> SUFFICES ASSUME kind = "mask" PROVE MaskInv'
        BY <1>2 DEF MaskInv
    <2>1. main \in {"block", "spin"}
        BY DEF Deliver, Masked, InPlace
    <2>2. main = "spin"
        BY <1>1, <2>1 DEF SignalInv, MaskInv
    <2>3. NoChild /\ coalesced = 0 /\ pid = 0
        BY <1>1, <2>2 DEF SignalInv, MaskInv
    <2> QED
        BY <1>1, <1>2, <1>3, <2>2, <2>3 DEF MaskInv
<1>6. CallInv'
    BY <1>1, <1>2 DEF SignalInv, CallInv
<1> QED
    BY <1>2, <1>4, <1>5, <1>6 DEF SignalInv, QuietInv

\* It collects one child.
LEMMA ReapSignals == ASSUME Typed, InPlace, SignalInv, Reap PROVE SignalInv'
<1>1. PICK w \in Zombies : Goes(w, "zombie", "reaped")
    BY DEF Reap
<1>2. w \in Workers /\ "reaped" \in Places
    BY <1>1 DEF Zombies, Places
<1>3. /\ ws[w] = "zombie"
      /\ \A v \in Workers : ws'[v] = IF v = w THEN "reaped" ELSE ws[v]
    BY <1>1, <1>2, OneGoes DEF Typed
<1>4. /\ handling = TRUE /\ handling' = FALSE /\ pid' = 1
      /\ kind' = kind /\ pending' = pending /\ coalesced' = coalesced
    BY DEF Reap, Typed
<1>5. Cardinality(Zombies') = Cardinality(Zombies) - 1
    BY <1>1, <1>2, ZombiesLess
<1>6. (NoChild' <=> NoChild) /\ (OneChild' <=> OneChild)
    BY <1>3 DEF NoChild, OneChild
<1>7. ZombieInv'
    BY <1>4, <1>5, WorkersCounted DEF SignalInv, ZombieInv, Bit, Typed
<1>8. MaskInv'
    <2> SUFFICES ASSUME kind = "mask" PROVE MaskInv'
        BY <1>4 DEF MaskInv
    <2>1. main' = main
        BY DEF Reap
    <2>2. main = "spin" /\ NoChild /\ ~pending /\ coalesced = 0
        BY <1>4 DEF SignalInv, MaskInv, InPlace
    <2>3. ~OneChild
        BY <2>2 DEF NoChild, OneChild
    <2> QED
        BY <1>4, <1>6, <2>1, <2>2, <2>3 DEF MaskInv
<1>9. CallInv'
    BY <1>3, <1>4, TeamWorks DEF SignalInv, CallInv
<1> QED
    BY <1>4, <1>7, <1>8, <1>9 DEF SignalInv, QuietInv

\* The parent goes on by itself.
LEMMA ParentSignals ==
    ASSUME Typed, InPlace, SignalInv, Return \/ Block \/ Forget \/ Unblock \/ SpinOut
    PROVE  SignalInv'
<1>1. ws' = ws /\ kind' = kind /\ pending' = pending /\ handling' = handling /\ coalesced' = coalesced
    BY DEF Return, Block, Forget, Unblock, SpinOut, sigVars
<1>2. Zombies' = Zombies /\ (NoChild' <=> NoChild) /\ (OneChild' <=> OneChild)
    BY <1>1 DEF Zombies, NoChild, OneChild
<1>3. ZombieInv' /\ CallInv' /\ QuietInv'
    BY <1>1, <1>2 DEF SignalInv, ZombieInv, CallInv, QuietInv, Bit
<1>4. MaskInv'
    <2> SUFFICES ASSUME kind = "mask" PROVE MaskInv'
        BY <1>1 DEF MaskInv
    <2>o. NoChild => ~OneChild
        BY DEF NoChild, OneChild
    <2>1. CASE Return
        BY <2>1 DEF Return, InPlace, Signals
    <2>2. CASE Block
        BY <2>2, <1>1, <1>2 DEF Block, Parent, SignalInv, MaskInv
    <2>3. CASE Forget
        BY <2>3, <1>1, <1>2 DEF Forget, Parent, SignalInv, MaskInv
    <2>4. CASE Unblock
        BY <2>4, <1>1, <1>2, <2>o DEF Unblock, Parent, SignalInv, MaskInv, sigVars
    <2>5. CASE SpinOut
        <3>1. main = "spin" /\ main' = "block" /\ pid # 0 /\ pid' = pid
            BY <2>5 DEF SpinOut, Parent, sigVars
        <3>2. NoChild /\ ~pending /\ ~handling /\ coalesced = 0
            BY <3>1 DEF SignalInv, MaskInv
        <3> QED
            BY <1>1, <1>2, <3>1, <3>2 DEF MaskInv
    <2> QED
        BY <2>1, <2>2, <2>3, <2>4, <2>5
<1> QED
    BY <1>3, <1>4 DEF SignalInv

\* Every step keeps account of the signals.
LEMMA SignalsKept == Typed /\ InPlace /\ SignalInv /\ [Next]_vars => SignalInv'
<1> SUFFICES ASSUME Typed, InPlace, SignalInv, [Next]_vars PROVE SignalInv'
    OBVIOUS
<1>1. CASE UNCHANGED vars
    BY <1>1, SignalsStay DEF vars
<1>2. CASE Producer
    <2>1. kind \notin Signals /\ kind' = kind /\ coalesced' = coalesced
        BY <1>2 DEF Producer, SemPost, Notify, Broadcast, Signals, sigVars
    <2> QED
        BY <2>1, NoSignals
<1>3. ASSUME NEW w \in Workers,
             \/ SemWait(w) \/ Lock(w) \/ CondWait(w) \/ Spurious(w) \/ Consume(w)
             \/ Load(w) \/ Store(w) \/ Show(w)
      PROVE SignalInv'
    <2>1. kind \notin Signals
        BY <1>3 DEF SemWait, Lock, CondWait, Spurious, Consume, Load, Store, Show, Goes,
                    Typed, InPlace, AllKinds, PlacesOf, Conds, Counters, Signals
    <2>2. kind' = kind /\ coalesced' = coalesced
        BY <1>3 DEF SemWait, Lock, CondWait, Spurious, Consume, Load, Store, Show, sigVars
    <2> QED
        BY <2>1, <2>2, NoSignals
<1>4. ASSUME NEW w \in Workers, ChildExits(w) PROVE SignalInv'
    BY <1>4, ExitSignals
<1>5. CASE Main
    BY <1>5, ForkSignals, ParentSignals DEF Main
<1>6. CASE Handler
    BY <1>6, DeliverSignals, ReapSignals DEF Handler
<1> QED
    BY <1>1, <1>2, <1>3, <1>4, <1>5, <1>6 DEF Next, Worker

-----------------------------------------------------------------------------
(* The theorems *)

\* The inductive invariant: where threads are, where items are, what the counter
\* holds and what became of the signals (04_Pthread, 03_Process/14-16).
THEOREM Invariance == Spec => []IInv
<1>1. Init => IInv
    BY InitTyped, InitItems, InitCount, InitSignals DEF IInv
<1>2. IInv /\ [Next]_vars => IInv'
    BY TypedKept, ItemsKept, CountKept, SignalsKept DEF IInv
<1> QED
    BY <1>1, <1>2, PTL DEF Spec

\* Every variable has the values the programs can give it; in particular no more
\* signals are merged than there are children, and no more items wait than were made.
THEOREM TypeCorrect == Spec => []TypeOK
<1>1. ASSUME IInv PROVE TypeOK
    <2> USE <1>1, WorkersCounted DEF IInv
    <2>1. Total \in Nat
        BY FS_CardinalityType DEF ItemsInv, Total
    <2>2. avail <= N
        BY <2>1 DEF ItemsInv, Typed
    <2>3. lost <= N
        BY DEF ItemsInv, Typed
    <2>4. coalesced <= N
        <3>1. CASE kind \in {"reap", "mask"}
            <4>1. Cardinality(Zombies) <= N /\ Cardinality(Zombies) \in Nat
                BY DEF Zombies
            <4>2. Bit(pending) \in Nat /\ Bit(handling) \in Nat
                BY DEF Bit
            <4> QED
                BY <3>1, <4>1, <4>2 DEF SignalInv, ZombieInv, Typed
        <3>2. CASE kind \notin {"reap", "mask"}
            BY <3>2 DEF SignalInv, CallInv, QuietInv, Signals
        <3> QED
            BY <3>1, <3>2
    <2> QED
        BY <2>2, <2>3, <2>4 DEF Typed, TypeOK, Mains, Places
<1> QED
    BY <1>1, Invariance, PTL

\* With a semaphore or a condition variable nothing is consumed that was not
\* produced, spurious wakeups apart (04_Pthread/06, 07, 12).
THEOREM NothingFromNothingInvariant == Spec => []NothingFromNothing
<1>1. IInv => NothingFromNothing
    BY DEF IInv, ItemsInv, NothingFromNothing, Woken
<1> QED
    BY <1>1, Invariance, PTL

\* No increment is lost, and a program that prints before it unlocks prints every
\* number once and in order (04_Pthread/05, 11).
THEOREM CountedUpInvariant == Spec => []CountedUp
<1>1. IInv => CountedUp
    BY DEF IInv, CountInv, CountedUp
<1> QED
    BY <1>1, Invariance, PTL

\* The zombies that stay are the signals that were merged, and blocking the signal
\* around fork prevents both (03_Process/14, 16).
THEOREM ZombiesInvariant == Spec => []ZombiesWereMerged
<1>1. IInv => ZombiesWereMerged
    BY DEF IInv, SignalInv, ZombieInv, MaskInv, ZombiesWereMerged
<1> QED
    BY <1>1, Invariance, PTL

-----------------------------------------------------------------------------
(***************************************************************************)
(* That the copies of FileCopies are faithful, whatever the size of the    *)
(* source, the length of the buffer and the order of the writes.           *)
(*                                                                         *)
(* What a thread is to have copied is read off its position: everything    *)
(* from the start of its half up to where its next read begins.  What was  *)
(* copied stays, because a write puts byte i at offset i or leaves offset  *)
(* i alone.  Of the processes it is enough to know where the file ends.    *)
(***************************************************************************)

StepsOf == {"open", "read", "write", "done", "failed"}

\* A file is a function, whatever it holds.
IsFile(f) == f = [i \in DOMAIN f |-> f[i]]

CopyTyped ==
    /\ program \in {"threads", "processes"}
    /\ size \in 0 .. MaxSize
    /\ stage \in [Halves -> StepsOf]
    /\ off \in [Halves -> Nat]
    /\ ret \in [Halves -> Nat]
    /\ IsFile(dest)

\* The first offset thread h has not copied yet.
Reached(h) ==
    CASE stage[h] = "read" -> off[h]
      [] stage[h] = "write" -> off[h] - ret[h]
      [] stage[h] = "done" -> Start(h) + Length(h)
      [] OTHER -> Start(h)

\* A read begins inside the half, and returns bytes of the source.
InHalf ==
    program = "threads" =>
        \A h \in Halves :
            /\ Reached(h) \in Start(h) .. Start(h) + Length(h)
            /\ stage[h] = "write" => off[h] <= size /\ off[h] - ret[h] >= 0

\* Everything up to there is in its place, and nothing lies beyond the source.
CopiedSoFar ==
    program = "threads" =>
        /\ DOMAIN dest \subseteq 0 .. size - 1
        /\ \A h \in Halves : \A i \in Start(h) .. Reached(h) - 1 : i \in DOMAIN dest /\ dest[i] = i

\* A file with the bytes that the processes leave at these offsets; and the same
\* before the parent has written its half.
IsLeft(f, offsets) == DOMAIN f = offsets /\ \A i \in offsets : f[i] = LeftAt(i)
ChildsOnly(f) ==
    /\ DOMAIN f = 0 .. 2 * Half + 1
    /\ \A i \in 0 .. 2 * Half + 1 : f[i] = IF i <= Half THEN Zero ELSE LeftAt(i)

\* What the parent has found and left: its own half or both, and no byte of before.
ParentsFile ==
    program = "processes" =>
        /\ stage[First] \in {"open", "write", "done"}
        /\ dest = NoFile \/ DOMAIN dest \subseteq Nat
        /\ dest = NoFile => stage[First] = "open" /\ stage[Second] \in {"open", "failed"}
        /\ stage[First] = "write" => DOMAIN dest = {} \/ ChildsOnly(dest)
        /\ stage[First] = "done" => IsLeft(dest, 0 .. Half) \/ IsLeft(dest, 0 .. 2 * Half + 1)

CopyIInv == CopyTyped /\ InHalf /\ CopiedSoFar /\ ParentsFile

-----------------------------------------------------------------------------
(* The operators *)

\* The halves of a size make up the whole, and differ by one at most.
LEMMA HalvesMakeWhole ==
    ASSUME size \in Nat
    PROVE  /\ Start(First) = 0 /\ Start(Second) = Half
           /\ Length(First) = Half /\ Length(Second) = size - Half
           /\ Half \in Nat /\ 2 * Half <= size /\ size <= 2 * Half + 1
           /\ \A h \in Halves : /\ Start(h) \in Nat /\ Length(h) \in Nat
                               /\ Start(h) + Length(h) <= size
<1>1. Half \in Nat /\ 2 * Half <= size /\ size <= 2 * Half + 1
    BY DEF Half
<1>2. /\ Start(First) = 0 /\ Start(Second) = Half
      /\ Length(First) = Half /\ Length(Second) = size - Half
    BY DEF Start, Length, First, Second, Half
<1> QED BY <1>1, <1>2 DEF Halves

\* The least of two numbers: what read returns of a buffer and the rest of a file.
LEMMA LesserOfTwo ==
    ASSUME NEW a \in Nat, NEW b \in Nat
    PROVE  Min({a, b}) \in Nat /\ Min({a, b}) <= a /\ Min({a, b}) <= b
<1>1. \E x \in {a, b} : \A y \in {a, b} : x <= y
    <2>1. CASE a <= b
        <3>1. \A y \in {a, b} : a <= y
            BY <2>1
        <3> QED BY <3>1
    <2>2. CASE b <= a
        <3>1. \A y \in {a, b} : b <= y
            BY <2>2
        <3> QED BY <3>1
    <2> QED BY <2>1, <2>2
<1>2. Min({a, b}) \in {a, b} /\ \A y \in {a, b} : Min({a, b}) <= y
    BY <1>1 DEF Min
<1> QED BY <1>2

\* A piece of the source is its bytes, one after the other.
LEMMA PieceOfSource ==
    ASSUME NEW at \in Nat, NEW n \in Nat
    PROVE  /\ Piece(at, n) \in Seq(Nat)
           /\ Len(Piece(at, n)) = n
           /\ \A i \in 1 .. n : Piece(at, n)[i] = at + i - 1
<1>1. \A i \in 1 .. n : at + i - 1 \in Nat
    OBVIOUS
<1>2. Piece(at, n) \in [1 .. n -> Nat]
    BY <1>1 DEF Piece
<1>3. Piece(at, n) \in Seq(Nat)
    BY <1>2
<1>4. Len(Piece(at, n)) = n
    BY <1>2, <1>3
<1> QED BY <1>3, <1>4 DEF Piece

\* A piece of the source written where it came from is in its place afterwards, and
\* so is all that was in its place before.
LEMMA PieceInPlace ==
    ASSUME NEW f, f # NoFile, DOMAIN f \subseteq Nat, NEW at \in Nat, NEW n \in Nat,
           NEW w, w = Written(f, at, Piece(at, n))
    PROVE  /\ DOMAIN w \subseteq DOMAIN f \union 0 .. at + n - 1
           /\ IsFile(w)
           /\ \A i \in at .. at + n - 1 : i \in DOMAIN w /\ w[i] = i
           /\ \A i \in DOMAIN f : f[i] = i => i \in DOMAIN w /\ w[i] = i
<1> DEFINE b == Piece(at, n)
<1>0. w = Written(f, at, b)
    OBVIOUS
<1>1. b \in Seq(Int) /\ Len(b) = n /\ \A i \in 1 .. n : b[i] = at + i - 1
    BY PieceOfSource
<1> HIDE DEF b
<1>2. /\ DOMAIN w = DOMAIN f \union (IF n = 0 THEN {} ELSE 0 .. at + n - 1)
      /\ IsFile(w)
      /\ \A i \in DOMAIN w :
             w[i] = IF i \in at .. at + n - 1 THEN b[i - at + 1]
                    ELSE IF i \in DOMAIN f THEN f[i] ELSE Zero
    BY <1>0, <1>1 DEF Written, IsFile
<1>3. ASSUME NEW i \in at .. at + n - 1 PROVE i \in DOMAIN w /\ w[i] = i
    <2>1. i - at + 1 \in 1 .. n /\ n # 0 /\ i \in 0 .. at + n - 1
        OBVIOUS
    <2>2. i \in DOMAIN w
        BY <2>1, <1>2
    <2>3. w[i] = b[i - at + 1]
        BY <2>2, <1>2
    <2> QED BY <2>1, <2>2, <2>3, <1>1
<1>4. ASSUME NEW i \in DOMAIN f, f[i] = i PROVE i \in DOMAIN w /\ w[i] = i
    <2>1. CASE i \in at .. at + n - 1
        BY <2>1, <1>3
    <2>2. CASE i \notin at .. at + n - 1
        BY <2>2, <1>2, <1>4
    <2> QED BY <2>1, <2>2
<1> QED BY <1>2, <1>3, <1>4

-----------------------------------------------------------------------------
(* Both programs start well *)

\* The inductive invariant holds at the start: nothing is copied yet.
LEMMA CopyInitially == CopyInit => CopyIInv
<1> SUFFICES ASSUME CopyInit PROVE CopyIInv
    OBVIOUS
<1>1. size \in Nat /\ size \in 0 .. MaxSize
    BY CopyAssumption DEF CopyInit
<1>2. CopyTyped
    <2>1. IsFile(dest)
        BY DEF CopyInit, FileOf, NoFile, IsFile
    <2> QED BY <2>1 DEF CopyInit, CopyTyped, StepsOf
<1>3. \A h \in Halves : stage[h] = "open" /\ Reached(h) = Start(h)
    BY DEF CopyInit, Reached
<1>4. InHalf
    BY <1>1, <1>3, HalvesMakeWhole DEF InHalf
<1>5. CopiedSoFar
    <2>1. \A h \in Halves : Start(h) .. Reached(h) - 1 = {}
        BY <1>1, <1>3, HalvesMakeWhole
    <2>2. program = "threads" => DOMAIN dest = {}
        BY DEF CopyInit, FileOf
    <2> QED BY <2>1, <2>2 DEF CopiedSoFar
<1>6. ParentsFile
    <2>1. dest = NoFile \/ DOMAIN dest \subseteq Nat
        BY CopyAssumption DEF CopyInit, FileOf
    <2>2. stage[First] = "open" /\ stage[Second] = "open"
        BY <1>3 DEF Halves
    <2> QED BY <2>1, <2>2 DEF ParentsFile
<1> QED BY <1>2, <1>4, <1>5, <1>6 DEF CopyIInv

-----------------------------------------------------------------------------
(* Threads *)

\* A step of one half leaves how far the other one has got.
LEMMA OthersStay ==
    ASSUME CopyTyped, NEW h \in Halves,
           \A g \in Halves \ {h} : stage'[g] = stage[g] /\ off'[g] = off[g] /\ ret'[g] = ret[g],
           size' = size
    PROVE  \A g \in Halves \ {h} : Reached(g)' = Reached(g)
    BY DEF Reached, Start, Length

\* A file that is opened is read from the start of the half.
LEMMA OpenKept ==
    ASSUME CopyIInv, NEW h \in Halves, OpenAndSeek(h)
    PROVE  CopyIInv'
<1> USE DEF CopyIInv
<1>1. size \in Nat /\ size' = size /\ program' = program /\ dest' = dest /\ ret' = ret /\ program = "threads"
    BY CopyAssumption DEF CopyTyped, OpenAndSeek
<1>2. Start(h) \in Nat /\ Start(h) + Length(h) <= size /\ Length(h) \in Nat
    BY <1>1, HalvesMakeWhole
<1>3. /\ stage[h] = "open" /\ stage' \in [Halves -> StepsOf] /\ off' \in [Halves -> Nat]
      /\ \/ stage'[h] = "read" /\ off'[h] = Start(h)
         \/ stage'[h] = "failed"
      /\ \A g \in Halves \ {h} : stage'[g] = stage[g] /\ off'[g] = off[g]
    BY <1>2 DEF OpenAndSeek, Moves, CopyTyped, StepsOf
<1>4. CopyTyped'
    BY <1>1, <1>3 DEF CopyTyped
<1>5. Reached(h) = Start(h) /\ Reached(h)' = Start(h)
    BY <1>1, <1>3 DEF Reached, Start
<1>6. \A g \in Halves : Reached(g)' = Reached(g)
    BY <1>1, <1>3, <1>5, OthersStay
<1>7. \A g \in Halves : Start(g)' = Start(g) /\ Length(g)' = Length(g)
    BY <1>1 DEF Start, Length
<1>8. InHalf'
    BY <1>1, <1>3, <1>6, <1>7 DEF InHalf
<1>9. CopiedSoFar'
    BY <1>1, <1>6, <1>7 DEF CopiedSoFar
<1>10. ParentsFile'
    BY <1>1 DEF ParentsFile
<1> QED BY <1>4, <1>8, <1>9, <1>10

\* A read moves the position and copies nothing.
LEMMA ReadKept ==
    ASSUME CopyIInv, NEW h \in Halves, program = "threads", Read(h)
    PROVE  CopyIInv'
<1> USE DEF CopyIInv
<1>1. size \in Nat /\ size' = size /\ program' = program /\ dest' = dest
    BY CopyAssumption DEF CopyTyped, Read
<1>2. /\ stage[h] = "read" /\ stage'[h] = "write"
      /\ stage' \in [Halves -> StepsOf]
      /\ \A g \in Halves \ {h} : stage'[g] = stage[g]
    BY DEF Read, Moves, CopyTyped, StepsOf
<1>3. Reached(h) = off[h]
    BY <1>2 DEF Reached
<1>4. off[h] \in Nat /\ off[h] <= size
    <2>1. Reached(h) \in Start(h) .. Start(h) + Length(h)
        BY DEF InHalf
    <2> QED BY <1>1, <1>3, <2>1, HalvesMakeWhole DEF CopyTyped
<1>5. PICK n : n = Min({Buf, size - off[h]})
    OBVIOUS
<1>6. n \in Nat /\ n <= size - off[h]
    BY <1>1, <1>4, <1>5, LesserOfTwo, CopyAssumption
<1>7. /\ ret' = [ret EXCEPT ![h] = n]
      /\ off' = [off EXCEPT ![h] = @ + n]
    BY <1>5 DEF Read, CopyTyped
<1>8. /\ ret' \in [Halves -> Nat] /\ off' \in [Halves -> Nat]
      /\ ret'[h] = n /\ off'[h] = off[h] + n
      /\ \A g \in Halves \ {h} : off'[g] = off[g] /\ ret'[g] = ret[g]
    BY <1>6, <1>7 DEF CopyTyped
<1>9. CopyTyped'
    BY <1>1, <1>2, <1>8 DEF CopyTyped
<1>10. Reached(h)' = off'[h] - ret'[h]
    BY <1>2 DEF Reached
<1>11. Reached(h)' = off[h]
    BY <1>4, <1>6, <1>8, <1>10
<1>12. \A g \in Halves : Reached(g)' = Reached(g)
    BY <1>1, <1>2, <1>3, <1>8, <1>11, OthersStay
<1>13. \A g \in Halves : Start(g)' = Start(g) /\ Length(g)' = Length(g)
    BY <1>1 DEF Start, Length
<1>14. InHalf'
    <2>1. off'[h] <= size /\ off'[h] - ret'[h] >= 0
        BY <1>1, <1>4, <1>6, <1>8
    <2>2. ASSUME NEW g \in Halves PROVE (stage[g] = "write" => off[g] <= size /\ off[g] - ret[g] >= 0)'
        BY <1>1, <1>2, <1>8, <2>1 DEF InHalf
    <2> QED BY <1>1, <1>12, <1>13, <2>2 DEF InHalf
<1>15. CopiedSoFar'
    BY <1>1, <1>12, <1>13 DEF CopiedSoFar
<1>16. ParentsFile'
    BY <1>1 DEF ParentsFile
<1> QED BY <1>9, <1>14, <1>15, <1>16

\* A write puts the piece in its place, cut where the half ends, and leaves what the
\* other half has put in place.
LEMMA WriteKept ==
    ASSUME CopyIInv, NEW h \in Halves, program = "threads", Write(h)
    PROVE  CopyIInv'
<1> USE DEF CopyIInv
<1>1. size \in Nat /\ size' = size /\ program' = program /\ off' = off /\ ret' = ret
    BY CopyAssumption DEF CopyTyped, Write
<1>2. /\ stage[h] = "write" /\ stage' = [stage EXCEPT ![h] = IF AtEnd(h) THEN "done" ELSE "read"]
      /\ stage' \in [Halves -> StepsOf]
      /\ \A g \in Halves \ {h} : stage'[g] = stage[g]
    BY DEF Write, Moves, CopyTyped, StepsOf
<1>3. /\ off[h] \in Nat /\ ret[h] \in Nat /\ off[h] <= size /\ off[h] - ret[h] >= 0
      /\ off[h] - ret[h] \in Start(h) .. Start(h) + Length(h)
    BY <1>2 DEF InHalf, Reached, CopyTyped
<1>4. /\ Start(h) \in Nat /\ Length(h) \in Nat /\ Start(h) + Length(h) <= size
    BY <1>1, HalvesMakeWhole
<1>5. PICK at, n :
         /\ at = off[h] - ret[h]
         /\ n = ret[h] - (IF AtEnd(h) THEN Count(h) - Length(h) ELSE 0)
    OBVIOUS
<1>6. dest' = Written(dest, at, Piece(at, n))
    BY <1>5 DEF Write
<1>7. /\ at \in Nat /\ n \in Nat /\ at \in Start(h) .. Start(h) + Length(h)
      /\ at + n <= Start(h) + Length(h)
      /\ Reached(h)' = at + n
    <2>1. CASE AtEnd(h)
        <3>1. off[h] - Start(h) >= Length(h) /\ n = ret[h] - (off[h] - Start(h) - Length(h))
            BY <2>1, <1>5 DEF AtEnd, Count
        <3>2. stage'[h] = "done"
            BY <1>2, <2>1 DEF CopyTyped
        <3>3. Reached(h)' = Start(h) + Length(h)
            BY <3>2, <1>1 DEF Reached, Start, Length
        <3> QED BY <1>3, <1>4, <1>5, <3>1, <3>3
    <2>2. CASE ~AtEnd(h)
        <3>1. ~(off[h] - Start(h) >= Length(h)) /\ n = ret[h]
            BY <2>2, <1>3, <1>5 DEF AtEnd, Count
        <3>2. stage'[h] = "read"
            BY <1>2, <2>2 DEF CopyTyped
        <3>3. Reached(h)' = off[h]
            BY <3>2, <1>1 DEF Reached
        <3> QED BY <1>3, <1>4, <1>5, <3>1, <3>3
    <2> QED BY <2>1, <2>2
<1>8. DOMAIN dest \subseteq 0 .. size - 1 /\ DOMAIN dest \subseteq Nat /\ dest # NoFile
    <2>1. DOMAIN dest \subseteq 0 .. size - 1
        BY DEF CopiedSoFar
    <2>2. 0 .. size - 1 \subseteq Nat /\ -1 \notin 0 .. size - 1
        BY <1>1
    <2>3. DOMAIN NoFile = {-1}
        BY DEF NoFile
    <2> QED BY <2>1, <2>2, <2>3
<1>9. /\ DOMAIN dest' \subseteq DOMAIN dest \union 0 .. at + n - 1
      /\ IsFile(dest')
      /\ \A i \in at .. at + n - 1 : i \in DOMAIN dest' /\ dest'[i] = i
      /\ \A i \in DOMAIN dest : dest[i] = i => i \in DOMAIN dest' /\ dest'[i] = i
    BY <1>6, <1>7, <1>8, PieceInPlace
<1>10. \A g \in Halves \ {h} : Reached(g)' = Reached(g)
    BY <1>1, <1>2, OthersStay
<1>11. \A g \in Halves : Start(g)' = Start(g) /\ Length(g)' = Length(g)
    BY <1>1 DEF Start, Length
<1>12. CopyTyped'
    BY <1>1, <1>2, <1>9 DEF CopyTyped
<1>13. InHalf'
    <2>1. stage'[h] # "write"
        BY <1>2 DEF CopyTyped
    <2>2. Reached(h)' \in Start(h) .. Start(h) + Length(h)
        BY <1>4, <1>7
    <2>3. ASSUME NEW g \in Halves PROVE (stage[g] = "write" => off[g] <= size /\ off[g] - ret[g] >= 0)'
        BY <1>1, <1>2, <2>1 DEF InHalf
    <2>4. \A g \in Halves : (Reached(g) \in Start(g) .. Start(g) + Length(g))'
        BY <1>10, <1>11, <2>2 DEF InHalf
    <2> QED BY <1>1, <2>3, <2>4 DEF InHalf
<1>14. CopiedSoFar'
    <2>1. DOMAIN dest' \subseteq 0 .. size - 1
        <3>1. 0 .. at + n - 1 \subseteq 0 .. size - 1
            BY <1>1, <1>4, <1>7
        <3> QED BY <1>8, <1>9, <3>1
    <2>2. ASSUME NEW g \in Halves, NEW i \in Start(g) .. Reached(g)' - 1
          PROVE  i \in DOMAIN dest' /\ dest'[i] = i
        <3>1. CASE i \in Start(g) .. Reached(g) - 1
            <4>1. i \in DOMAIN dest /\ dest[i] = i
                BY <3>1 DEF CopiedSoFar
            <4> QED BY <4>1, <1>9
        <3>2. CASE i \notin Start(g) .. Reached(g) - 1
            <4>1. g = h
                BY <3>2, <1>10
            <4>2. Reached(h) = at
                BY <1>2, <1>5 DEF Reached
            <4>3. i \in at .. at + n - 1
                BY <4>1, <4>2, <3>2, <1>4, <1>7
            <4> QED BY <4>3, <1>9
        <3> QED BY <3>1, <3>2
    <2> QED BY <1>1, <1>11, <2>1, <2>2 DEF CopiedSoFar
<1>15. ParentsFile'
    BY <1>1 DEF ParentsFile
<1> QED BY <1>12, <1>13, <1>14, <1>15

-----------------------------------------------------------------------------
(* Processes *)

\* A buffer of a process: its half and the zero behind it.
Buffer(from, n) == Append(Piece(from, n), Zero)

\* A process writes its half and a zero, and leaves the rest; a gap is filled with zeros.
IsWritten(w, f, at, from, n) ==
    /\ DOMAIN w = DOMAIN f \union 0 .. at + n
    /\ \A i \in DOMAIN w :
           w[i] = IF i \in at .. at + n - 1 THEN from + (i - at)
                  ELSE IF i = at + n THEN Zero
                  ELSE IF i \in DOMAIN f THEN f[i] ELSE Zero

LEMMA HalfWritten ==
    ASSUME NEW f, f # NoFile, DOMAIN f \subseteq Nat,
           NEW at \in Nat, NEW from \in Nat, NEW n \in Nat,
           NEW w, w = Written(f, at, Buffer(from, n))
    PROVE  IsWritten(w, f, at, from, n) /\ IsFile(w)
<1> DEFINE b == Append(Piece(from, n), Zero)
<1>0. w = Written(f, at, b)
    BY DEF Buffer
<1>1. b \in Seq(Int) /\ Len(b) = n + 1
    BY PieceOfSource DEF Zero
<1>2. (\A i \in 1 .. n : b[i] = from + i - 1) /\ b[n + 1] = Zero
    <2>1. PICK p \in Seq(Nat) : p = Piece(from, n) /\ Len(p) = n /\ \A i \in 1 .. n : p[i] = from + i - 1
        BY PieceOfSource
    <2>2. b = Append(p, Zero) /\ p \in Seq(Int) /\ Zero \in Int
        BY <2>1 DEF Zero
    <2>3. (\A i \in 1 .. n : b[i] = p[i]) /\ b[n + 1] = Zero
        BY <2>1, <2>2
    <2> QED BY <2>1, <2>3
<1> HIDE DEF b
<1>4. /\ DOMAIN w = DOMAIN f \union 0 .. at + (n + 1) - 1
      /\ IsFile(w)
      /\ \A i \in DOMAIN w :
             w[i] = IF i \in at .. at + (n + 1) - 1 THEN b[i - at + 1]
                    ELSE IF i \in DOMAIN f THEN f[i] ELSE Zero
    <2>1. n + 1 # 0
        OBVIOUS
    <2> QED BY <2>1, <1>0, <1>1 DEF Written, IsFile
<1>5. at + (n + 1) - 1 = at + n
    OBVIOUS
<1>6. ASSUME NEW i \in at .. at + n - 1 PROVE b[i - at + 1] = from + (i - at)
    <2>1. i - at + 1 \in 1 .. n /\ from + (i - at + 1) - 1 = from + (i - at)
        OBVIOUS
    <2> QED BY <2>1, <1>2
<1>7. ASSUME NEW i \in DOMAIN w
      PROVE  w[i] = IF i \in at .. at + n - 1 THEN from + (i - at)
                    ELSE IF i = at + n THEN Zero
                    ELSE IF i \in DOMAIN f THEN f[i] ELSE Zero
    <2>1. i \in Nat
        BY <1>4, <1>5
    <2>2. CASE i \in at .. at + n - 1
        <3>1. i \in at .. at + n /\ b[i - at + 1] = from + (i - at)
            BY <2>2, <1>6
        <3>2. w[i] = b[i - at + 1]
            BY <3>1, <1>4, <1>5
        <3> QED BY <2>2, <3>1, <3>2
    <2>3. CASE i = at + n
        <3>1. i - at + 1 = n + 1 /\ i \in at .. at + n /\ i \notin at .. at + n - 1
            BY <2>3
        <3> QED BY <2>3, <3>1, <1>2, <1>4, <1>5
    <2>4. CASE i \notin at .. at + n - 1 /\ i # at + n
        <3>1. i \notin at .. at + n
            BY <2>1, <2>4
        <3> QED BY <2>4, <3>1, <1>4, <1>5
    <2> QED BY <2>2, <2>3, <2>4
<1> QED BY <1>4, <1>5, <1>7 DEF IsWritten

\* Once the parent has opened it the destination is a file from 0 on, and a write of
\* either process leaves it one.
LEMMA ParentOpens ==
    ASSUME CopyIInv, OpenEmptying
    PROVE  CopyIInv'
<1> USE DEF CopyIInv
<1>1. size' = size /\ program' = program /\ off' = off /\ ret' = ret /\ program = "processes"
    BY DEF OpenEmptying
<1>2. /\ stage[First] = "open" /\ stage' \in [Halves -> StepsOf]
      /\ stage'[First] = "write" /\ stage'[Second] = stage[Second]
    BY DEF OpenEmptying, Moves, CopyTyped, StepsOf, Halves, First, Second
<1>3. DOMAIN dest' = {} /\ IsFile(dest') /\ dest' # NoFile
    BY DEF OpenEmptying, FileOf, NoFile, IsFile
<1>4. CopyTyped'
    BY <1>1, <1>2, <1>3 DEF CopyTyped
<1>5. InHalf' /\ CopiedSoFar'
    BY <1>1 DEF InHalf, CopiedSoFar
<1>6. ParentsFile'
    BY <1>1, <1>2, <1>3 DEF ParentsFile
<1> QED BY <1>4, <1>5, <1>6

\* The child opens what is there.
LEMMA ChildOpens ==
    ASSUME CopyIInv, OpenExisting
    PROVE  CopyIInv'
<1> USE DEF CopyIInv
<1>1. /\ size' = size /\ program' = program /\ off' = off /\ ret' = ret /\ program = "processes"
      /\ dest' = dest
    BY DEF OpenExisting
<1>2. /\ stage[Second] = "open" /\ stage' \in [Halves -> StepsOf]
      /\ stage'[First] = stage[First]
      /\ stage'[Second] = IF dest = NoFile THEN "failed" ELSE "write"
    BY DEF OpenExisting, Moves, CopyTyped, StepsOf, Halves, First, Second
<1>3. CopyTyped'
    BY <1>1, <1>2 DEF CopyTyped
<1>4. InHalf' /\ CopiedSoFar'
    BY <1>1 DEF InHalf, CopiedSoFar
<1>5. ParentsFile'
    BY <1>1, <1>2 DEF ParentsFile, IsLeft, ChildsOnly, LeftAt, Half
<1> QED BY <1>3, <1>4, <1>5

\* The parent writes the first half and a zero, before the second half or over the zeros
\* that stand before it.
LEMMA ParentKept ==
    ASSUME CopyIInv, ParentWrites
    PROVE  CopyIInv'
<1> USE DEF CopyIInv
<1>1. /\ size' = size /\ program' = program /\ off' = off /\ ret' = ret /\ program = "processes"
      /\ Half \in Nat
    BY CopyAssumption, HalvesMakeWhole DEF ParentWrites, CopyTyped
<1>2. /\ stage[First] = "write" /\ stage' \in [Halves -> StepsOf]
      /\ stage'[First] = "done" /\ stage'[Second] = stage[Second]
    BY DEF ParentWrites, Moves, CopyTyped, StepsOf, Halves, First, Second
<1>3. /\ dest # NoFile /\ DOMAIN dest \subseteq Nat
      /\ DOMAIN dest = {} \/ ChildsOnly(dest)
    BY <1>1, <1>2 DEF ParentsFile
<1>4. IsWritten(dest', dest, 0, 0, Half) /\ IsFile(dest')
    <2>1. PICK at, n : at \in Nat /\ n \in Nat /\ at = 0 /\ n = Half
        BY <1>1
    <2>2. dest' = Written(dest, at, Buffer(at, n))
        BY <2>1 DEF ParentWrites, Buffer
    <2> QED BY <1>3, <2>1, <2>2, HalfWritten
<1>5. IsLeft(dest', 0 .. Half) \/ IsLeft(dest', 0 .. 2 * Half + 1)
    <2>1. 0 .. 0 + Half = 0 .. Half /\ 0 .. Half \subseteq 0 .. 2 * Half + 1
        BY <1>1
    <2>2. CASE DOMAIN dest = {}
        <3>1. DOMAIN dest' = 0 .. Half
            BY <2>1, <2>2, <1>4 DEF IsWritten
        <3>2. ASSUME NEW i \in 0 .. Half PROVE dest'[i] = LeftAt(i)
            BY <3>1, <1>1, <1>4 DEF IsWritten, LeftAt
        <3> QED BY <3>1, <3>2 DEF IsLeft
    <2>3. CASE ChildsOnly(dest)
        <3>1. DOMAIN dest' = 0 .. 2 * Half + 1
            BY <2>1, <2>3, <1>4 DEF IsWritten, ChildsOnly
        <3>2. ASSUME NEW i \in 0 .. 2 * Half + 1 PROVE dest'[i] = LeftAt(i)
            <4>1. dest[i] = IF i <= Half THEN Zero ELSE LeftAt(i)
                BY <2>3 DEF ChildsOnly
            <4>2. dest'[i] = IF i \in 0 .. 0 + Half - 1 THEN 0 + (i - 0)
                             ELSE IF i = 0 + Half THEN Zero ELSE dest[i]
                BY <2>3, <3>1, <1>4 DEF IsWritten, ChildsOnly
            <4>3. CASE i < Half
                BY <4>2, <4>3, <1>1 DEF LeftAt
            <4>4. CASE i = Half
                BY <4>2, <4>4, <1>1 DEF LeftAt
            <4>5. CASE i > Half
                BY <4>1, <4>2, <4>5, <1>1
            <4> QED BY <4>3, <4>4, <4>5, <1>1
        <3> QED BY <3>1, <3>2 DEF IsLeft
    <2> QED BY <2>2, <2>3, <1>3
<1>6. DOMAIN dest' \subseteq Nat /\ dest' # NoFile
    <2>1. DOMAIN dest' \subseteq Nat /\ 0 \in DOMAIN dest'
        BY <1>1, <1>5 DEF IsLeft
    <2> QED BY <2>1 DEF NoFile
<1>7. CopyTyped'
    BY <1>1, <1>2, <1>4 DEF CopyTyped
<1>8. InHalf' /\ CopiedSoFar'
    BY <1>1 DEF InHalf, CopiedSoFar
<1>9. Half' = Half /\ (\A i : LeftAt(i)' = LeftAt(i))
    BY <1>1 DEF Half, LeftAt
<1>10. ParentsFile'
    <2>1. (IsLeft(dest, 0 .. Half) \/ IsLeft(dest, 0 .. 2 * Half + 1))'
        BY <1>5, <1>9 DEF IsLeft
    <2> QED BY <1>1, <1>2, <1>6, <1>9, <2>1 DEF ParentsFile
<1> QED BY <1>7, <1>8, <1>10

\* The child writes behind the first half, and fills it with zeros if it comes first.
LEMMA ChildKept ==
    ASSUME CopyIInv, ChildWrites
    PROVE  CopyIInv'
<1> USE DEF CopyIInv
<1>1. /\ size' = size /\ program' = program /\ off' = off /\ ret' = ret /\ program = "processes"
      /\ Half \in Nat /\ Half + 1 \in Nat
    BY CopyAssumption, HalvesMakeWhole DEF ChildWrites, CopyTyped
<1>2. /\ stage[Second] = "write" /\ stage' \in [Halves -> StepsOf]
      /\ stage'[Second] = "done" /\ stage'[First] = stage[First]
    BY DEF ChildWrites, Moves, CopyTyped, StepsOf, Halves, First, Second
<1>3. dest # NoFile /\ DOMAIN dest \subseteq Nat
    BY <1>1, <1>2 DEF ParentsFile
<1>4. IsWritten(dest', dest, Half + 1, Half, Half) /\ IsFile(dest')
    <2>1. PICK at, n : at \in Nat /\ n \in Nat /\ at = Half + 1 /\ n = Half
        BY <1>1
    <2>2. dest' = Written(dest, at, Buffer(n, n))
        BY <2>1 DEF ChildWrites, Buffer
    <2> QED BY <1>3, <2>1, <2>2, HalfWritten
<1>5. /\ 0 .. Half + 1 + Half = 0 .. 2 * Half + 1 /\ 0 .. Half \subseteq 0 .. 2 * Half + 1
      /\ 0 .. 2 * Half + 1 \subseteq Nat
    BY <1>1
<1>6. DOMAIN dest' \subseteq Nat /\ dest' # NoFile
    <2>1. DOMAIN dest' \subseteq Nat
        BY <1>3, <1>4, <1>5 DEF IsWritten
    <2>2. -1 \notin DOMAIN dest'
        BY <2>1
    <2> QED BY <2>1, <2>2 DEF NoFile
\* Its own bytes stand where they are left, whatever was there.
<1>7. ASSUME NEW i \in Half + 1 .. 2 * Half + 1 PROVE i \in DOMAIN dest' /\ dest'[i] = LeftAt(i)
    <2>1. i \in 0 .. Half + 1 + Half /\ i \in DOMAIN dest'
        BY <1>1, <1>4 DEF IsWritten
    <2>2. dest'[i] = IF i \in Half + 1 .. Half + 1 + Half - 1 THEN Half + (i - (Half + 1))
                     ELSE IF i = Half + 1 + Half THEN Zero ELSE IF i \in DOMAIN dest THEN dest[i] ELSE Zero
        BY <2>1, <1>4 DEF IsWritten
    <2> QED BY <2>1, <2>2, <1>1 DEF LeftAt
<1>8. ASSUME NEW i \in 0 .. Half
      PROVE  i \in DOMAIN dest' /\ dest'[i] = IF i \in DOMAIN dest THEN dest[i] ELSE Zero
    <2>1. i \in 0 .. Half + 1 + Half /\ i \in DOMAIN dest' /\ i # Half + 1 + Half
          /\ i \notin Half + 1 .. Half + 1 + Half - 1
        BY <1>1, <1>4 DEF IsWritten
    <2> QED BY <2>1, <1>4 DEF IsWritten
<1>9. Half' = Half /\ (\A i : LeftAt(i)' = LeftAt(i))
    BY <1>1 DEF Half, LeftAt
<1>10. ASSUME stage[First] = "write" PROVE ChildsOnly(dest)'
    <2>1. DOMAIN dest = {} \/ ChildsOnly(dest)
        BY <1>1, <1>10 DEF ParentsFile
    <2>2. DOMAIN dest' = 0 .. 2 * Half + 1
        BY <2>1, <1>4, <1>5 DEF IsWritten, ChildsOnly
    <2>3. ASSUME NEW i \in 0 .. Half PROVE dest'[i] = Zero
        BY <2>1, <1>1, <1>8 DEF ChildsOnly
    <2>4. ASSUME NEW i \in 0 .. 2 * Half + 1 PROVE dest'[i] = IF i <= Half THEN Zero ELSE LeftAt(i)
        BY <2>3, <1>1, <1>7
    <2> QED BY <2>2, <2>4, <1>9 DEF ChildsOnly
<1>11. ASSUME stage[First] = "done" PROVE IsLeft(dest, 0 .. 2 * Half + 1)'
    <2>1. IsLeft(dest, 0 .. Half) \/ IsLeft(dest, 0 .. 2 * Half + 1)
        BY <1>1, <1>11 DEF ParentsFile
    <2>2. DOMAIN dest' = 0 .. 2 * Half + 1
        BY <2>1, <1>4, <1>5 DEF IsWritten, IsLeft
    <2>3. ASSUME NEW i \in 0 .. Half PROVE dest'[i] = LeftAt(i)
        BY <2>1, <1>5, <1>8 DEF IsLeft
    <2>4. ASSUME NEW i \in 0 .. 2 * Half + 1 PROVE dest'[i] = LeftAt(i)
        BY <2>3, <1>1, <1>7
    <2> QED BY <2>2, <2>4, <1>9 DEF IsLeft
<1>12. CopyTyped'
    BY <1>1, <1>2, <1>4 DEF CopyTyped
<1>13. InHalf' /\ CopiedSoFar'
    BY <1>1 DEF InHalf, CopiedSoFar
<1>14. ParentsFile'
    BY <1>1, <1>2, <1>6, <1>10, <1>11 DEF ParentsFile
<1> QED BY <1>12, <1>13, <1>14

-----------------------------------------------------------------------------
(* The theorems *)

\* Every step of either program keeps the inductive invariant.
LEMMA Kept == CopyIInv /\ [CopyNext]_copyVars => CopyIInv'
<1> SUFFICES ASSUME CopyIInv, [CopyNext]_copyVars PROVE CopyIInv'
    OBVIOUS
<1>1. ASSUME NEW h \in Halves, OpenAndSeek(h) PROVE CopyIInv'
    BY <1>1, OpenKept
<1>2. ASSUME NEW h \in Halves, program = "threads", Read(h) PROVE CopyIInv'
    BY <1>2, ReadKept
<1>3. ASSUME NEW h \in Halves, program = "threads", Write(h) PROVE CopyIInv'
    BY <1>3, WriteKept
<1>4. ASSUME UNCHANGED copyVars PROVE CopyIInv'
    BY <1>4 DEF CopyIInv, copyVars, CopyTyped, InHalf, CopiedSoFar, ParentsFile, Reached, Start, Length,
                IsLeft, ChildsOnly, LeftAt, Half
<1> QED BY <1>1, <1>2, <1>3, <1>4, ParentOpens, ChildOpens, ParentKept, ChildKept DEF CopyNext

\* Where the threads have got to, and what the processes have left, holds always.
THEOREM ProgressInvariant == CopySpec => []CopyIInv
    BY CopyInitially, Kept, PTL DEF CopySpec

\* What the threads have reached is what they were to copy, once they are done.
LEMMA ThreadsFaithful == CopyIInv => ThreadsCopy
<1> SUFFICES ASSUME CopyIInv, program = "threads" PROVE ThreadsCopy
    BY DEF ThreadsCopy
<1> USE DEF CopyIInv
<1>1. size \in Nat
    BY CopyAssumption DEF CopyTyped
<1>2. ASSUME NEW h \in Halves, stage[h] = "done" PROVE Copied(h)
    <2>1. Reached(h) = Start(h) + Length(h)
        BY <1>2 DEF Reached
    <2>2. \A i \in Start(h) .. Reached(h) - 1 : i \in DOMAIN dest /\ dest[i] = i
        BY DEF CopiedSoFar
    <2>3. Start(h) \in Nat /\ Length(h) \in Nat
        BY <1>1, HalvesMakeWhole
    <2>4. \A i \in Start(h) .. Start(h) + Length(h) - 1 : i \in Start(h) .. Reached(h) - 1
        BY <2>1, <2>3
    <2> QED BY <2>2, <2>4 DEF Copied
<1>3. DOMAIN dest \subseteq 0 .. size - 1
    BY DEF CopiedSoFar
<1>4. LenOf(dest) <= size
    <2>1. IsFiniteSet(0 .. size - 1) /\ Cardinality(0 .. size - 1) = size
        BY <1>1, FS_Interval
    <2>2. Cardinality(DOMAIN dest) <= Cardinality(0 .. size - 1)
        BY <2>1, <1>3, FS_Subset
    <2> QED BY <2>1, <2>2 DEF LenOf
<1>5. ASSUME Ended, "failed" \notin Range(stage) PROVE dest = [i \in 0 .. size - 1 |-> i]
    <2>1. \A h \in Halves : stage[h] = "done"
        BY <1>5 DEF Ended, Range, CopyTyped
    <2>2. Copied(First) /\ Copied(Second)
        BY <2>1, <1>2 DEF Halves
    <2>3. ASSUME NEW i \in 0 .. size - 1 PROVE i \in DOMAIN dest /\ dest[i] = i
        <3>1. /\ Start(First) = 0 /\ Length(First) = Half /\ Start(Second) = Half
              /\ Length(Second) = size - Half /\ Half \in Nat
            BY <1>1, HalvesMakeWhole
        <3>2. i \in Start(First) .. Start(First) + Length(First) - 1
              \/ i \in Start(Second) .. Start(Second) + Length(Second) - 1
            BY <1>1, <3>1
        <3> QED BY <2>2, <3>2 DEF Copied
    <2>4. DOMAIN dest = 0 .. size - 1
        BY <1>3, <2>3
    <2> QED BY <2>3, <2>4 DEF CopyTyped, IsFile
<1> QED BY <1>2, <1>4, <1>5 DEF ThreadsCopy

\* What the parent has left is the first half, behind which all or nothing stands.
LEMMA ProcessesFaithful == CopyIInv => ProcessesCopy
<1> SUFFICES ASSUME CopyIInv, program = "processes", Ended PROVE ProcessesCopy
    BY DEF ProcessesCopy
<1>1. stage[First] = "done"
    BY DEF CopyIInv, ParentsFile, Ended, Halves
<1>2. IsLeft(dest, 0 .. Half) \/ IsLeft(dest, 0 .. 2 * Half + 1)
    BY <1>1 DEF CopyIInv, ParentsFile
<1>3. dest = [i \in DOMAIN dest |-> dest[i]]
    BY DEF CopyIInv, CopyTyped, IsFile
<1> QED BY <1>2, <1>3 DEF ProcessesCopy, IsLeft

\* Whatever the size of the file, the length of the buffer and the turns the two take:
\* the threads copy their halves and not a byte more; the processes leave the first half
\* and a zero, and behind them nothing, or as many bytes of the second half, each one
\* too late, and a zero.  Nothing is left of an older destination.
THEOREM FaithfulInvariant == CopySpec => []CopyIsFaithful
<1>1. CopyIInv => CopyIsFaithful
    BY ThreadsFaithful, ProcessesFaithful DEF CopyIsFaithful
<1> QED BY <1>1, ProgressInvariant, PTL

-----------------------------------------------------------------------------
(***************************************************************************)
(* The output of the ring is in turn, for every number of members and of   *)
(* kills, whether or not somebody starts before the semaphores are ready.  *)
(* There is at most one token: a count of the semaphore of the member      *)
(* after the last printer, that member about to print, or the last printer *)
(* about to release it.  To fill in a semaphore that is in use already can *)
(* only lose it, like a kill.                                              *)
(***************************************************************************)

USE SemRingAssumption DEF SemRingAssumption

\* The member whose turn it is.
Turn == Succ(last)

\* Until the first process has created the set, nothing has happened; from
\* then on everybody who runs uses that set.
SetInv ==
    /\ ~alive => \A i \in Members : pc[i] = "start" /\ ini[i] = NumMembers
    /\ ~alive => last = NumMembers - 1
    /\ alive => \A i \in Members : pc[i] # "start" => semid[i] = gen

\* One process at most fills the set in, and until it has set the first token
\* the others wait for it.
FillInv ==
    \A i \in Members : ini[i] < NumMembers =>
        /\ pc[i] = "init"
        /\ \A j \in Members : ini[j] < NumMembers => j = i
        /\ ini[i] = 0 =>
              /\ last = NumMembers - 1
              /\ \A s \in Members : val[s] = 0
              /\ \A j \in Members : pc[j] \in {"start", "init", "wait"}

\* Where the token can be.
TokenInv ==
    /\ \A s \in Members : s # Turn => val[s] = 0
    /\ \A i \in Members : pc[i] = "print" => i = Turn /\ val[Turn] = 0 /\ pc[last] # "release"
    /\ \A i \in Members : pc[i] = "release" => i = last /\ val[Turn] = 0

RingIInv == RingTypeOK /\ SetInv /\ FillInv /\ TokenInv

\* The set has one semaphore for each member.
LEMMA SemsAreMembers == Set!Sems = Members
BY DEF Set!Sems, Members

\* The next member is a member, and the first one comes after the last.
LEMMA SuccMember ==
    /\ \A i \in Members : Succ(i) \in Members
    /\ Succ(NumMembers - 1) = 0
BY DEF Succ, Members

\* Nothing is held or counted before the start.
LEMMA RingInitially == RingInit => RingIInv
<1> SUFFICES ASSUME RingInit PROVE RingIInv
    OBVIOUS
<1>1. val = [s \in Members |-> 0]
    BY SemsAreMembers DEF RingInit, Set!SemInit
<1>2. RingTypeOK
    <2>1. val \in [Members -> 0 .. 1]
        BY <1>1
    <2>2. semid \in [Members -> Nat] /\ ini \in [Members -> 0 .. NumMembers]
        BY DEF RingInit, Set!SemInit
    <2>3. pc \in [Members -> {"start", "init", "wait", "print", "release"}]
        BY DEF RingInit
    <2>4. last \in Members /\ kills \in 0 .. MaxKills
        BY DEF RingInit, Members
    <2>5. alive \in BOOLEAN /\ gen \in Nat
        BY DEF RingInit, Set!SemInit
    <2> QED
        BY <2>1, <2>2, <2>3, <2>4, <2>5 DEF RingTypeOK
<1>3. SetInv /\ FillInv
    BY <1>1 DEF RingInit, Set!SemInit, SetInv, FillInv
<1>4. TokenInv
    BY <1>1, SuccMember DEF RingInit, TokenInv, Turn
<1> QED
    BY <1>2, <1>3, <1>4 DEF RingIInv

-----------------------------------------------------------------------------
(* Every action keeps the invariant *)

\* The first process makes a new set, all zero; the others find it.
LEMMA CreateKeeps == ASSUME RingIInv, NEW i \in Members, Create(i) PROVE RingIInv'
<1> USE DEF RingIInv, Create, Set!CreateSem
<1>1. CASE alive
    <2>1. UNCHANGED <<alive, gen, val, ini, last, kills>>
        BY <1>1
    <2>2. RingTypeOK'
        BY <1>1, <2>1 DEF RingTypeOK
    <2>3. SetInv'
        BY <1>1, <2>1 DEF RingTypeOK, SetInv
    <2>4. FillInv'
        BY <1>1, <2>1 DEF RingTypeOK, FillInv
    <2>5. TokenInv'
        BY <1>1, <2>1 DEF RingTypeOK, TokenInv, Turn
    <2> QED
        BY <2>2, <2>3, <2>4, <2>5
<1>2. CASE ~alive
    <2>1. val' = [s \in Members |-> 0] /\ last' = NumMembers - 1 /\ last' = last
        BY <1>2, SemsAreMembers DEF SetInv
    <2>2. RingTypeOK'
        BY <1>2, <2>1 DEF RingTypeOK
    <2>3. SetInv'
        BY <1>2, <2>1 DEF RingTypeOK, SetInv
    <2>4. FillInv'
        BY <1>2, <2>1 DEF RingTypeOK, SetInv, FillInv
    <2>5. TokenInv'
        BY <1>2, <2>1, SuccMember DEF RingTypeOK, SetInv, TokenInv, Turn
    <2> QED
        BY <2>2, <2>3, <2>4, <2>5
<1> QED
    BY <1>1, <1>2

\* Filling in sets one token, at the member whose turn it is before all others; a
\* token that has gone on by then may be erased.
LEMMA InitialiseKeeps == ASSUME RingIInv, NEW i \in Members, Initialise(i) PROVE RingIInv'
<1> USE DEF RingIInv, Initialise, Set!InitSem, Set!Created
<1>1. /\ ini[i] \in Members /\ ini[i] < NumMembers /\ alive /\ Set!Valid(i)
      /\ val' = [val EXCEPT ![ini[i]] = FirstToken[ini[i]]]
      /\ ini' = [ini EXCEPT ![i] = @ + 1]
      /\ UNCHANGED <<alive, gen, semid, pc, last, kills>>
    <2>1. ini[i] \in 0 .. NumMembers /\ ini[i] # NumMembers
        BY DEF RingTypeOK
    <2>2. ini[i] \in Members /\ ini[i] < NumMembers
        BY <2>1 DEF Members
    <2>3. alive /\ pc[i] = "init" /\ semid[i] = gen
        BY <2>2 DEF SetInv, FillInv
    <2>4. Set!Valid(i)
        BY <2>3 DEF Set!Valid
    <2> QED
        BY <2>2, <2>3, <2>4
<1>2. FirstToken[ini[i]] = IF ini[i] = 0 THEN 1 ELSE 0
    BY <1>1 DEF FirstToken
<1>3. RingTypeOK'
    BY <1>1, <1>2 DEF RingTypeOK, Members
<1>4. SetInv'
    BY <1>1 DEF RingTypeOK, SetInv
<1>5. FillInv'
    <2> SUFFICES ASSUME NEW k \in Members, ini'[k] < NumMembers
                 PROVE  /\ pc'[k] = "init" /\ ini'[k] # 0
                        /\ \A j \in Members : ini'[j] < NumMembers => j = k
        BY DEF FillInv
    <2>1. ini \in [Members -> 0 .. NumMembers]
        BY DEF RingTypeOK
    <2>2. k = i /\ ini'[k] = ini[i] + 1
        BY <1>1, <2>1 DEF FillInv
    <2>3. \A j \in Members : ini'[j] < NumMembers => j = k
        BY <1>1, <2>1, <2>2 DEF FillInv
    <2> QED
        BY <1>1, <2>1, <2>2, <2>3 DEF FillInv
<1>6. TokenInv'
    <2>1. CASE ini[i] = 0
        <3>1. Turn = 0 /\ Turn' = 0
            BY <1>1, <2>1, SuccMember DEF FillInv, Turn
        <3> QED
            BY <1>1, <1>2, <2>1, <3>1 DEF RingTypeOK, FillInv, TokenInv
    <2>2. CASE ini[i] # 0
        <3>1. Turn' = Turn /\ \A s \in Members : val'[s] \in {val[s], 0}
            BY <1>1, <1>2, <2>2 DEF RingTypeOK, Turn
        <3> QED
            BY <1>1, <3>1, SuccMember DEF RingTypeOK, TokenInv, Turn
    <2> QED
        BY <2>1, <2>2
<1> QED
    BY <1>3, <1>4, <1>5, <1>6

\* Whoever starts to work waits for its token first.
LEMMA EnterKeeps == ASSUME RingIInv, NEW i \in Members, Enter(i) PROVE RingIInv'
<1> USE DEF RingIInv, Enter, Ready, Set!Created
<1>1. RingTypeOK'
    BY DEF RingTypeOK
<1>2. SetInv'
    BY DEF RingTypeOK, SetInv
<1>3. FillInv'
    BY DEF RingTypeOK, FillInv
<1>4. TokenInv'
    BY DEF RingTypeOK, TokenInv, Turn
<1> QED
    BY <1>1, <1>2, <1>3, <1>4

\* Only the member whose turn it is finds a token.
LEMMA WaitKeeps == ASSUME RingIInv, NEW i \in Members, Wait(i) PROVE RingIInv'
<1> USE DEF RingIInv, Wait, Set!P, Mine
<1>1. /\ pc[i] = "wait" /\ alive /\ val[i] = 1 /\ i = Turn
      /\ val' = [val EXCEPT ![i] = @ - 1]
      /\ UNCHANGED <<alive, gen, semid, ini, last, kills>>
    BY DEF RingTypeOK, SetInv, TokenInv, Set!Valid
<1>2. RingTypeOK'
    BY <1>1 DEF RingTypeOK
<1>3. SetInv'
    BY <1>1 DEF RingTypeOK, SetInv
<1>4. FillInv'
    BY <1>1 DEF RingTypeOK, FillInv
<1>5. TokenInv'
    BY <1>1 DEF RingTypeOK, TokenInv, Turn
<1> QED
    BY <1>2, <1>3, <1>4, <1>5

\* Printing passes the turn on.
LEMMA OutputKeeps == ASSUME RingIInv, NEW i \in Members, Output(i) PROVE RingIInv'
<1> USE DEF RingIInv, Output
<1>1. i = Turn /\ val[Turn] = 0 /\ \A s \in Members : val[s] = 0
    BY DEF TokenInv
<1>2. RingTypeOK'
    BY DEF RingTypeOK
<1>3. SetInv'
    BY DEF RingTypeOK, SetInv
<1>4. FillInv'
    BY DEF RingTypeOK, FillInv
<1>5. TokenInv'
    <2>1. Turn' \in Members /\ \A s \in Members : val'[s] = 0
        BY <1>1, <1>2, SuccMember DEF RingTypeOK, Turn
    <2>2. \A j \in Members : pc'[j] # "print"
        BY <1>1 DEF RingTypeOK, TokenInv
    <2>3. \A j \in Members : pc'[j] = "release" => j = last'
        BY <1>1 DEF RingTypeOK, TokenInv
    <2> QED
        BY <2>1, <2>2, <2>3 DEF TokenInv
<1> QED
    BY <1>2, <1>3, <1>4, <1>5

\* The token goes to the member whose turn it has become.
LEMMA ReleaseKeeps == ASSUME RingIInv, NEW i \in Members, Release(i) PROVE RingIInv'
<1> USE DEF RingIInv, Release, Set!V
<1>1. /\ pc[i] = "release" /\ alive /\ i = last /\ val[Turn] = 0
      /\ Turn \in Members /\ Succ(i) = Turn
      /\ val' = [val EXCEPT ![Turn] = @ + 1]
      /\ UNCHANGED <<alive, gen, semid, ini, last, kills>>
    BY SuccMember DEF RingTypeOK, SetInv, TokenInv, Set!Valid, Turn
<1>2. RingTypeOK'
    BY <1>1 DEF RingTypeOK
<1>3. SetInv'
    BY <1>1 DEF RingTypeOK, SetInv
<1>4. FillInv'
    BY <1>1 DEF RingTypeOK, FillInv
<1>5. TokenInv'
    BY <1>1 DEF RingTypeOK, TokenInv, Turn
<1> QED
    BY <1>2, <1>3, <1>4, <1>5

\* A kill can only lose the token, or leave a set half filled in.
LEMMA KillKeeps == ASSUME RingIInv, NEW i \in Members, Kill(i) PROVE RingIInv'
<1> USE DEF RingIInv, Kill, Set!Abandon
<1>1. RingTypeOK'
    BY DEF RingTypeOK
<1>2. SetInv'
    BY DEF RingTypeOK, SetInv
<1>3. FillInv'
    BY DEF RingTypeOK, FillInv
<1>4. TokenInv'
    BY DEF RingTypeOK, TokenInv, Turn
<1> QED
    BY <1>1, <1>2, <1>3, <1>4

\* The invariant holds in every state of a ring.
THEOREM RingInvariance == RingSpec => []RingIInv
<1>1. RingIInv /\ [RingNext]_ringVars => RingIInv'
    <2> SUFFICES ASSUME RingIInv, [RingNext]_ringVars PROVE RingIInv'
        OBVIOUS
    <2>1. CASE RingNext
        BY <2>1, CreateKeeps, InitialiseKeeps, EnterKeeps, WaitKeeps, OutputKeeps, ReleaseKeeps, KillKeeps
           DEF RingNext, Step
    <2>2. CASE UNCHANGED ringVars
        BY <2>2 DEF ringVars, RingIInv, RingTypeOK, SetInv, FillInv, TokenInv, Turn
    <2> QED
        BY <2>1, <2>2
<1> QED
    BY <1>1, RingInitially, PTL DEF RingSpec

\* Whatever the number of members and kills, the letters come out in turn, in the
\* processes that may use the set while it is filled in, too.
THEOREM OutputIsInTurn == RingSpec => []InTurn
<1>1. RingIInv => InTurn
    BY DEF RingIInv, TokenInv, InTurn, Turn
<1> QED
    BY <1>1, RingInvariance, PTL

\* The variables keep their types; no semaphore ever counts two tokens.
THEOREM RingTypeCorrect == RingSpec => []RingTypeOK
<1>1. RingIInv => RingTypeOK
    BY DEF RingIInv
<1> QED
    BY <1>1, RingInvariance, PTL
=============================================================================

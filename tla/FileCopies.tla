----------------------------- MODULE FileCopies -----------------------------
(***************************************************************************)
(* The two programs that copy a file in halves:                            *)
(*   threads    04_Pthread/08_pthread_pratice.cpp, buffer after buffer     *)
(*   processes  03_Process/05_file_practice.cpp, each half in one piece    *)
(* The program, the size of the source and what the destination holds      *)
(* before are chosen in CopyInit.  Byte i of the source is i itself; a     *)
(* file is the function from its offsets to its bytes.                     *)
(***************************************************************************)
EXTENDS Integers, Sequences, FiniteSetsExt, Functions

CONSTANTS
    MaxSize,        \* bound: the largest source
    Buf             \* bytes read at once: 128 in the code

ASSUME CopyAssumption == MaxSize \in Nat /\ Buf \in Nat \ {0}

Zero == -1          \* the byte '\0'
Old == -2           \* a byte of an earlier destination
NoFile == [i \in {-1} |-> Zero]
FileOf(n, byte) == [i \in 0 .. n - 1 |-> byte]
LenOf(f) == Cardinality(DOMAIN f)

VARIABLES
    program, size,
    dest,       \* the destination
    stage,      \* what each half is about to do
    off,        \* its read position
    ret         \* how many bytes its last read returned

copyVars == <<program, size, dest, stage, off, ret>>

First == 1
Second == 2
Halves == {First, Second}

\* file1.start, file2.start and their len.
Start(h) == IF h = First THEN 0 ELSE size \div 2

\* Slip: both halves are rounded down.
LenRounded(h) == size \div 2

Length(h) == IF h = First THEN size \div 2 ELSE size - size \div 2

\* get_file_len empties the destination before there are threads.
CopyInit ==
    /\ program \in {"threads", "processes"}
    /\ size \in 0 .. MaxSize
    /\ dest \in IF program = "threads" THEN {FileOf(0, Old)} ELSE {NoFile, FileOf(MaxSize + 2, Old)}
    /\ stage = [h \in Halves |-> "open"]
    /\ off = [h \in Halves |-> 0]
    /\ ret = [h \in Halves |-> 0]

Moves(h, from, to) == stage[h] = from /\ stage' = [stage EXCEPT ![h] = to]

\* What a file holds from an offset on, and a write there: beyond the end it leaves
\* zeros between.
Piece(at, n) == [i \in 1 .. n |-> at + i - 1]

Written(f, at, bytes) ==
    LET keep == IF f = NoFile THEN {} ELSE DOMAIN f
        n == Len(bytes)
    IN  [i \in keep \union (IF n = 0 THEN {} ELSE 0 .. at + n - 1) |->
            IF i \in at .. at + n - 1 THEN bytes[i - at + 1] ELSE IF i \in keep THEN f[i] ELSE Zero]

-----------------------------------------------------------------------------
(* Threads *)

\* Both files are opened and both positions set; without a file the thread ends,
\* and main does not notice.
OpenAndSeek(h) ==
    /\ program = "threads"
    /\ \/ Moves(h, "open", "read") /\ off' = [off EXCEPT ![h] = Start(h)]
       \/ Moves(h, "open", "failed") /\ UNCHANGED off
    /\ UNCHANGED <<program, size, dest, ret>>

Read(h) ==
    /\ Moves(h, "read", "write")
    /\ ret' = [ret EXCEPT ![h] = Min({Buf, size - off[h]})]
    /\ off' = [off EXCEPT ![h] = @ + ret'[h]]
    /\ UNCHANGED <<program, size, dest>>

Count(h) == off[h] - Start(h)

\* Slip: a half that ends with a buffer is not noticed to be over.
PastEnd(h) == Count(h) > Length(h)

AtEnd(h) == Count(h) >= Length(h)

\* The last buffer is cut where the half ends.
Write(h) ==
    /\ Moves(h, "write", IF AtEnd(h) THEN "done" ELSE "read")
    /\ LET beyond == IF AtEnd(h) THEN Count(h) - Length(h) ELSE 0
           at == off[h] - ret[h]
       IN  dest' = Written(dest, at, Piece(at, ret[h] - beyond))
    /\ UNCHANGED <<program, size, off, ret>>

-----------------------------------------------------------------------------
(* Processes: the first half is the parent's *)

Half == size \div 2

\* Slip: the parent does not empty the destination.
OpenKeeping ==
    /\ program = "processes"
    /\ Moves(First, "open", "write")
    /\ dest' = IF dest = NoFile THEN FileOf(0, Zero) ELSE dest
    /\ UNCHANGED <<program, size, off, ret>>

\* The parent creates or empties the destination whenever it gets there.
OpenEmptying ==
    /\ program = "processes"
    /\ Moves(First, "open", "write")
    /\ dest' = FileOf(0, Zero)
    /\ UNCHANGED <<program, size, off, ret>>

\* The child does neither, and all it does fails if there is no file yet.
OpenExisting ==
    /\ program = "processes"
    /\ Moves(Second, "open", IF dest = NoFile THEN "failed" ELSE "write")
    /\ UNCHANGED <<program, size, dest, off, ret>>

\* Half + 1 bytes, the last one zero, at 0; the child's come one byte too late.
ParentWrites ==
    /\ program = "processes"
    /\ Moves(First, "write", "done")
    /\ dest' = Written(dest, 0, Append(Piece(0, Half), Zero))
    /\ UNCHANGED <<program, size, off, ret>>

ChildWrites ==
    /\ program = "processes"
    /\ Moves(Second, "write", "done")
    /\ dest' = Written(dest, Half + 1, Append(Piece(Half, Half), Zero))
    /\ UNCHANGED <<program, size, off, ret>>

CopyNext ==
    \/ \E h \in Halves : OpenAndSeek(h) \/ (program = "threads" /\ (Read(h) \/ Write(h)))
    \/ OpenEmptying \/ OpenExisting \/ ParentWrites \/ ChildWrites

CopySpec == CopyInit /\ [][CopyNext]_copyVars
FairCopy == CopySpec /\ WF_copyVars(CopyNext)

-----------------------------------------------------------------------------
(* Properties *)

Ended == \A h \in Halves : stage[h] \in {"done", "failed"}
Copied(h) == \A i \in Start(h) .. Start(h) + Length(h) - 1 : i \in DOMAIN dest /\ dest[i] = i

ThreadsCopy ==
    program = "threads" =>
        /\ \A h \in Halves : stage[h] = "done" => Copied(h)
        /\ LenOf(dest) <= size
        /\ Ended /\ "failed" \notin Range(stage) => dest = [i \in 0 .. size - 1 |-> i]

\* What the processes leave at an offset: each half with a zero behind it.
LeftAt(i) == IF i < Half THEN i ELSE IF i \in {Half, 2 * Half + 1} THEN Zero ELSE i - 1

ProcessesCopy ==
    program = "processes" /\ Ended =>
        dest \in {[i \in 0 .. Half |-> LeftAt(i)], [i \in 0 .. 2 * Half + 1 |-> LeftAt(i)]}

\* Each thread copies its half and no byte more, whatever the size and however the
\* two take turns; a half that could not be opened does not touch the other one.  The
\* processes leave the first half and a zero, to the byte; behind them nothing, or the
\* Half bytes from the middle of the source on, each one place too late, and a zero.
CopyIsFaithful == ThreadsCopy /\ ProcessesCopy

\* What the child of 05 announces when it has written: the second half is copied.
SecondHalfCopied == program = "processes" /\ Ended /\ stage[Second] = "done" => Copied(Second)

\* Both programs come to their end, a file of no or one byte included.
CopyEnds == <>Ended
=============================================================================

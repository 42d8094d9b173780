------------------------------- MODULE LfsLarge -------------------------------
(***************************************************************************)
(* The large-file benchmark (bench/LFStest/largefile.c): a file is written *)
(* and read in order, then written and read in a random order in which     *)
(* every piece of ioSize bytes is to be visited once, then read again.     *)
(*                                                                         *)
(* The file is its size: what is counted is which bytes are transferred.   *)
(* lseek, read and write are the system calls: a write that extends the    *)
(* file may be short or fail, a read stops at the end of the file.         *)
(***************************************************************************)
EXTENDS Naturals, Sequences, FiniteSetsExt

CONSTANTS fileSize, ioSize,
          Iters,       \* rounds of rand_write
          MaxShort     \* short writes in a behaviour

VARIABLES phase,                         \* index of the test that runs; 0: exit(1)
          ioCount, pos, size,
          i, j, scanning, seekArray,     \* the choice of the order
          seekOrder, seekLocation, iter,
          visits, short

vars == <<phase, ioCount, pos, size, i, j, scanning, seekArray, seekOrder, seekLocation,
          iter, visits, short>>

nLocs == fileSize \div ioSize
Span == 0 .. fileSize + ioSize - 1
Unseen == [b \in Span |-> 0]

Tests == <<"seq_write", "seq_read", "rand_write", "rand_read", "re-read", "exit">>
Test == IF phase = 0 THEN "failed" ELSE Tests[phase]

Init ==
  /\ phase = 1 /\ ioCount = 0 /\ pos = 0 /\ size = 0
  /\ i = nLocs /\ j = 0 /\ scanning = FALSE /\ seekArray = [k \in 0 .. nLocs - 1 |-> 0]
  /\ seekOrder = <<>> /\ seekLocation = 0 /\ iter = 1
  /\ visits = Unseen /\ short = 0

\* One test returns and main calls the next, which starts with its own arrays.
NextTest ==
  /\ phase' = phase + 1 /\ ioCount' = 0 /\ pos' = 0 /\ visits' = Unseen
  /\ i' = nLocs /\ j' = 0 /\ scanning' = FALSE /\ seekArray' = [k \in 0 .. nLocs - 1 |-> 0]
  /\ seekOrder' = <<>> /\ seekLocation' = 0 /\ iter' = 1
  /\ UNCHANGED <<size, short>>

-----------------------------------------------------------------------------
amt == IF fileSize - ioCount >= ioSize THEN ioSize ELSE fileSize - ioCount

Visit(off, n) == visits' = [b \in Span |-> IF b \in off .. off + n - 1 THEN visits[b] + 1 ELSE visits[b]]

\* What read(fd, buffer, amt) returns at offset off.
Rval(off) == IF off >= size THEN 0 ELSE Min({amt, size - off})

order == <<i, j, scanning, seekArray, seekOrder, iter>>

\* One write of seq_write; the disk may be full.
SeqWrite ==
  /\ Test = "seq_write" /\ ioCount < fileSize
  /\ \/ \E rval \in 1 .. amt :
          /\ rval < amt => short < MaxShort
          /\ short' = IF rval < amt THEN short + 1 ELSE short
          /\ Visit(pos, rval) /\ pos' = pos + rval /\ size' = Max({size, pos + rval})
          /\ ioCount' = ioCount + rval
          /\ UNCHANGED phase
     \/ phase' = 0 /\ UNCHANGED <<ioCount, pos, size, visits, short>>
  /\ UNCHANGED <<order, seekLocation>>

\* One read of seq_read.
SeqRead ==
  /\ Test \in {"seq_read", "re-read"} /\ ioCount < fileSize
  /\ Visit(pos, Rval(pos)) /\ pos' = pos + Rval(pos) /\ ioCount' = ioCount + Rval(pos)
  /\ UNCHANGED <<phase, size, order, seekLocation, short>>

EndSeq == Test \in {"seq_write", "seq_read", "re-read"} /\ ioCount >= fileSize /\ NextTest

-----------------------------------------------------------------------------
\* Faulty variant of Choose: one location too many.
ChooseOne ==
  /\ i > 0 /\ ~scanning
  /\ seekLocation' \in 0 .. i
  /\ j' = 0 /\ scanning' = TRUE
  /\ UNCHANGED <<phase, ioCount, pos, size, i, seekArray, seekOrder, iter, visits, short>>

\* seekLocation = random() % i
Choose ==
  /\ i > 0 /\ ~scanning
  /\ seekLocation' \in 0 .. i - 1
  /\ j' = 0 /\ scanning' = TRUE
  /\ UNCHANGED <<phase, ioCount, pos, size, i, seekArray, seekOrder, iter, visits, short>>

\* The body of the scan for the seekLocation-th unused element.
Scan ==
  /\ scanning /\ j < nLocs
  /\ seekArray[j] = 1 \/ seekLocation > 0
  /\ seekLocation' = IF seekArray[j] = 0 THEN seekLocation - 1 ELSE seekLocation
  /\ j' = j + 1
  /\ UNCHANGED <<phase, ioCount, pos, size, i, scanning, seekArray, seekOrder, iter, visits, short>>

\* Faulty variant of Take: the element is not marked as used.
TakeUnmarked ==
  /\ scanning /\ j < nLocs /\ seekArray[j] = 0 /\ seekLocation = 0
  /\ seekOrder' = Append(seekOrder, j)
  /\ i' = i - 1 /\ scanning' = FALSE
  /\ UNCHANGED <<phase, ioCount, pos, size, j, seekArray, seekLocation, iter, visits, short>>

\* The end of the scan: the element is used next.
Take ==
  /\ scanning /\ j < nLocs /\ seekArray[j] = 0 /\ seekLocation = 0
  /\ seekArray' = [seekArray EXCEPT ![j] = 1]
  /\ seekOrder' = Append(seekOrder, j)
  /\ i' = i - 1 /\ scanning' = FALSE
  /\ UNCHANGED <<phase, ioCount, pos, size, j, seekLocation, iter, visits, short>>

\* rand_write and rand_read each make an order of their own.
WriteOrder == Test = "rand_write" /\ (Choose \/ Scan \/ Take)
ReadOrder == Test = "rand_read" /\ (Choose \/ Scan \/ Take)

\* seekOrder[seekLocation]; past the end of the array it is whatever is there.
Locations ==
  IF seekLocation < Len(seekOrder) THEN {seekOrder[seekLocation + 1]} ELSE 0 .. nLocs

\* One seek and write of rand_write.  The file has been allocated by seq_write.
RandWrite ==
  /\ Test = "rand_write" /\ i = 0 /\ ioCount < fileSize
  /\ \E loc \in Locations :
       /\ Visit(loc * ioSize, amt) /\ pos' = loc * ioSize + amt
       /\ size' = Max({size, loc * ioSize + amt})
  /\ seekLocation' = seekLocation + 1 /\ ioCount' = ioCount + amt
  /\ UNCHANGED <<phase, order, short>>

\* Another round of rand_write in the same order.
NextIter ==
  /\ Test = "rand_write" /\ i = 0 /\ ioCount >= fileSize /\ iter < Iters
  /\ iter' = iter + 1 /\ ioCount' = 0 /\ seekLocation' = 0 /\ visits' = Unseen
  /\ UNCHANGED <<phase, pos, size, i, j, scanning, seekArray, seekOrder, short>>

\* One seek and read of rand_read.
RandRead ==
  /\ Test = "rand_read" /\ i = 0 /\ ioCount < fileSize
  /\ \E loc \in Locations :
       /\ Visit(loc * ioSize, Rval(loc * ioSize))
       /\ pos' = loc * ioSize + Rval(loc * ioSize)
       /\ ioCount' = ioCount + Rval(loc * ioSize)
  /\ seekLocation' = seekLocation + 1
  /\ UNCHANGED <<phase, size, order, short>>

EndRand ==
  /\ Test \in {"rand_write", "rand_read"} /\ i = 0 /\ ioCount >= fileSize
  /\ Test = "rand_write" => iter = Iters
  /\ NextTest

\* exit
Done == Test \in {"exit", "failed"} /\ UNCHANGED vars

Next ==
  \/ SeqWrite \/ SeqRead \/ EndSeq
  \/ WriteOrder \/ RandWrite \/ NextIter \/ ReadOrder \/ RandRead \/ EndRand
  \/ Done

-----------------------------------------------------------------------------
\* At the end of a test each byte of the file has been transferred once.
EachByteOnce ==
  phase # 0 /\ Test # "exit" /\ ioCount >= fileSize =>
    \A b \in Span : visits[b] = IF b < fileSize THEN 1 ELSE 0

Ended == Test \in {"exit", "failed"}
=============================================================================

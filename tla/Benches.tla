------------------------------- MODULE Benches --------------------------------
(***************************************************************************)
(* The programs of bench/: one of them runs, either one of the programs    *)
(* that keep files in FSCQ (FscqApps), or pingtest.c or spintest.c, or the *)
(* large-file benchmark of LFStest.  The programs share nothing; the state *)
(* of those that do not run stands still.                                  *)
(***************************************************************************)
EXTENDS FscqApps

CONSTANTS M, fileSize, ioSize, Iters, MaxShort

ASSUME BenchAssumption ==
  M \in Nat /\ M > 3 /\ {fileSize, ioSize, Iters} \subseteq Nat \ {0} /\ MaxShort \in Nat

VARIABLES bench,
          pc1, pc2, asleep, request, reply, myreq, myreply, t1, t2, t3, garbage, running,
          phase, ioCount, pos, size, i, j, scanning, seekArray, seekOrder, seekLocation,
          iter, visits, short

Ping == INSTANCE PingTest
Lfs == INSTANCE LfsLarge

pvars == <<pc1, pc2, asleep, request, reply, myreq, myreply, t1, t2, t3, garbage, running>>
lvars == <<phase, ioCount, pos, size, i, j, scanning, seekArray, seekOrder, seekLocation,
           iter, visits, short>>
bvars == <<bench, vars, pvars, lvars>>

BenchInit ==
  /\ bench \in {"files", "pingtest", "spintest", "largefile"}
  /\ Init /\ (bench # "files" => prog = "mini")
  /\ Ping!Init /\ (bench \in {"files", "largefile"} => garbage = 0)
  /\ Lfs!Init

Threads(A) == A /\ UNCHANGED <<bench, vars, lvars>>

Thr1 == Threads(\/ bench = "pingtest" /\ Ping!PingThr1
                \/ bench = "spintest" /\ Ping!SpinThr1)
Thr2 == Threads(\/ bench = "pingtest" /\ Ping!PingThr2
                \/ bench = "spintest" /\ Ping!SpinThr2)
ThreadsOther == Threads(\/ bench = "pingtest" /\ Ping!PingOther
                        \/ bench = "spintest" /\ Ping!SpinOther)
LargeFileStep == bench = "largefile" /\ Lfs!Next /\ UNCHANGED <<bench, vars, pvars>>

BenchNext ==
  \/ bench = "files" /\ Next /\ UNCHANGED <<bench, pvars, lvars>>
  \/ Thr1 \/ Thr2 \/ ThreadsOther
  \/ LargeFileStep

\* A thread that can go on does, and so does a program that runs alone.
BenchSpec ==
  /\ BenchInit /\ [][BenchNext]_bvars
  /\ WF_bvars(Thr1) /\ WF_bvars(Thr2) /\ WF_bvars(LargeFileStep)

-----------------------------------------------------------------------------
\* The times that pingtest.c prints are all of the request that was answered,
\* although t2 and t3 are read without the mutex.  So are those of spintest.c,
\* but for t3, which may still be that of the request before, and for t2 when
\* myreply did not start as 0.
PrintedTimes ==
  /\ bench = "pingtest" => Ping!TimesOfRequest
  /\ bench = "spintest" => Ping!TimesUnlocked

\* pingtest.c and spintest.c: every request is answered, although one condition
\* variable serves both threads, signals are lost on a thread that does not
\* wait and may come for nothing.  Not so if the uninitialised myreply happens
\* to hold the first request: then both threads wait for ever.
Answered == Ping!Answered

\* LFStest/largefile.c: every test transfers each byte of the file exactly once
\* in every round, and nothing past its end ("one read/write of each piece").
EachByteOnce == Lfs!EachByteOnce

\* LFStest/largefile.c ends, with all its tests done or with a failed write: no
\* loop waits for bytes that are not there, and no scan for an unused element of
\* seekArray leaves the array (there the model stands still).
Finishes == bench = "largefile" ~> Lfs!Ended
=============================================================================

------------------------------- MODULE FscqApps -------------------------------
(***************************************************************************)
(* Programs that keep files in FSCQ across crashes: the verified atomic    *)
(* copy (AtomicCp.v) and the benchmarks that create, sync and rename       *)
(* files.  A program is a sequence of calls of AsyncFS.v; the system calls *)
(* of a C program are replaced by the calls that the server (fscq.hs)      *)
(* makes for them.  Between any two calls the machine may crash; the       *)
(* program then starts again on what recovery finds.                       *)
(*                                                                         *)
(* Every message is one partial block of MsgLen bytes.                     *)
(***************************************************************************)
EXTENDS AfsCalls

CONSTANTS Msg, OldMsg, MsgLen,
          Programs,      \* names of the programs that are run
          MaxCrashes,
          MaxTxns        \* a round of a loop starts with fewer transactions to flush

VARIABLES sys, prog, pc,
          cwd, fd,       \* the directory and the file that the program works on
          ignored,       \* the program has ignored that a write failed
          kept, crashes

vars == <<sys, prog, pc, cwd, fd, ignored, kept, crashes>>

-----------------------------------------------------------------------------
(***************************************************************************)
(* Instructions: a call, the names it is about, what the program does when *)
(* it fails (exit, go on, or sync the tree and exit), and what it promises *)
(* a user once it has returned: of every set of names in keeps, one is a   *)
(* complete file.                                                          *)
(***************************************************************************)
Instr(op, n, m, fails, keeps) == [op |-> op, n |-> n, m |-> m, fails |-> fails, keeps |-> keeps]
Call(op, n, fails) == Instr(op, n, n, fails, {})

\* Faulty variant of Fsync: fsync does what fdatasync does.
FsyncDataOnly(n, keeps) == <<Instr("filesync", n, n, "go", keeps)>>

\* fscqWrite, fscqSyncFile (FullSync), fscqOpen with O_TRUNC.
Write(n, fails) == <<Call("grow", n, fails), Call("data", n, fails), Call("size", n, fails)>>
Fsync(n, keeps) == <<Call("filesync", n, "go"), Instr("treesync", n, n, "go", keeps)>>
OpenTrunc(n) == <<Call("open", n, "exit"), Call("cut", n, "go"), Call("cutsize", n, "exit")>>

SyncDir(keeps) == Instr("treesync", Root, Root, "go", keeps)
Rename2(n, m, fails) == Instr("rename", n, m, fails, {})

\* atomic-create.c
AtomicCreate ==
  <<Call("open", "temp", "exit")>> \o Write("temp", "exit")
  \o <<Call("filesync", "temp", "exit"), Rename2("temp", "dst", "exit"), SyncDir({{"dst"}})>>

\* testsync.c, one round.
TestSync ==
  <<Call("openx", "f1", "exit")>> \o Write("f1", "go") \o Fsync("f1", {{"f1", "f2"}})
  \o <<Rename2("f1", "f2", "go"), SyncDir({{"f2"}})>>

\* Faulty variant of MailBench: the directory is synced once, at the end.
MailBenchOneSync ==
  <<Call("openx", "tmp1", "exit")>> \o Write("tmp1", "go") \o <<Call("filesync", "tmp1", "go"),
    Call("openx", "tmp2", "exit")>> \o Write("tmp2", "go") \o <<Call("filesync", "tmp2", "go"),
    Rename2("tmp2", "q2", "exit"), Rename2("tmp1", "q1", "exit"), SyncDir({{"q1"}, {"q2"}})>>

\* mini-mailbench.c, one message.
MailBench ==
  <<Call("openx", "tmp1", "exit")>> \o Write("tmp1", "go") \o <<Call("filesync", "tmp1", "go"),
    Call("openx", "tmp2", "exit")>> \o Write("tmp2", "go") \o <<Call("filesync", "tmp2", "go"),
    Rename2("tmp1", "q1", "exit"), SyncDir({{"q1"}}),
    Rename2("tmp2", "q2", "exit"), SyncDir({{"q1"}, {"q2"}})>>

\* mini-mini.c: the round of renames; the file is empty.
MiniMini ==
  <<Call("openx", "one", "go"), Rename2("one", "two", "go"), SyncDir({{"one", "two"}}),
    Rename2("two", "one", "go"), SyncDir({{"one", "two"}}), Call("unlink", "one", "go")>>

\* smallsync.c, one round.
SmallSync ==
  <<Call("mkdir", "d", "exit")>> \o OpenTrunc("f0") \o Write("f0", "exit") \o Fsync("f0", {{"f0"}})

\* smallfile.c, two rounds.
SmallFile ==
  <<Call("mkdir", "d", "exit")>>
  \o OpenTrunc("f0") \o Write("f0", "exit") \o Fsync("f0", {{"f0"}})
  \o OpenTrunc("f1") \o Write("f1", "exit") \o Fsync("f1", {{"f0"}, {"f1"}})

\* largefile.c, with one write each.
MakeFile ==
  OpenTrunc("f0") \o Write("f0", "exit") \o Fsync("f0", {{"f0"}})
  \o Write("f0", "go") \o <<SyncDir({{"f0"}})>>
WriteFile == <<Call("openr", "f0", "exit")>> \o Write("f0", "exit") \o Fsync("f0", {{"f0"}})
LargeFile == <<Call("mkdir", "d", "exit")>> \o MakeFile \o WriteFile

\* LFStest/smallfile.c, with one directory and one file.
CreatDir == <<Call("mkdir", "d", "go")>>
CreatTest == OpenTrunc("f0") \o Write("f0", "exit")

ReadTest == <<Call("openr", "f0", "exit"), Call("read", "f0", "exit")>>
DeleteTest == <<Call("unlink", "f0", "exit")>>
LfsSmall == CreatDir \o CreatTest \o ReadTest \o DeleteTest

\* The loops that create a file and remove it again: LFStest/write1.c,
\* multicreate.c and multicreatewrite.c.  multifsync.c and multiwrite.c write
\* one file for ever, multicreatemany.c (here with two names) leaves its files.
Write1 == OpenTrunc("f0") \o Write("f0", "exit") \o <<Call("unlink", "f0", "go")>>
MultiCreate == <<Call("openx", "f0", "go"), Call("unlink", "f0", "go")>>
MultiCreateWrite ==
  <<Call("openx", "f0", "go")>> \o Write("f0", "go") \o <<Call("unlink", "f0", "go")>>
MultiFsync == <<Call("open", "f0", "go")>> \o Write("f0", "go") \o Fsync("f0", {{"f0"}})
MultiWrite == <<Call("open", "f0", "go")>> \o Write("f0", "go")
MultiCreateMany == <<Call("openx", "f0", "go"), Call("openx", "f1", "go")>>

\* Faulty variant of AtomicCp: the copied block is not synced before the rename.
AtomicCpUnsynced ==
  <<Call("openx", ".temp", "exit"), SyncDir({{"dst"}}), Call("grow", ".temp", "sync"),
    Call("copy", ".temp", "go"), Call("size", ".temp", "sync"),
    Rename2(".temp", "dst", "sync"), SyncDir({{"dst"}})>>

\* atomic_cp: create, copy2temp, copydata, copy_and_rename.
AtomicCp ==
  <<Call("openx", ".temp", "exit"), SyncDir({{"dst"}}), Call("grow", ".temp", "sync"),
    Call("copy", ".temp", "go"), Call("filesync", ".temp", "go"),
    Call("size", ".temp", "sync"),
    Rename2(".temp", "dst", "sync"), SyncDir({{"dst"}})>>

\* Faulty variant of AtomicCpRecover: the temporary file stays.
AtomicCpRecoverKeeps == <<SyncDir({{"dst"}})>>

\* atomic_cp_recover, after AFS.recover.
AtomicCpRecover == <<Call("unlink", ".temp", "go"), SyncDir({{"dst"}})>>

Code(p) ==
  CASE p = "atomic_create" -> AtomicCreate
    [] p = "testsync" -> TestSync
    [] p = "mailbench" -> MailBench
    [] p = "mini" -> MiniMini
    [] p = "smallsync" -> SmallSync
    [] p = "smallfile" -> SmallFile
    [] p = "largefile" -> LargeFile
    [] p = "lfs_small" -> LfsSmall
    [] p = "write1" -> Write1
    [] p = "multicreate" -> MultiCreate
    [] p = "multicreatewrite" -> MultiCreateWrite
    [] p = "multifsync" -> MultiFsync
    [] p = "multiwrite" -> MultiWrite
    [] p = "multicreatemany" -> MultiCreateMany
    [] p = "atomic_cp" -> AtomicCp
    [] p = "atomic_cp_recover" -> AtomicCpRecover

-----------------------------------------------------------------------------
NoFile == 0
now == latest(sys)
Ino(s, d, n) == latest(s).dir[d][n].inum
Appends == now.ino[fd].bytes < MsgLen

\* Instruction c works on the open file; fsync of a directory does not.
OnFile(c) ==
  \/ c.op \in {"cut", "cutsize", "grow", "data", "size", "filesync"}
  \/ c.op = "treesync" /\ c.n # Root

\* The call of instruction c, in the server or in the copy.  There is none for
\* a file that the program failed to open.
Effect(c) ==
  IF fd = NoFile /\ OnFile(c) THEN [sys EXCEPT !.err = "EBADF"]
  ELSE CASE c.op \in {"open", "openx"} ->
         IF c.op = "open" /\ c.n \in DOMAIN now.dir[cwd] THEN sys ELSE Create(sys, cwd, c.n)
    [] c.op = "openr" -> IF c.n \in DOMAIN now.dir[cwd] THEN sys ELSE [sys EXCEPT !.err = "ENOENT"]
    [] c.op = "mkdir" -> Mkdir(sys, Root, c.n)
    [] c.op = "read" -> sys
    [] c.op = "cut" -> FileTruncate(sys, fd, 0)
    [] c.op = "cutsize" -> FileSetSz(sys, fd, 0)
    [] c.op = "grow" -> IF Appends THEN FileTruncate(sys, fd, 1) ELSE sys
    [] c.op = "data" -> IF Appends THEN UpdateFblock(sys, fd, 0, Msg)
                                   ELSE UpdateFblockD(sys, fd, 0, Msg)
    [] c.op = "copy" -> UpdateFblockD(sys, fd, 0, ReadFblock(sys, Ino(sys, Root, "src"), 0))
    [] c.op = "size" -> IF Appends THEN FileSetSz(sys, fd, MsgLen) ELSE sys
    [] c.op = "filesync" -> FileSync(sys, fd)
    [] c.op = "treesync" -> TreeSync(sys)
    [] c.op = "rename" -> RenameCall(sys, <<>>, c.n, <<>>, c.m)
    [] c.op = "unlink" -> DeleteCall(sys, cwd, c.n)

\* A user gives up what the program promised when it changes the file itself.
Drops(c) == {K \in kept : c.op \in {"cut", "unlink"} /\ c.n \in K}

\* The files that a program finds: the copy has a source and an old target.
File(s, n, v) ==
  LET a == Create(s, Root, n)
      i == Ino(a, Root, n)
      b == UpdateFblock(FileTruncate(a, i, 1), i, 0, v)
  IN TreeSync(FileSetSz(b, i, MsgLen))

Start(p) ==
  IF p = "atomic_cp" THEN File(File(Mkfs(Zero), "src", Msg), "dst", OldMsg) ELSE Mkfs(Zero)

Init ==
  /\ prog \in Programs
  /\ sys = Start(prog)
  /\ pc = 1 /\ cwd = Root /\ fd = NoFile /\ ignored = FALSE /\ kept = {} /\ crashes = 0

Scratch == {"write1", "multicreate", "multicreatewrite"}

\* The instruction after c: a loop starts again, and recovery gives way to the copy.
After(failed, c) ==
  IF failed /\ c.fails = "exit" THEN 0
  ELSE IF failed /\ c.fails = "sync" THEN Len(Code(prog))
  ELSE IF failed /\ c.op = "grow" THEN pc + 3   \* the write returns
  ELSE IF pc < Len(Code(prog)) THEN pc + 1
  ELSE IF prog \in {"smallsync", "multifsync", "multiwrite"} THEN 2
  ELSE IF prog \in Scratch \cup {"testsync", "mini", "atomic_cp_recover"} THEN 1 ELSE 0

\* One call.
Step ==
  LET c == Code(prog)[pc]
      s == Effect(c)
      failed == s.err # "OK"
  IN /\ pc # 0
     /\ prog \in Scratch /\ pc = 1 => Len(sys.pend) < MaxTxns
     /\ sys' = [s EXCEPT !.err = "OK"]
     /\ fd' = IF c.op \notin {"open", "openx", "openr"} THEN fd
              ELSE IF failed THEN NoFile ELSE Ino(s, cwd, c.n)
     /\ cwd' = IF c.op = "mkdir" /\ c.n \in DOMAIN latest(s).dir[Root] THEN Ino(s, Root, c.n) ELSE cwd
     /\ ignored' = (ignored \/ (failed /\ c.op = "grow" /\ c.fails = "go"))
     /\ kept' = (kept \ Drops(c)) \cup (IF failed THEN {} ELSE c.keeps)
     /\ pc' = After(failed, c)
     /\ prog' = IF prog = "atomic_cp_recover" /\ pc = Len(Code(prog)) THEN "atomic_cp" ELSE prog
     /\ UNCHANGED crashes

\* Inside a system call the server holds its lock.
Inside == pc # 0 /\ Code(prog)[pc].op \in {"data", "copy", "size", "cutsize"}

\* Another process has the tree synced between two system calls.
OtherSync == ~Inside /\ sys' = TreeSync(sys) /\ UNCHANGED <<prog, pc, cwd, fd, ignored, kept, crashes>>

\* A write in place flushes the log if a pending transaction wrote its block.
FlushesFirst ==
  /\ Code(prog)[pc].op = "copy" \/ (Code(prog)[pc].op = "data" /\ ~Appends)
  /\ <<"data", now.ino[fd].blocks[1]>> \in UNION Range(sys.pend)

\* A crash exposes more than the oldest disk only while the log is flushed.
CrashExposed == IF Inside => FlushesFirst THEN Exposed(sys) ELSE {1}

Crash ==
  /\ crashes < MaxCrashes
  /\ \E n \in CrashExposed : \E f \in CrashOutcomes(sys.ds[n].data) : sys' = Recover(sys, n, f)
  /\ prog' = IF prog \in {"atomic_cp", "atomic_cp_recover"} THEN "atomic_cp_recover" ELSE prog
  /\ pc' = 1 /\ cwd' = Root /\ fd' = NoFile
  /\ crashes' = crashes + 1
  /\ UNCHANGED <<ignored, kept>>

Next == Step \/ OtherSync \/ Crash

Spec == Init /\ [][Next]_vars

-----------------------------------------------------------------------------
\* The directory on disk d that the files of the program are in.
Home(d) ==
  IF prog \in {"smallsync", "smallfile", "largefile", "lfs_small"} /\ "d" \in DOMAIN d.dir[Root]
    THEN d.dir[Root]["d"].inum ELSE Root

\* n is, on disk d, a file that holds the whole of a message in vs, whatever
\* a crash does to its block; the file of mini-mini is empty.
Whole(d, n, vs) ==
  /\ n \in DOMAIN d.dir[Home(d)]
  /\ LET i == d.ino[d.dir[Home(d)][n].inum]
     IN IF prog = "mini" THEN i = NoInode
        ELSE /\ i.bytes = MsgLen /\ Len(i.blocks) = 1
             /\ Merge(d.data[i.blocks[1]]) \subseteq vs

Targets == {"dst", "f2", "q1", "q2"}

\* Whenever the machine crashes, a name that a program renames a complete file
\* to is absent or complete: the data of an append cannot arrive after the
\* rename, a rename does not lose the file it replaces, and a copy that went past
\* the log has been synced.  It may be incomplete only if a program did not
\* look at what write returned on a full disk.
TargetWhole ==
  ~ignored => \A n \in CrashExposed, t \in Targets :
    t \in DOMAIN sys.ds[n].dir[Root] => Whole(sys.ds[n], t, {Msg, OldMsg})

TypeOK ==
  /\ prog \in Programs \cup {"atomic_cp_recover"}
  /\ pc \in 0 .. Len(Code(prog)) /\ cwd \in Inum /\ fd \in Inum \cup {NoFile} /\ ignored \in BOOLEAN /\ crashes \in 0 .. MaxCrashes
  /\ Len(sys.ds) = Len(sys.pend) + 1

\* A file that fsync, or fsync of its directory, has returned for is there
\* after every later crash, complete and under one of its names, until the
\* program itself changes it; so it is in later runs of the program.
\* The program stays within its code and the disk set within its types.
KeptFiles ==
  /\ TypeOK
  /\ ~ignored => \A n \in CrashExposed : \A K \in kept : \E t \in K : Whole(sys.ds[n], t, {Msg, OldMsg})

\* The second message of the mailer is never delivered without the first.
MailOrdered ==
  \A n \in CrashExposed :
    "q2" \in DOMAIN sys.ds[n].dir[Root] => "q1" \in DOMAIN sys.ds[n].dir[Root]

\* The copy starts, and after a crash starts again, without its temporary file
\* (tree_rep_recover of AtomicCp.v), so that a crash never stops it for good.
NoTempAtStart ==
  prog = "atomic_cp" /\ pc = 1 =>
    \A n \in DOMAIN sys.ds : ".temp" \notin DOMAIN sys.ds[n].dir[Root]

\* A program that creates a file and removes it, over and over and whatever a
\* crash interrupts, loses no space: where its file is gone, on any disk that a
\* crash may expose, every inode but the root's and every block but those of
\* the root directory are free.
SpaceReturns ==
  prog \in Scratch => \A n \in CrashExposed :
    LET d == sys.ds[n]
    IN d.dir[Root] = EmptyMap =>
         /\ d.free["inode"] = Inum \ {Root}
         /\ d.free["data1"] \cup d.free["data2"] = Block \ Range(d.ino[Root].blocks)
=============================================================================

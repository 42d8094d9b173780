------------------------------- MODULE OpQueue -------------------------------
(***************************************************************************)
(* The operation queue between the FUSE threads and the Haskell workers    *)
(* (hslib/opqueue.c, called by opfuse.c and by startHandlingOps of         *)
(* Fuse.hsc).                                                              *)
(*                                                                         *)
(* A FUSE thread puts an operation that lives on its stack into a ring of  *)
(* Size slots and spins on op->done; a worker takes the oldest operation,  *)
(* handles it, stores op->err and then sets op->done.  Both look at the    *)
(* counters without the lock first and once more with it.  An operation is *)
(* named after the thread on whose stack it is.                            *)
(*                                                                         *)
(* sent and taken are history variables: the calls in the order in which   *)
(* they entered and left the queue.                                        *)
(***************************************************************************)
EXTENDS Integers, Sequences, FiniteSets

CONSTANTS Client,   \* threads of fuse_loop_mt
          Worker,   \* threads of startHandlingOps, one per capability
          Size,     \* QUEUE_MAX_SIZE
          MaxCalls, \* bound on the calls of a behaviour
          None      \* no thread, no operation

ASSUME QueueAssumption ==
  /\ Size \in Nat \ {0}
  /\ MaxCalls \in Nat
  /\ Client \cap Worker = {}
  /\ None \notin Client \cup Worker

VARIABLES puts, gets, \* q.puts and q.gets
          ring,       \* q.ops
          spin,       \* the holder of q.spin
          pc,
          seen,       \* the q.puts that the unlocked test of a thread has loaded
          hold,       \* the operation that a worker works on
          op,         \* the operations: argument, err and done
          calls, sent, taken

qvars == <<puts, gets, ring, spin>>
vars == <<puts, gets, ring, spin, pc, seen, hold, op, calls, sent, taken>>

Thread == Client \cup Worker

Init ==
  /\ puts = 0 /\ gets = 0
  /\ ring = [i \in 0..(Size - 1) |-> None]
  /\ spin = None
  /\ pc = [t \in Thread |-> IF t \in Client THEN "out" ELSE "poll"]
  /\ seen = [t \in Thread |-> 0]
  /\ hold = [w \in Worker |-> None]
  /\ op = [c \in Client |-> [arg |-> 0, err |-> 0, done |-> FALSE]]
  /\ calls = 0
  /\ sent = <<>>
  /\ taken = <<>>

\* Thread t goes from one place to another.
Goes(t, from, to) == pc[t] = from /\ pc' = [pc EXCEPT ![t] = to]

-----------------------------------------------------------------------------
\* Faulty variant of Call: done is left as the last call set it.
CallDone(c) ==
  /\ calls < MaxCalls
  /\ Goes(c, "out", "poll")
  /\ calls' = calls + 1
  /\ op' = [op EXCEPT ![c].arg = calls + 1]
  /\ UNCHANGED <<qvars, seen, hold, sent, taken>>

\* A handler of opfuse.c fills in the operation, and execute clears done; the
\* rest of the frame is what was there before.
Call(c) ==
  /\ calls < MaxCalls
  /\ Goes(c, "out", "poll")
  /\ calls' = calls + 1
  /\ op' = [op EXCEPT ![c] = [arg |-> calls + 1, err |-> @.err, done |-> FALSE]]
  /\ UNCHANGED <<qvars, seen, hold, sent, taken>>

\* The test without the lock loads the two counters one after the other.
Poll(t) ==
  /\ Goes(t, "poll", "test")
  /\ seen' = [seen EXCEPT ![t] = puts]
  /\ UNCHANGED <<qvars, hold, op, calls, sent, taken>>

\* A client finds the queue full, a worker finds it empty.
MustWait(t, p) == IF t \in Client THEN p - gets >= Size ELSE p <= gets

Test(t) ==
  /\ Goes(t, "test", IF MustWait(t, seen[t]) THEN "poll" ELSE "lock")
  /\ UNCHANGED <<qvars, seen, hold, op, calls, sent, taken>>

\* Faulty variant of Lock: it does not exclude.
LockOpen(t) ==
  /\ Goes(t, "lock", "locked")
  /\ spin' = t
  /\ UNCHANGED <<puts, gets, ring, seen, hold, op, calls, sent, taken>>

\* pthread_spin_lock
Lock(t) ==
  /\ Goes(t, "lock", "locked")
  /\ spin = None
  /\ spin' = t
  /\ UNCHANGED <<puts, gets, ring, seen, hold, op, calls, sent, taken>>

\* Faulty variant of Retry: the lock is kept.
RetryLocked(t) ==
  /\ Goes(t, "locked", "poll")
  /\ MustWait(t, puts)
  /\ UNCHANGED <<puts, gets, ring, spin, seen, hold, op, calls, sent, taken>>

\* The test with the lock fails.
Retry(t) ==
  /\ Goes(t, "locked", "poll")
  /\ MustWait(t, puts)
  /\ spin' = None
  /\ UNCHANGED <<puts, gets, ring, seen, hold, op, calls, sent, taken>>

\* execute: the operation goes into its slot, then the counter and the lock.
Put(c) ==
  /\ Goes(c, "locked", "bump")
  /\ ~MustWait(c, puts)
  /\ ring' = [ring EXCEPT ![puts % Size] = c]
  /\ UNCHANGED <<puts, gets, spin, seen, hold, op, calls, sent, taken>>

PutDone(c) ==
  /\ Goes(c, "bump", "wait")
  /\ puts' = puts + 1
  /\ spin' = None
  /\ sent' = Append(sent, op[c].arg)
  /\ UNCHANGED <<gets, ring, seen, hold, op, calls, taken>>

\* execute returns when done is set, and the frame of the operation is gone.
Return(c) ==
  /\ op[c].done
  /\ Goes(c, "wait", "out")
  /\ UNCHANGED <<qvars, seen, hold, op, calls, sent, taken>>

\* get_op: the operation is read from its slot, then the counter and the lock.
Get(w) ==
  /\ Goes(w, "locked", "bump")
  /\ ~MustWait(w, puts)
  /\ hold' = [hold EXCEPT ![w] = ring[gets % Size]]
  /\ UNCHANGED <<qvars, seen, op, calls, sent, taken>>

GetDone(w) ==
  /\ Goes(w, "bump", "handle")
  /\ gets' = gets + 1
  /\ spin' = None
  /\ taken' = Append(taken, op[hold[w]].arg)
  /\ UNCHANGED <<puts, ring, seen, hold, op, calls, sent>>

\* Faulty variant of Handle: send_result stores done first.
HandleDone(w) ==
  /\ Goes(w, "handle", "reply")
  /\ op' = [op EXCEPT ![hold[w]].done = TRUE]
  /\ UNCHANGED <<qvars, seen, hold, calls, sent, taken>>

\* handleOpcode, whose answer here is the argument, and the first store of
\* send_result.
Handle(w) ==
  /\ Goes(w, "handle", "reply")
  /\ op' = [op EXCEPT ![hold[w]].err = op[hold[w]].arg]
  /\ UNCHANGED <<qvars, seen, hold, calls, sent, taken>>

\* The second store of send_result.
Reply(w) ==
  /\ Goes(w, "reply", "poll")
  /\ op' = [op EXCEPT ![hold[w]].done = TRUE]
  /\ hold' = [hold EXCEPT ![w] = None]
  /\ UNCHANGED <<qvars, seen, calls, sent, taken>>

Step(t) ==
  \/ Poll(t) \/ Test(t) \/ Lock(t) \/ Retry(t)
  \/ t \in Client /\ (Put(t) \/ PutDone(t) \/ Return(t))
  \/ t \in Worker /\ (Get(t) \/ GetDone(t) \/ Handle(t) \/ Reply(t))

Next == (\E c \in Client : Call(c)) \/ (\E t \in Thread : Step(t))

Spec == Init /\ [][Next]_vars

\* The scheduler runs every thread; nothing makes a thread win the spin lock.
FairSpec == Spec /\ \A t \in Thread : WF_vars(Step(t))

-----------------------------------------------------------------------------
\* Types, and the ring is never over-full.
TypeOK ==
  /\ puts \in Nat /\ gets \in Nat /\ calls \in Nat
  /\ puts - gets \in 0..Size
  /\ ring \in [0..(Size - 1) -> Client \cup {None}]
  /\ spin \in Thread \cup {None}
  /\ pc \in [Thread -> {"out", "poll", "test", "lock", "locked", "bump", "wait", "handle", "reply"}]
  /\ seen \in [Thread -> Nat]
  /\ hold \in [Worker -> Client \cup {None}]
  /\ op \in [Client -> [arg : Nat, err : Nat, done : BOOLEAN]]
  /\ sent \in Seq(Nat) /\ taken \in Seq(Nat)

\* Calls leave the queue in the order in which they entered it, each once:
\* none is overwritten in its slot, skipped, or taken by two workers.
FirstInFirstOut ==
  /\ Len(taken) <= Len(sent)
  /\ \A i \in 1..Len(taken) : taken[i] = sent[i]

\* A worker only touches an operation while its call is still waiting: the
\* frame on which op->err and op->done are stored has not been left, and no
\* other worker has the same operation.
FrameAlive ==
  \A w \in Worker : pc[w] \in {"handle", "reply"} =>
    /\ hold[w] \in Client
    /\ pc[hold[w]] = "wait" /\ ~op[hold[w]].done
    /\ \A x \in Worker \ {w} : pc[x] \in {"handle", "reply"} => hold[x] # hold[w]

\* When execute sees done, err is the answer to this call, not to an earlier
\* one of the same thread.
AnswerIsOwn == \A c \in Client : pc[c] = "wait" /\ op[c].done => op[c].err = op[c].arg

\* A call that has entered the queue returns, however the others compete for
\* the lock: a worker that wants it only loses it to threads that then wait
\* themselves.
QueuedCallsReturn == \A c \in Client : pc[c] = "wait" ~> pc[c] = "out"
=============================================================================

---------------------------- MODULE OpQueueProofs ----------------------------
(***************************************************************************)
(* Proofs about OpQueue, for any number of FUSE threads and workers, any   *)
(* size of the ring and any number of calls.                               *)
(***************************************************************************)
EXTENDS OpQueue, TLAPS

\* Multiplication by a natural number is monotonic.
LEMMA TimesMonotonic ==
  ASSUME NEW K \in Nat, NEW a \in Nat, NEW b \in Nat, a <= b
  PROVE  a * K <= b * K
<1>1. PICK d \in Nat : b = a + d
  <2>1. b - a \in Nat
    OBVIOUS
  <2> QED
    BY <2>1
<1>2. b * K = a * K + d * K
  BY <1>1
<1>3. d * K \in Nat /\ a * K \in Nat
  OBVIOUS
<1> QED
  BY <1>2, <1>3

\* The operation in the slot of the i-th call.
Queued(i) == ring[i % Size]

InQueue(i) == i \in Nat /\ gets <= i /\ i < puts

\* A worker is between get_op and the end of send_result.
Holds(w) == pc[w] \in {"handle", "reply"}

\* c is waiting for an answer that has not been given.
Waits(c) == c \in Client /\ pc[c] = "wait" /\ ~op[c].done

\* The lock is held by whoever is between lock and unlock.
LockInv == \A t \in Thread : pc[t] \in {"locked", "bump"} => spin = t

\* The calls in the queue wait for their answers, each in one slot.
QueueInv ==
  /\ \A i : InQueue(i) => Waits(Queued(i))
  /\ \A i, j : InQueue(i) /\ InQueue(j) /\ i # j => Queued(i) # Queued(j)

\* A worker has a waiting call, which is in no slot and with no other worker.
HoldInv ==
  \A w \in Worker : Holds(w) =>
    /\ Waits(hold[w])
    /\ \A i : InQueue(i) => Queued(i) # hold[w]
    /\ \A x \in Worker : Holds(x) /\ x # w => hold[x] # hold[w]

\* What was done with the lock before the counter is increased.
BumpInv ==
  /\ \A c \in Client : pc[c] = "bump" => puts - gets < Size /\ Queued(puts) = c
  /\ \A w \in Worker : pc[w] = "bump" => gets < puts /\ hold[w] = Queued(gets)
  /\ \A c \in Client : pc[c] \in {"poll", "test", "lock", "locked", "bump"} => ~op[c].done

\* What answers and the history of the queue are.
HistoryInv ==
  /\ \A w \in Worker : pc[w] = "reply" => op[hold[w]].err = op[hold[w]].arg
  /\ Len(sent) = puts /\ Len(taken) = gets
  /\ \A i \in 1..gets : taken[i] = sent[i]
  /\ \A i : InQueue(i) => sent[i + 1] = op[Queued(i)].arg

IInv == TypeOK /\ LockInv /\ QueueInv /\ HoldInv /\ BumpInv /\ AnswerIsOwn /\ HistoryInv

-----------------------------------------------------------------------------
\* Two calls that are less than Size apart have different slots.
LEMMA SlotsDiffer ==
  ASSUME NEW a \in Nat, NEW b \in Nat, a < b, b - a < Size
  PROVE  a % Size # b % Size
<1> SUFFICES ASSUME a % Size = b % Size PROVE FALSE
  BY Zenon
<1>1. PICK p \in Nat, q \in Nat, r \in Nat : a = Size * p + r /\ b = Size * q + r
  <2>1. /\ a = Size * (a \div Size) + (a % Size) /\ a \div Size \in Nat /\ a % Size \in Nat
        /\ b = Size * (b \div Size) + (b % Size) /\ b \div Size \in Nat
    BY QueueAssumption
  <2> QED
    BY <2>1, Zenon
<1>2. p * Size = Size * p /\ q * Size = Size * q /\ p * Size \in Nat /\ q * Size \in Nat
  BY QueueAssumption
<1>3. CASE q <= p
  <2>1. q * Size <= p * Size
    BY <1>3, QueueAssumption, TimesMonotonic, Zenon
  <2> QED
    BY <1>1, <1>2, <2>1
<1>4. CASE p + 1 <= q
  <2>1. (p + 1) * Size <= q * Size
    BY <1>4, QueueAssumption, TimesMonotonic
  <2>2. (p + 1) * Size = p * Size + Size
    BY QueueAssumption
  <2> QED
    BY <1>1, <1>2, <2>1, <2>2, QueueAssumption
<1> QED
  BY <1>3, <1>4

\* The places of a thread.
Places == {"out", "poll", "test", "lock", "locked", "bump", "wait", "handle", "reply"}

\* A step moves one thread.
LEMMA OneMoves ==
  ASSUME TypeOK, NEW t \in Thread, NEW from, NEW to \in Places, Goes(t, from, to)
  PROVE  /\ pc' \in [Thread -> Places]
         /\ pc[t] = from
         /\ pc'[t] = to
         /\ \A x \in Thread \ {t} : pc'[x] = pc[x]
BY Zenon DEF Goes, TypeOK, Places

\* Slots are slots.
LEMMA SlotType ==
  ASSUME NEW i \in Nat
  PROVE  i % Size \in 0..(Size - 1)
BY QueueAssumption

\* Poll, Test, Lock and Retry change no operation and no slot.
LEMMA QuietStep ==
  ASSUME IInv, NEW t \in Thread, Poll(t) \/ Test(t) \/ Lock(t) \/ Retry(t)
  PROVE  IInv'
<1>1. PICK from \in {"poll", "test", "lock", "locked"}, to \in {"poll", "test", "lock", "locked"} :
        Goes(t, from, to) /\ (to = "locked" => spin' = t /\ spin = None)
          /\ (to # "locked" => from = "locked" \/ UNCHANGED spin)
          /\ (from = "locked" => spin' = None)
  BY Zenon DEF Poll, Test, Lock, Retry, qvars
<1>2. /\ pc' \in [Thread -> Places]
      /\ pc[t] = from
      /\ pc'[t] = to
      /\ \A x \in Thread \ {t} : pc'[x] = pc[x]
  BY <1>1, OneMoves DEF IInv, Places
<1>3. UNCHANGED <<puts, gets, ring, hold, op, calls, sent, taken>>
  BY Zenon DEF Poll, Test, Lock, Retry, qvars
<1>4. TypeOK'
  <2>1. seen' \in [Thread -> Nat]
    BY Zenon DEF Poll, Test, Lock, Retry, IInv, TypeOK
  <2>2. spin' \in Thread \cup {None}
    BY <1>1, Zenon DEF IInv, TypeOK
  <2> QED
    BY <1>2, <1>3, <2>1, <2>2, Zenon DEF IInv, TypeOK, Places
<1>5. LockInv'
  BY <1>1, <1>2, QueueAssumption DEF IInv, LockInv, Thread
<1>6. QueueInv'
  BY <1>2, <1>3 DEF IInv, QueueInv, InQueue, Queued, Waits, Thread
<1>7. HoldInv'
  BY <1>2, <1>3 DEF IInv, HoldInv, InQueue, Queued, Waits, Holds, Thread
<1>8. BumpInv'
  BY <1>2, <1>3 DEF IInv, BumpInv, Queued, Thread
<1>9. AnswerIsOwn' /\ HistoryInv'
  BY <1>2, <1>3 DEF IInv, AnswerIsOwn, HistoryInv, InQueue, Queued, Thread
<1> QED
  BY <1>4, <1>5, <1>6, <1>7, <1>8, <1>9, Zenon DEF IInv

\* A new call is in no slot and with no worker: its thread was not waiting.
LEMMA CallStep == ASSUME IInv, NEW c \in Client, Call(c) PROVE IInv'
<1>1. /\ pc' \in [Thread -> Places]
      /\ pc[c] = "out"
      /\ pc'[c] = "poll"
      /\ \A x \in Thread \ {c} : pc'[x] = pc[x]
  BY OneMoves, Zenon DEF Call, IInv, Places, Thread
<1>2. UNCHANGED <<puts, gets, ring, spin, hold, seen, sent, taken>>
  BY Zenon DEF Call, qvars
<1>3. /\ op' \in [Client -> [arg : Nat, err : Nat, done : BOOLEAN]]
      /\ ~op'[c].done
      /\ \A x \in Client \ {c} : op'[x] = op[x]
      /\ calls' \in Nat
  <2>1. op \in [Client -> [arg : Nat, err : Nat, done : BOOLEAN]] /\ calls \in Nat
    BY Zenon DEF IInv, TypeOK
  <2>2. PICK r \in [arg : Nat, err : Nat, done : BOOLEAN] :
          r.done = FALSE /\ op' = [op EXCEPT ![c] = r]
    <3>1. op[c].err \in Nat /\ calls + 1 \in Nat
      BY <2>1
    <3>2. op' = [op EXCEPT ![c] = [arg |-> calls + 1, err |-> op[c].err, done |-> FALSE]]
      BY Zenon DEF Call
    <3> QED
      BY <3>1, <3>2, Zenon
  <2>3. op'[c] = r /\ calls' \in Nat
    BY <2>1, <2>2 DEF Call
  <2>4. ~op'[c].done
    BY <2>2, <2>3, Zenon
  <2> QED
    BY <2>1, <2>2, <2>3, <2>4, Zenon
<1>4. TypeOK'
  BY <1>1, <1>2, <1>3, Zenon DEF IInv, TypeOK, Places
<1>5. LockInv'
  BY <1>1, <1>2, Zenon DEF IInv, LockInv
<1>6. QueueInv'
  BY <1>1, <1>2, <1>3 DEF IInv, QueueInv, InQueue, Queued, Waits, Thread
<1>7. HoldInv'
  BY <1>1, <1>2, <1>3, QueueAssumption DEF IInv, HoldInv, InQueue, Queued, Waits, Holds, Thread
<1>8. BumpInv'
  BY <1>1, <1>2, <1>3, QueueAssumption DEF IInv, BumpInv, Queued, Thread
<1>9. AnswerIsOwn'
  BY <1>1, <1>2, <1>3 DEF IInv, AnswerIsOwn, Thread
<1>10. HistoryInv'
  <2>1. \A w \in Worker : pc'[w] = pc[w]
    BY <1>1, QueueAssumption, Zenon DEF Thread
  <2>2. \A w \in Worker : pc[w] = "reply" => hold[w] \in Client \ {c}
    BY <1>1, Zenon DEF IInv, HoldInv, Holds, Waits
  <2>3. \A i : InQueue(i) => Queued(i) \in Client \ {c}
    BY <1>1, Zenon DEF IInv, QueueInv, Waits
  <2>4. \A w \in Worker : pc'[w] = "reply" => op'[hold'[w]].err = op'[hold'[w]].arg
    BY <1>2, <1>3, <2>1, <2>2, Zenon DEF IInv, HistoryInv
  <2>5. \A i : InQueue(i)' => sent'[i + 1] = op'[Queued(i)'].arg
    BY <1>2, <1>3, <2>3 DEF IInv, HistoryInv, InQueue, Queued
  <2>6. /\ Len(sent') = puts' /\ Len(taken') = gets'
        /\ \A i \in 1..gets' : taken'[i] = sent'[i]
    BY <1>2, Zenon DEF IInv, HistoryInv
  <2> QED
    BY <2>4, <2>5, <2>6, Zenon DEF HistoryInv
<1> QED
  BY <1>4, <1>5, <1>6, <1>7, <1>8, <1>9, <1>10, Zenon DEF IInv

\* The slot that execute fills is none of those in use: the queue is not full,
\* and it is the only thread that has the lock.
LEMMA PutStep == ASSUME IInv, NEW c \in Client, Put(c) PROVE IInv'
<1>1. /\ pc' \in [Thread -> Places]
      /\ pc[c] = "locked"
      /\ pc'[c] = "bump"
      /\ \A x \in Thread \ {c} : pc'[x] = pc[x]
  BY OneMoves, Zenon DEF Put, IInv, Places, Thread
<1>2. UNCHANGED <<puts, gets, spin, hold, op, calls, seen, sent, taken>>
  BY Zenon DEF Put
<1>3. puts \in Nat /\ gets \in Nat /\ puts - gets < Size /\ puts - gets >= 0
  BY QueueAssumption DEF Put, MustWait, IInv, TypeOK
<1>4. ring' = [ring EXCEPT ![puts % Size] = c] /\ ring \in [0..(Size - 1) -> Client \cup {None}]
  BY Zenon DEF Put, IInv, TypeOK
<1>5. ring'[puts % Size] = c
  BY <1>3, <1>4, SlotType, Zenon
<1>6. ASSUME NEW i, InQueue(i) PROVE ring'[i % Size] = ring[i % Size]
  <2>1. i \in Nat /\ i < puts /\ puts - i < Size
    BY <1>3, <1>6, QueueAssumption DEF InQueue
  <2>2. i % Size # puts % Size
    BY <1>3, <2>1, SlotsDiffer, Zenon
  <2>3. i % Size \in 0..(Size - 1)
    BY <2>1, SlotType, Zenon
  <2> QED
    BY <1>4, <2>2, <2>3, Zenon
<1>7. \A i : InQueue(i)' <=> InQueue(i)
  BY <1>2, Zenon DEF InQueue
<1>8. \A i : InQueue(i) => Queued(i)' = Queued(i)
  BY <1>6, Zenon DEF Queued
<1>9. \A x \in Thread \ {c} : pc[x] \notin {"locked", "bump"}
  BY <1>1, Zenon DEF IInv, LockInv, Thread
<1>10. TypeOK'
  BY <1>1, <1>2, <1>3, <1>4, SlotType, Zenon DEF IInv, TypeOK, Places
<1>11. LockInv'
  BY <1>1, <1>2, Zenon DEF IInv, LockInv
<1>12. QueueInv'
  BY <1>1, <1>2, <1>7, <1>8 DEF IInv, QueueInv, Waits, Thread
<1>13. HoldInv'
  BY <1>1, <1>2, <1>7, <1>8, QueueAssumption DEF IInv, HoldInv, Waits, Holds, Thread
<1>14. BumpInv'
  BY <1>1, <1>2, <1>3, <1>5, <1>9, QueueAssumption DEF IInv, BumpInv, Queued, Thread
<1>15. AnswerIsOwn'
  BY <1>1, <1>2, Zenon DEF IInv, AnswerIsOwn, Thread
<1>16. HistoryInv'
  <2>1. \A w \in Worker : pc'[w] = pc[w]
    BY <1>1, QueueAssumption, Zenon DEF Thread
  <2> QED
    BY <2>1, <1>2, <1>7, <1>8 DEF IInv, HistoryInv
<1> QED
  BY <1>10, <1>11, <1>12, <1>13, <1>14, <1>15, <1>16, Zenon DEF IInv

\* The call enters the queue: no other call there or with a worker is of the
\* same thread, for those are waiting already.
LEMMA PutDoneStep == ASSUME IInv, NEW c \in Client, PutDone(c) PROVE IInv'
<1>1. /\ pc' \in [Thread -> Places]
      /\ pc[c] = "bump"
      /\ pc'[c] = "wait"
      /\ \A x \in Thread \ {c} : pc'[x] = pc[x]
  BY OneMoves, Zenon DEF PutDone, IInv, Places, Thread
<1>2. UNCHANGED <<gets, ring, hold, op, calls, seen, taken>>
  BY Zenon DEF PutDone
<1>3. puts \in Nat /\ gets \in Nat /\ puts - gets < Size /\ puts - gets >= 0
  BY <1>1 DEF IInv, TypeOK, BumpInv
<1>4. puts' = puts + 1 /\ spin' = None /\ sent' = Append(sent, op[c].arg)
  BY Zenon DEF PutDone
<1>5. Queued(puts) = c /\ ~op[c].done
  BY <1>1, Zenon DEF IInv, BumpInv
<1>6. \A i : InQueue(i)' <=> (InQueue(i) \/ i = puts)
  BY <1>2, <1>3, <1>4 DEF InQueue
<1>7. \A i : Queued(i)' = Queued(i)
  BY <1>2, Zenon DEF Queued
<1>8. \A x \in Thread \ {c} : pc[x] \notin {"locked", "bump"}
  BY <1>1, Zenon DEF IInv, LockInv, Thread
<1>9. /\ \A i : InQueue(i) => Queued(i) \in Client \ {c}
      /\ \A w \in Worker : Holds(w) => hold[w] \in Client \ {c}
  BY <1>1, Zenon DEF IInv, QueueInv, HoldInv, Waits
<1>10. op[c].arg \in Nat /\ sent \in Seq(Nat) /\ taken \in Seq(Nat)
  BY Zenon DEF IInv, TypeOK
<1>11. TypeOK'
  <2>1. puts' - gets' \in 0..Size
    BY <1>2, <1>3, <1>4, QueueAssumption
  <2> QED
    BY <2>1, <1>1, <1>2, <1>3, <1>4, <1>10 DEF IInv, TypeOK, Places
<1>12. LockInv'
  BY <1>1, <1>8, Zenon DEF LockInv
<1>13. QueueInv'
  BY <1>1, <1>2, <1>5, <1>6, <1>7, <1>9, Zenon DEF IInv, QueueInv, Waits, Thread
<1>14. HoldInv'
  BY <1>1, <1>2, <1>5, <1>6, <1>7, <1>9, QueueAssumption DEF IInv, HoldInv, Waits, Holds, Thread
<1>15. BumpInv'
  BY <1>1, <1>2, <1>8, QueueAssumption, Zenon DEF IInv, BumpInv, Thread
<1>16. AnswerIsOwn'
  BY <1>1, <1>2, <1>5, Zenon DEF IInv, AnswerIsOwn, Thread
<1>17. HistoryInv'
  <2>1. \A w \in Worker : pc'[w] = pc[w]
    BY <1>1, QueueAssumption, Zenon DEF Thread
  <2>2. Len(sent) = puts /\ Len(taken) = gets
    BY Zenon DEF IInv, HistoryInv
  <2>3. Len(sent') = puts' /\ sent'[puts + 1] = op[c].arg
    <3>1. PICK a : a = op[c].arg /\ a \in Nat
      BY <1>10, Zenon
    <3>2. sent' = Append(sent, a)
      BY <1>4, <3>1, Zenon
    <3>3. Len(sent') = Len(sent) + 1 /\ sent'[Len(sent) + 1] = a
      BY <1>10, <3>1, <3>2
    <3> QED
      BY <1>4, <2>2, <3>1, <3>3, Zenon
  <2>4. \A i \in 1..puts : sent'[i] = sent[i]
    BY <1>4, <1>10, <2>2
  <2>5. \A i : InQueue(i) => i + 1 \in 1..puts
    BY <1>3 DEF InQueue
  <2>6. \A i \in 1..gets : i \in 1..puts
    BY <1>3
  <2> QED
    BY <1>2, <1>5, <1>6, <1>7, <2>1, <2>2, <2>3, <2>4, <2>5, <2>6 DEF IInv, HistoryInv
<1> QED
  BY <1>11, <1>12, <1>13, <1>14, <1>15, <1>16, <1>17, Zenon DEF IInv

\* A thread that leaves execute was waiting with done set, so that its
\* operation is in no slot and with no worker.
LEMMA ReturnStep == ASSUME IInv, NEW c \in Client, Return(c) PROVE IInv'
<1>1. /\ pc' \in [Thread -> Places]
      /\ pc[c] = "wait"
      /\ pc'[c] = "out"
      /\ \A x \in Thread \ {c} : pc'[x] = pc[x]
  BY OneMoves, Zenon DEF Return, IInv, Places, Thread
<1>2. UNCHANGED <<puts, gets, ring, spin, hold, op, calls, seen, sent, taken>>
  BY Zenon DEF Return, qvars
<1>3. op[c].done
  BY Zenon DEF Return
<1>4. \A w \in Worker : pc'[w] = pc[w]
  BY <1>1, QueueAssumption, Zenon DEF Thread
<1>5. TypeOK' /\ LockInv'
  BY <1>1, <1>2, Zenon DEF IInv, TypeOK, Places, LockInv
<1>6. QueueInv'
  BY <1>1, <1>2, <1>3 DEF IInv, QueueInv, InQueue, Queued, Waits, Thread
<1>7. HoldInv'
  BY <1>1, <1>2, <1>3, <1>4 DEF IInv, HoldInv, InQueue, Queued, Waits, Holds, Thread
<1>8. BumpInv'
  BY <1>1, <1>2, <1>4 DEF IInv, BumpInv, Queued, Thread
<1>9. AnswerIsOwn' /\ HistoryInv'
  BY <1>1, <1>2, <1>4 DEF IInv, AnswerIsOwn, HistoryInv, InQueue, Queued, Thread
<1> QED
  BY <1>5, <1>6, <1>7, <1>8, <1>9, Zenon DEF IInv

\* A worker reads the oldest slot.
LEMMA GetStep == ASSUME IInv, NEW w \in Worker, Get(w) PROVE IInv'
<1>1. /\ pc' \in [Thread -> Places]
      /\ pc[w] = "locked"
      /\ pc'[w] = "bump"
      /\ \A x \in Thread \ {w} : pc'[x] = pc[x]
  BY OneMoves, Zenon DEF Get, IInv, Places, Thread
<1>2. UNCHANGED <<puts, gets, ring, spin, op, calls, seen, sent, taken>>
  BY Zenon DEF Get, qvars
<1>3. puts \in Nat /\ gets \in Nat /\ gets < puts
  BY QueueAssumption DEF IInv, TypeOK, Get, MustWait
<1>4. /\ hold' \in [Worker -> Client \cup {None}]
      /\ hold'[w] = Queued(gets)
      /\ \A x \in Worker \ {w} : hold'[x] = hold[x]
  <2>1. ring[gets % Size] \in Client \cup {None}
    BY <1>3, SlotType, Zenon DEF IInv, TypeOK
  <2> QED
    BY <2>1, Zenon DEF Get, Queued, IInv, TypeOK
<1>5. ~Holds(w) /\ ~Holds(w)' /\ \A x \in Worker \ {w} : Holds(x)' <=> Holds(x)
  BY <1>1, Zenon DEF Holds, Thread
<1>6. \A c \in Client : pc'[c] = pc[c]
  BY <1>1, QueueAssumption, Zenon DEF Thread
<1>7. TypeOK' /\ LockInv'
  BY <1>1, <1>2, <1>4, Zenon DEF IInv, TypeOK, Places, LockInv
<1>8. QueueInv'
  BY <1>2, <1>6, Zenon DEF IInv, QueueInv, InQueue, Queued, Waits
<1>9. HoldInv'
  BY <1>2, <1>4, <1>5, <1>6 DEF IInv, HoldInv, InQueue, Queued, Waits
<1>10. BumpInv'
  BY <1>1, <1>2, <1>3, <1>4, <1>6 DEF IInv, BumpInv, Queued, Thread
<1>11. AnswerIsOwn' /\ HistoryInv'
  BY <1>1, <1>2, <1>4, <1>6 DEF IInv, AnswerIsOwn, HistoryInv, InQueue, Queued, Thread
<1> QED
  BY <1>7, <1>8, <1>9, <1>10, <1>11, Zenon DEF IInv

\* The oldest call passes from its slot to the worker.
LEMMA GetDoneStep == ASSUME IInv, NEW w \in Worker, GetDone(w) PROVE IInv'
<1>1. /\ pc' \in [Thread -> Places]
      /\ pc[w] = "bump"
      /\ pc'[w] = "handle"
      /\ \A x \in Thread \ {w} : pc'[x] = pc[x]
  BY OneMoves, Zenon DEF GetDone, IInv, Places, Thread
<1>2. UNCHANGED <<puts, ring, hold, op, calls, seen, sent>>
  BY Zenon DEF GetDone
<1>3. puts \in Nat /\ gets \in Nat /\ gets < puts /\ puts - gets <= Size
  BY <1>1 DEF IInv, TypeOK, BumpInv
<1>4. gets' = gets + 1 /\ spin' = None /\ taken' = Append(taken, op[hold[w]].arg)
  BY Zenon DEF GetDone
<1>5. \A i : InQueue(i)' <=> (InQueue(i) /\ i # gets)
  BY <1>2, <1>3, <1>4 DEF InQueue
<1>6. InQueue(gets) /\ hold[w] = Queued(gets) /\ Waits(hold[w])
  BY <1>1, <1>3 DEF IInv, InQueue, BumpInv, QueueInv
<1>7. /\ \A i : Queued(i)' = Queued(i)
      /\ \A c \in Client : pc'[c] = pc[c]
      /\ \A i : Waits(i)' <=> Waits(i)
  <2>1. \A c \in Client : pc'[c] = pc[c]
    BY <1>1, QueueAssumption, Zenon DEF Thread
  <2> QED
    BY <2>1, <1>2, Zenon DEF Queued, Waits
<1>8. \A x \in Thread \ {w} : pc[x] \notin {"locked", "bump"}
  BY <1>1, Zenon DEF IInv, LockInv, Thread
<1>9. \A x \in Worker : Holds(x)' <=> (Holds(x) \/ x = w)
  BY <1>1, Zenon DEF Holds, Thread
<1>10. PICK a \in Nat : a = op[hold[w]].arg /\ taken' = Append(taken, a)
  BY <1>4, <1>6, Zenon DEF IInv, TypeOK, Waits
<1>11. taken \in Seq(Nat) /\ Len(taken) = gets
  BY Zenon DEF IInv, TypeOK, HistoryInv
<1>12. /\ taken' \in Seq(Nat) /\ Len(taken') = gets + 1
       /\ taken'[gets + 1] = a /\ \A i \in 1..gets : taken'[i] = taken[i]
  BY <1>3, <1>10, <1>11
<1>13. TypeOK'
  <2>1. puts' - gets' \in 0..Size
    BY <1>2, <1>3, <1>4, QueueAssumption
  <2> QED
    BY <2>1, <1>1, <1>2, <1>3, <1>4, <1>12 DEF IInv, TypeOK, Places
<1>14. LockInv'
  BY <1>1, <1>8, Zenon DEF LockInv
<1>15. QueueInv'
  BY <1>5, <1>7, Zenon DEF IInv, QueueInv
<1>16. HoldInv'
  <2>1. \A i : InQueue(i)' => Queued(i) # hold[w]
    BY <1>5, <1>6, Zenon DEF IInv, QueueInv
  <2>2. \A x \in Worker : Holds(x) => hold[x] # hold[w]
    BY <1>6, Zenon DEF IInv, HoldInv
  <2> QED
    BY <1>2, <1>5, <1>6, <1>7, <1>9, <2>1, <2>2, Zenon DEF IInv, HoldInv
<1>17. BumpInv'
  BY <1>1, <1>2, <1>7, <1>8, QueueAssumption, Zenon DEF IInv, BumpInv, Thread
<1>18. AnswerIsOwn'
  BY <1>2, <1>7, Zenon DEF IInv, AnswerIsOwn
<1>19. HistoryInv'
  <2>1. \A x \in Worker : pc'[x] = "reply" => pc[x] = "reply"
    BY <1>1, Zenon DEF Thread
  <2>2. sent[gets + 1] = a
    BY <1>6, <1>10 DEF IInv, HistoryInv
  <2>3. \A i \in 1..(gets + 1) : taken'[i] = sent[i]
    BY <1>3, <1>12, <2>2 DEF IInv, HistoryInv
  <2> QED
    BY <1>2, <1>4, <1>5, <1>7, <1>12, <2>1, <2>3, Zenon DEF IInv, HistoryInv
<1> QED
  BY <1>13, <1>14, <1>15, <1>16, <1>17, <1>18, <1>19, Zenon DEF IInv

\* The worker stores the answer in its own operation.
LEMMA HandleStep == ASSUME IInv, NEW w \in Worker, Handle(w) PROVE IInv'
<1>1. /\ pc' \in [Thread -> Places]
      /\ pc[w] = "handle"
      /\ pc'[w] = "reply"
      /\ \A x \in Thread \ {w} : pc'[x] = pc[x]
  BY OneMoves, Zenon DEF Handle, IInv, Places, Thread
<1>2. UNCHANGED <<puts, gets, ring, spin, hold, calls, seen, sent, taken>>
  BY Zenon DEF Handle, qvars
<1>3. PICK c : c = hold[w] /\ Waits(c) /\ \A x \in Worker \ {w} : Holds(x) => hold[x] # c
  BY <1>1 DEF IInv, HoldInv, Holds
<1>4. c \in Client /\ op \in [Client -> [arg : Nat, err : Nat, done : BOOLEAN]]
  BY <1>3, Zenon DEF IInv, TypeOK, Waits
<1>5. op' = [op EXCEPT ![c].err = op[c].arg]
  BY <1>3, Zenon DEF Handle
<1>6. /\ op' \in [Client -> [arg : Nat, err : Nat, done : BOOLEAN]]
      /\ op'[c].err = op[c].arg
      /\ \A x \in Client : op'[x].arg = op[x].arg /\ op'[x].done = op[x].done
      /\ \A x \in Client \ {c} : op'[x] = op[x]
  BY <1>4, <1>5, Zenon
<1>7. \A x \in Client : pc'[x] = pc[x]
  BY <1>1, QueueAssumption, Zenon DEF Thread
<1>8. \A x : Waits(x)' <=> Waits(x)
  BY <1>6, <1>7, Zenon DEF Waits
<1>9. \A x \in Worker : Holds(x)' <=> Holds(x)
  BY <1>1, Zenon DEF Holds, Thread
<1>10. TypeOK' /\ LockInv'
  BY <1>1, <1>2, <1>6, Zenon DEF IInv, TypeOK, Places, LockInv
<1>11. QueueInv' /\ HoldInv'
  BY <1>2, <1>8, <1>9, Zenon DEF IInv, QueueInv, HoldInv, InQueue, Queued
<1>12. BumpInv'
  BY <1>1, <1>2, <1>6, <1>7 DEF IInv, BumpInv, Queued, Thread
<1>13. AnswerIsOwn'
  BY <1>3, <1>6, <1>7 DEF IInv, AnswerIsOwn, Waits
<1>14. HistoryInv'
  <2>1. \A x \in Worker : pc'[x] = "reply" => op'[hold[x]].err = op'[hold[x]].arg
    <3> SUFFICES ASSUME NEW x \in Worker, pc'[x] = "reply"
                 PROVE  op'[hold[x]].err = op'[hold[x]].arg
      BY Zenon
    <3>1. CASE x = w
      BY <3>1, <1>3, <1>4, <1>6, Zenon
    <3>2. CASE x # w
      <4>1. pc[x] = "reply" /\ Holds(x)
        BY <3>2, <1>1, Zenon DEF Thread, Holds
      <4>2. hold[x] \in Client \ {c}
        BY <3>2, <4>1, <1>3, Zenon DEF IInv, HoldInv, Waits
      <4> QED
        BY <4>1, <4>2, <1>6, Zenon DEF IInv, HistoryInv
    <3> QED
      BY <3>1, <3>2, Zenon
  <2>2. \A i : InQueue(i) => op'[Queued(i)].arg = op[Queued(i)].arg
    BY <1>6, Zenon DEF IInv, QueueInv, Waits
  <2> QED
    BY <1>2, <2>1, <2>2 DEF IInv, HistoryInv, InQueue, Queued
<1> QED
  BY <1>10, <1>11, <1>12, <1>13, <1>14, Zenon DEF IInv

\* The worker sets done last, and has no operation after that.
LEMMA ReplyStep == ASSUME IInv, NEW w \in Worker, Reply(w) PROVE IInv'
<1>1. /\ pc' \in [Thread -> Places]
      /\ pc[w] = "reply"
      /\ pc'[w] = "poll"
      /\ \A x \in Thread \ {w} : pc'[x] = pc[x]
  BY OneMoves, Zenon DEF Reply, IInv, Places, Thread
<1>2. UNCHANGED <<puts, gets, ring, spin, calls, seen, sent, taken>>
  BY Zenon DEF Reply, qvars
<1>3. PICK c : /\ c = hold[w] /\ Waits(c)
               /\ \A x \in Worker \ {w} : Holds(x) => hold[x] # c
               /\ \A i : InQueue(i) => Queued(i) # c
  BY <1>1, Zenon DEF IInv, HoldInv, Holds
<1>4. c \in Client /\ op \in [Client -> [arg : Nat, err : Nat, done : BOOLEAN]]
  BY <1>3, Zenon DEF IInv, TypeOK, Waits
<1>5. op' = [op EXCEPT ![c].done = TRUE]
  BY <1>3, Zenon DEF Reply
<1>6. /\ op' \in [Client -> [arg : Nat, err : Nat, done : BOOLEAN]]
      /\ \A x \in Client : op'[x].arg = op[x].arg /\ op'[x].err = op[x].err
      /\ \A x \in Client \ {c} : op'[x] = op[x]
  BY <1>4, <1>5, Zenon
<1>7. /\ hold' \in [Worker -> Client \cup {None}]
      /\ \A x \in Worker \ {w} : hold'[x] = hold[x]
  BY Zenon DEF Reply, IInv, TypeOK
<1>8. \A x \in Client : pc'[x] = pc[x]
  BY <1>1, QueueAssumption, Zenon DEF Thread
<1>9. \A x : x # c => (Waits(x)' <=> Waits(x))
  BY <1>6, <1>8, Zenon DEF Waits
<1>10. ~Holds(w)' /\ \A x \in Worker \ {w} : Holds(x)' <=> Holds(x)
  BY <1>1, Zenon DEF Holds, Thread
<1>11. TypeOK' /\ LockInv'
  BY <1>1, <1>2, <1>6, <1>7, Zenon DEF IInv, TypeOK, Places, LockInv
<1>12. QueueInv'
  BY <1>2, <1>3, <1>9, Zenon DEF IInv, QueueInv, InQueue, Queued
<1>13. HoldInv'
  BY <1>2, <1>3, <1>7, <1>9, <1>10, Zenon DEF IInv, HoldInv, InQueue, Queued
<1>14. BumpInv'
  BY <1>1, <1>2, <1>3, <1>6, <1>7, <1>8 DEF IInv, BumpInv, Queued, Thread, Waits
<1>15. AnswerIsOwn'
  <2> SUFFICES ASSUME NEW x \in Client, pc'[x] = "wait", op'[x].done
               PROVE  op'[x].err = op'[x].arg
    BY Zenon DEF AnswerIsOwn
  <2>1. op'[x].arg = op[x].arg /\ op'[x].err = op[x].err /\ pc[x] = "wait"
    BY <1>6, <1>8, Zenon
  <2>2. op[c].err = op[c].arg
    BY <1>1, <1>3, Zenon DEF IInv, HistoryInv
  <2>3. CASE x = c
    BY <2>1, <2>2, <2>3, Zenon
  <2>4. CASE x # c
    <3>1. op[x].done
      BY <1>6, <2>4, Zenon
    <3> QED
      BY <2>1, <3>1, Zenon DEF IInv, AnswerIsOwn
  <2> QED
    BY <2>3, <2>4, Zenon
<1>16. HistoryInv'
  <2>1. \A x \in Worker : pc'[x] = "reply" =>
          x # w /\ pc[x] = "reply" /\ hold[x] \in Client
    BY <1>1, Zenon DEF Thread, IInv, HoldInv, Holds, Waits
  <2>2. \A i : InQueue(i) => op'[Queued(i)].arg = op[Queued(i)].arg
    BY <1>6, Zenon DEF IInv, QueueInv, Waits
  <2>3. ASSUME NEW x \in Worker, pc'[x] = "reply"
        PROVE  op'[hold'[x]].err = op'[hold'[x]].arg
    <3>1. x # w /\ pc[x] = "reply" /\ hold[x] \in Client /\ hold'[x] = hold[x]
      BY <2>1, <2>3, <1>7, Zenon
    <3>2. op[hold[x]].err = op[hold[x]].arg
      BY <3>1, Zenon DEF IInv, HistoryInv
    <3> QED
      BY <3>1, <3>2, <1>6, Zenon
  <2>4. \A i : InQueue(i)' => InQueue(i) /\ Queued(i)' = Queued(i)
    BY <1>2, Zenon DEF InQueue, Queued
  <2>5. ASSUME NEW i, InQueue(i)'
        PROVE  sent'[i + 1] = op'[Queued(i)'].arg
    <3>1. InQueue(i) /\ Queued(i)' = Queued(i) /\ sent' = sent
      BY <1>2, <2>4, <2>5, Zenon
    <3>2. op'[Queued(i)].arg = op[Queued(i)].arg
      BY <2>2, <3>1, Zenon
    <3>3. sent[i + 1] = op[Queued(i)].arg
      BY <3>1, Zenon DEF IInv, HistoryInv
    <3> QED
      BY <3>1, <3>2, <3>3, Zenon
  <2>6. /\ Len(sent') = puts' /\ Len(taken') = gets'
        /\ \A i \in 1..gets' : taken'[i] = sent'[i]
    BY <1>2, Zenon DEF IInv, HistoryInv
  <2> QED
    BY <2>3, <2>5, <2>6, Zenon DEF HistoryInv
<1> QED
  BY <1>11, <1>12, <1>13, <1>14, <1>15, <1>16, Zenon DEF IInv

-----------------------------------------------------------------------------
\* An empty queue, threads outside execute and workers outside get_op.
LEMMA InitInv == Init => IInv
<1> SUFFICES ASSUME Init PROVE IInv
  BY Zenon
<1>1. /\ puts = 0 /\ gets = 0 /\ spin = None /\ sent = <<>> /\ taken = <<>>
      /\ \A c \in Client : pc[c] = "out" /\ op[c].done = FALSE
      /\ \A w \in Worker : pc[w] = "poll"
  BY QueueAssumption, Zenon DEF Init, Thread
<1>2. TypeOK
  <2>1. op \in [Client -> [arg : Nat, err : Nat, done : BOOLEAN]]
    BY Zenon DEF Init
  <2>2. puts - gets \in 0..Size
    BY <1>1, QueueAssumption
  <2>3. sent \in Seq(Nat) /\ taken \in Seq(Nat)
    BY <1>1
  <2>4. pc \in [Thread -> Places]
    BY Zenon DEF Init, Places
  <2> QED
    BY <2>1, <2>2, <2>3, <2>4, Zenon DEF Init, TypeOK, Places
<1>3. \A i : ~InQueue(i)
  BY <1>1 DEF InQueue
<1>4. LockInv /\ QueueInv /\ HoldInv /\ BumpInv /\ AnswerIsOwn
  BY <1>1, <1>3, Zenon DEF LockInv, QueueInv, HoldInv, Holds, BumpInv, AnswerIsOwn, Thread
<1>5. HistoryInv
  BY <1>1, <1>3, Zenon DEF HistoryInv
<1> QED
  BY <1>2, <1>4, <1>5, Zenon DEF IInv

\* Every step of a thread of either kind keeps the invariant.
LEMMA NextInv == IInv /\ [Next]_vars => IInv'
<1> SUFFICES ASSUME IInv, [Next]_vars PROVE IInv'
  BY Zenon
<1>1. CASE \E c \in Client : Call(c)
  BY <1>1, CallStep, Zenon
<1>2. ASSUME NEW t \in Thread, Step(t) PROVE IInv'
  <2>1. CASE Poll(t) \/ Test(t) \/ Lock(t) \/ Retry(t)
    BY <2>1, QuietStep, Zenon
  <2>2. CASE t \in Client /\ Put(t)
    BY <2>2, PutStep, Zenon
  <2>3. CASE t \in Client /\ PutDone(t)
    BY <2>3, PutDoneStep, Zenon
  <2>4. CASE t \in Client /\ Return(t)
    BY <2>4, ReturnStep, Zenon
  <2>5. CASE t \in Worker /\ Get(t)
    BY <2>5, GetStep, Zenon
  <2>6. CASE t \in Worker /\ GetDone(t)
    BY <2>6, GetDoneStep, Zenon
  <2>7. CASE t \in Worker /\ Handle(t)
    BY <2>7, HandleStep, Zenon
  <2>8. CASE t \in Worker /\ Reply(t)
    BY <2>8, ReplyStep, Zenon
  <2> QED
    BY <1>2, <2>1, <2>2, <2>3, <2>4, <2>5, <2>6, <2>7, <2>8, Zenon DEF Step
<1>3. CASE UNCHANGED vars
  <2>1. TypeOK' /\ LockInv' /\ AnswerIsOwn'
    BY <1>3, Zenon DEF vars, IInv, TypeOK, LockInv, AnswerIsOwn
  <2>2. QueueInv' /\ HoldInv'
    BY <1>3, Zenon DEF vars, IInv, QueueInv, HoldInv, InQueue, Queued, Waits, Holds
  <2>3. BumpInv' /\ HistoryInv'
    BY <1>3, Zenon DEF vars, IInv, BumpInv, HistoryInv, InQueue, Queued
  <2> QED
    BY <2>1, <2>2, <2>3, Zenon DEF IInv
<1> QED
  BY <1>1, <1>2, <1>3, Zenon DEF Next

\* The inductive invariant of the queue of opqueue.c.
THEOREM QueueInductive == Spec => []IInv
BY InitInv, NextInv, PTL DEF Spec

\* The counters of opqueue.c stay within QUEUE_MAX_SIZE of each other, and a
\* worker only ever has an operation or none.
THEOREM QueueTypeCorrect == Spec => []TypeOK
<1>1. IInv => TypeOK
  BY Zenon DEF IInv
<1> QED
  BY <1>1, QueueInductive, PTL

\* get_op returns the operations that execute put, in that order, each once.
THEOREM QueueIsFifo == Spec => []FirstInFirstOut
<1>1. IInv => FirstInFirstOut
  <2> SUFFICES ASSUME IInv PROVE FirstInFirstOut
    BY Zenon
  <2>1. puts \in Nat /\ gets \in Nat /\ gets <= puts /\ Len(sent) = puts /\ Len(taken) = gets
    BY DEF IInv, TypeOK, HistoryInv
  <2> QED
    BY <2>1, Zenon DEF IInv, HistoryInv, FirstInFirstOut
<1> QED
  BY <1>1, QueueInductive, PTL

\* send_result stores into a frame that execute has not left, and into one
\* that no other worker has.
THEOREM FramesStayAlive == Spec => []FrameAlive
<1>1. IInv => FrameAlive
  BY Zenon DEF IInv, HoldInv, Holds, Waits, FrameAlive
<1> QED
  BY <1>1, QueueInductive, PTL

\* The err that execute returns was stored for this call.
THEOREM AnswersAreOwn == Spec => []AnswerIsOwn
<1>1. IInv => AnswerIsOwn
  BY Zenon DEF IInv
<1> QED
  BY <1>1, QueueInductive, PTL
=============================================================================

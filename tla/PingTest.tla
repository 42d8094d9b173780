------------------------------- MODULE PingTest -------------------------------
(***************************************************************************)
(* Two threads that pass a counter back and forth and time it: pingtest.c  *)
(* with a mutex and one condition variable, spintest.c with a spin lock    *)
(* and unlocked reads.  What a thread does from taking the mutex to        *)
(* waiting or unlocking is one step.  A time stamp is the request it was   *)
(* taken for.                                                              *)
(***************************************************************************)
EXTENDS Naturals

CONSTANT M      \* an int has M values

VARIABLES pc1, pc2,
          asleep,             \* the threads in pthread_cond_wait
          request, reply,
          myreq, myreply,     \* locals of thr1 and thr2
          t1, t2, t3,
          garbage,            \* what myreply, which is not initialised, held
          running             \* main has not returned

vars == <<pc1, pc2, asleep, request, reply, myreq, myreply, t1, t2, t3, garbage, running>>

Init ==
  /\ pc1 = "ask" /\ pc2 = "poll" /\ asleep = {} /\ running = TRUE
  /\ request = 0 /\ reply = 0 /\ myreq = 0 /\ t1 = 0 /\ t2 = 0 /\ t3 = 0
  /\ garbage \in 0 .. M - 1 /\ myreply = garbage

\* main sleeps for a second, and the threads end with it.
Exit == running' = FALSE /\ UNCHANGED <<pc1, pc2, asleep, request, reply, myreq, myreply, t1, t2, t3, garbage>>

\* thr1: the next request, with its time.
Increment ==
  LET r == (request + 1) % M IN request' = r /\ myreq' = r /\ t1' = r

\* thr1 prints t2 - t1, t3 - t2 and t4 - t3.
Printf ==
  /\ pc1 = "print" /\ pc1' = "ask"
  /\ UNCHANGED <<pc2, asleep, request, reply, myreq, myreply, t1, t2, t3, garbage, running>>

-----------------------------------------------------------------------------
\* pingtest.c, thr1: request, signal, and the first test of the loop.
Ask ==
  /\ pc1 = "ask" /\ pc1' = "wait"
  /\ Increment
  /\ asleep' = IF reply = myreq' THEN {} ELSE {"thr1"}
  /\ UNCHANGED <<pc2, reply, myreply, t2, t3, garbage, running>>

\* Faulty variant of Wake: the condition is not tested again.
WakeOnce ==
  /\ pc1 = "wait" /\ "thr1" \notin asleep
  /\ pc1' = "print" /\ UNCHANGED asleep
  /\ UNCHANGED <<pc2, request, reply, myreq, myreply, t1, t2, t3, garbage, running>>

\* thr1 wakes up and tests again.
Wake ==
  /\ pc1 = "wait" /\ "thr1" \notin asleep
  /\ IF reply = myreq THEN pc1' = "print" /\ UNCHANGED asleep
                      ELSE UNCHANGED pc1 /\ asleep' = asleep \cup {"thr1"}
  /\ UNCHANGED <<pc2, request, reply, myreq, myreply, t1, t2, t3, garbage, running>>

\* Faulty variant of Answer: thr1 is not woken.
AnswerSilent ==
  /\ "thr2" \notin asleep
  /\ IF request = myreply THEN UNCHANGED <<myreply, reply, t2, t3>>
     ELSE t2' = request /\ myreply' = request /\ reply' = request /\ t3' = request
  /\ asleep' = asleep \cup {"thr2"}
  /\ UNCHANGED <<pc1, pc2, request, myreq, t1, garbage, running>>

\* thr2: an answer, if there is a request, and the next wait.
Answer ==
  /\ "thr2" \notin asleep
  /\ IF request = myreply
       THEN asleep' = asleep \cup {"thr2"} /\ UNCHANGED <<myreply, reply, t2, t3>>
       ELSE /\ t2' = request /\ myreply' = request /\ reply' = request /\ t3' = request
            /\ asleep' = {"thr2"}
  /\ UNCHANGED <<pc1, pc2, request, myreq, t1, garbage, running>>

\* pthread_cond_wait may return without a signal.
Spurious(thr) ==
  /\ thr \in asleep /\ asleep' = asleep \ {thr}
  /\ UNCHANGED <<pc1, pc2, request, reply, myreq, myreply, t1, t2, t3, garbage, running>>

PingThr1 == running /\ (Ask \/ Wake \/ Printf)
PingThr2 == running /\ Answer
PingOther == running /\ (Exit \/ \E thr \in {"thr1", "thr2"} : Spurious(thr))

-----------------------------------------------------------------------------
\* spintest.c: the locks cover the updates only.
SpinAsk ==
  /\ pc1 = "ask" /\ Increment /\ pc1' = "wait"
  /\ UNCHANGED <<pc2, asleep, reply, myreply, t2, t3, garbage, running>>

\* The loops that poll are steps only when they end.
SeeReply ==
  /\ pc1 = "wait" /\ reply = myreq /\ pc1' = "print"
  /\ UNCHANGED <<pc2, asleep, request, reply, myreq, myreply, t1, t2, t3, garbage, running>>

SeeRequest ==
  /\ pc2 = "poll" /\ request # myreply /\ pc2' = "serve" /\ t2' = request
  /\ UNCHANGED <<pc1, asleep, request, reply, myreq, myreply, t1, t3, garbage, running>>

Serve ==
  /\ pc2 = "serve" /\ myreply' = request /\ reply' = request /\ pc2' = "stamp"
  /\ UNCHANGED <<pc1, asleep, request, myreq, t1, t2, t3, garbage, running>>

Stamp ==
  /\ pc2 = "stamp" /\ t3' = myreply /\ pc2' = "poll"
  /\ UNCHANGED <<pc1, asleep, request, reply, myreq, myreply, t1, t2, garbage, running>>

SpinThr1 == running /\ (SpinAsk \/ SeeReply \/ Printf)
SpinThr2 == running /\ (SeeRequest \/ Serve \/ Stamp)
SpinOther == running /\ Exit

-----------------------------------------------------------------------------
\* A request is answered, unless myreply happened to hold the first one.
Answered ==
  (pc1 = "wait" /\ garbage # 1) ~> (pc1 = "print" \/ ~running)

\* What thr1 prints are the times of its request.
TimesOfRequest == pc1 = "print" => t1 = myreq /\ t2 = myreq /\ t3 = myreq

\* Without the mutex t3 may be that of the request before.
TimesUnlocked ==
  pc1 = "print" => /\ t1 = myreq
                   /\ garbage = 0 => t2 = myreq
                   /\ t3 = myreq \/ (t3 + 1) % M = myreq
=============================================================================

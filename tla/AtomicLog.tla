------------------------------ MODULE AtomicLog ------------------------------
(***************************************************************************)
(* What the on-disk log promises to the layers above it (the               *)
(* specifications extend_ok, trunc_ok and recover_ok of DLog): a list of   *)
(* entries that grows by whole calls of extend, is emptied by trunc, and   *)
(* that a crash leaves as it was before or after the call it interrupts.   *)
(***************************************************************************)
EXTENDS Sequences

CONSTANT Logs  \* the lists of entries that extend may be given

VARIABLES log,  \* the entries in the log
          next, \* the entries once the running call is complete
          busy  \* whether a call is running

avars == <<log, next, busy>>

AInit == log = <<>> /\ next = <<>> /\ busy = FALSE

ABegin(l) == ~busy /\ next' = l /\ busy' = TRUE /\ UNCHANGED log

AExtend(ents) == ABegin(log \o ents)

ATrunc == ABegin(<<>>)

AFinish == busy /\ log' = next /\ busy' = FALSE /\ UNCHANGED next

ACrash == log' \in {log, next} /\ next' = log' /\ busy' = FALSE

ANext == (\E ents \in Logs : AExtend(ents)) \/ ATrunc \/ AFinish \/ ACrash

ASpec == AInit /\ [][ANext]_avars
=============================================================================

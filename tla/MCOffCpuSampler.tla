--------------------------- MODULE MCOffCpuSampler ---------------------------
(* OffCpuSampler for TLC: a thread with two user stacks that share a       *)
(* bucket, a second thread and the idle threads.                           *)
EXTENDS OffCpuSampler, TLC

CONSTANTS p0, p1, p2, p3, u1, u2, k1

SomeSamples == {[pid |-> p0, user |-> None, kern |-> k1],
                [pid |-> p1, user |-> u1, kern |-> k1],
                [pid |-> p1, user |-> u2, kern |-> k1],
                [pid |-> p2, user |-> u1, kern |-> k1]}

SomeHash == (u1 :> 1) @@ (u2 :> 1) @@ (k1 :> 2)
=============================================================================

---------------------------- MODULE MCSlaTimers ----------------------------
(* A record that goes in and out of one step with an SLA; the schedulers   *)
(* of two worker processes are interchangeable.                            *)
EXTENDS SlaTimers, TLC

CONSTANTS w1, w2

Symmetry == Permutations(Schedulers)
=============================================================================

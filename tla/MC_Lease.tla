------------------------------- MODULE MC_Lease -------------------------------
(***************************************************************************)
(* Instantiates Lease for TLC: two clients, two writers, time in units of *)
(* kTimeEpsilon (10 ms) with a lease of two units, and the clock cut at *)
(* MaxTime, enough for two writes each outwaiting a lease.                *)
(***************************************************************************)
EXTENDS Lease, TLC

CONSTANTS c1, c2, w1, w2

MCClient == {c1, c2}
MCWriter == {w1, w2}

\* The clock bound: behaviours are explored while now <= MaxTime.
MaxTime == 5
TimeBound == now <= MaxTime

MCSymmetry == Permutations(MCClient) \cup Permutations(MCWriter)
=============================================================================

---------------------------- MODULE MCApplyFlow ----------------------------
(* Instances of ApplyFlow for TLC. *)
EXTENDS ApplyFlow, TLC

\* Nothing in the module orders or distinguishes requests, pairings or rows.
Symmetry == Permutations(Requests) \cup Permutations(Pairings) \cup Permutations(Rows)
=============================================================================

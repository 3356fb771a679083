----------------------------- MODULE MCApplyRows -----------------------------
(* Instances of ApplyRows for TLC. *)
EXTENDS ApplyRows, TLC

CONSTANTS ada, ops, s1, t1

\* All users have the same name, and so have all groups.
SameName == [x \in FabricPrincipals |-> IF x \in Users THEN ada ELSE ops]
OneSchema == t1 :> s1
=============================================================================

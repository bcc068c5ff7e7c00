--------------------------- MODULE MCAuditPolicy ---------------------------
(* A small instance of AuditLog, with pages of at most 3 and of 2 by       *)
(* default, and one of Policy, on the same numerals.  The two do not       *)
(* interact, so a behaviour is of the one or of the other.                 *)
EXTENDS AuditLog, Policy, TLC

MCInit ==
  /\ Init
  /\ \/ environment = None /\ policy = None /\ decided = None
     \/ PolicyInit

MCNext ==
  \/ environment = None /\ Next /\ UNCHANGED policyVars
  \/ environment # None /\ PolicyNext /\ UNCHANGED vars

MCSpec == MCInit /\ [][MCNext]_<<vars, policyVars>>

MCSymmetry == Permutations(Events) \cup Permutations(Resources)
=============================================================================

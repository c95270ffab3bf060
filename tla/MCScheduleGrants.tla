--------------------------- MODULE MCScheduleGrants ---------------------------
(***************************************************************************)
(* Small instances of ScheduleGrants for TLC.                              *)
(***************************************************************************)
EXTENDS ScheduleGrants, TLC

SameKind == Permutations(Requests) \cup Permutations(People)
=============================================================================

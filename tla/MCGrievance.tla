---------------------------- MODULE MCGrievance ----------------------------
(***************************************************************************)
(* Small instances of Grievance.                                           *)
(***************************************************************************)
EXTENDS Grievance
============================================================================

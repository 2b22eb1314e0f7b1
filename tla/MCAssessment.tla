---------------------------- MODULE MCAssessment ----------------------------
(***************************************************************************)
(* Small instances of Assessment.  BureauFirst lists its rails in another  *)
(* order than the tasks, Twice repeats one, and Profile has none.          *)
(***************************************************************************)
EXTENDS Assessment

BureauFirst == <<"BUREAU", "AA">>
Twice == <<"AA", "AA">>
Profile == <<"SHG_FPO">>

AllLists == {BureauFirst, Twice, Profile}

\* So near the end of the scale that the wider intervals are cut.
Values == {90}

Grants == {{"AA", "BUREAU"}, {"AA", "SHG_FPO"}}
=============================================================================

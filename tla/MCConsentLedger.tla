-------------------------- MODULE MCConsentLedger --------------------------
(***************************************************************************)
(* Small instances of ConsentLedger.  Requests are interchangeable.        *)
(***************************************************************************)
EXTENDS ConsentLedger, TLC

Sources == {{"AA"}, {"AA", "BUREAU"}}
OneSourceList == {{"AA"}}
Durations == {1, 3}
ShortDuration == {1}

Symmetry == Permutations(Request)
============================================================================

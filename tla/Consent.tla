------------------------------ MODULE Consent ------------------------------
(***************************************************************************)
(* What the consent service promises the rest of the system, whatever its  *)
(* requests do to one another: a record is granted once, on fixed terms,   *)
(* possibly in the place of others for the same purpose; it is in force    *)
(* until it ends, and once ended it never comes back.                      *)
(*                                                                         *)
(* ConsentLedger implements this; Assessment relies on it.                 *)
(***************************************************************************)
CONSTANTS
    Record,       \* consent records
    Purpose,      \* ConsentPurpose
    SourceSets,   \* the data_sources lists a borrower may grant
    Null          \* no value

VARIABLES
    granted,      \* the records in force
    ended,        \* the records no longer in force
    terms         \* purpose and sources of a record, Null before it is granted

consentVars == <<granted, ended, terms>>

Init ==
    /\ granted = {}
    /\ ended = {}
    /\ terms = [c \in Record |-> Null]

Grant(c) ==
    /\ c \notin granted \cup ended
    /\ \E p \in Purpose, ds \in SourceSets :
          /\ terms' = [terms EXCEPT ![c] = [purpose |-> p, data_sources |-> ds]]
          /\ \E old \in SUBSET {d \in granted : terms[d].purpose = p} :
                /\ granted' = (granted \ old) \cup {c}
                /\ ended' = ended \cup old

End(records) ==
    /\ records # {}
    /\ granted' = granted \ records
    /\ ended' = ended \cup records
    /\ UNCHANGED terms

Next ==
    \/ \E c \in Record : Grant(c)
    \/ \E records \in SUBSET granted : End(records)

Spec == Init /\ [][Next]_consentVars
============================================================================

----------------------------- MODULE MCDatabase -----------------------------
(***************************************************************************)
(* Instances of Database: development, where the API creates what is       *)
(* missing, and production, where it relies on the migration.              *)
(***************************************************************************)
EXTENDS Database, TLC

CONSTANTS a1, a2, reset, again, local, early, save, load

\* A part of the tables that has every kind of them: parents and children,
\* both audit logs, the one the migration has in an older form, and one of the
\* migration between the two audit logs.
SomeTables == <<"fairness_audit_log", "villages", "borrowers",
                "officer_decision_log", "repayment_records",
                "grievance_audit_log">>

\* API processes start as docker-compose.yml starts them; the operator has one
\* run of each script.
Development ==
    (a1 :> <<"migrate", "create", "guard", "serve">>)
    @@ (a2 :> <<"create", "guard", "serve">>)
    @@ (reset :> <<"drop", "create", "guard", "golden">>)
    @@ (again :> <<"golden">>)
    @@ (local :> <<"create", "guard", "local">>)
    @@ (early :> <<"create", "guard", "early">>)
    @@ (save :> <<"backup">>) @@ (load :> <<"restore">>)

Chosen == [p \in Api \cup Script |-> Development[p]]
=============================================================================

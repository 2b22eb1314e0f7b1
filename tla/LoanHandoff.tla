---------------------------- MODULE LoanHandoff ----------------------------
(***************************************************************************)
(* One score on its way to the regulated entities: the officers' decisions *)
(* (services/core/decisioning/service.py), the submission of the loan      *)
(* application (services/core/handoff) and the callback of the entity.     *)
(*                                                                         *)
(* Handlers run in READ COMMITTED sessions: one action per read another    *)
(* request can come between, one for the commit.  A submission posts its   *)
(* package between its INSERT and its commit, so the entity may hold what  *)
(* the database later rolls back.                                          *)
(*                                                                         *)
(* A LoanApplication and a log entry are named by the request that creates *)
(* them.  Override reasons, amounts and decided_at are left out: whichever *)
(* decision an officer takes, some reason makes record_decision accept it. *)
(***************************************************************************)
EXTENDS Naturals

CONSTANTS
    Officer,      \* requests that record a decision on the score
    Submit,       \* requests to submit the score to a partner
    RE,           \* partner regulated entities
    MaxCalls,     \* deliveries of a callback: the first and its retries
    Null          \* no value

OfficerDecision == {"APPROVED", "REJECTED", "MORE_INFO_REQUIRED"}

REDecision == OfficerDecision \cup {"REFERRED"}

ASSUME HandoffAssumption ==
    /\ Null \notin Officer \cup Submit \cup RE \cup REDecision
    /\ Officer \cap Submit = {}
    /\ MaxCalls \in Nat

VARIABLES
    clock,        \* orders transaction starts
    logged,       \* the committed entries of officer_decision_log
    decision,     \* the decision of a log entry
    created_at,   \* its created_at: the start of its transaction
    link,         \* the application record_decision found, with the
                  \* officer_decision it loaded
    partner_re,   \* partner_re_id of a submission
    chosen,       \* the log entry the submission's gate read
    row,          \* officer_decision of a committed LoanApplication, else Null
    received,     \* the packages that reached the entity
    verdict,      \* the entity's decision on a package
    calls,        \* deliveries of its callback begun so far
    loaded,       \* officer_decision as loaded by the callback in progress
    step,         \* how far each request has come
    began         \* what was committed when a submission began (auxiliary)

vars == <<clock, logged, decision, created_at, link, partner_re, chosen, row,
          received, verdict, calls, loaded, step, began>>

officerVars == <<clock, logged, decision, created_at, link>>
submitVars == <<partner_re, chosen, received, began>>
callbackVars == <<verdict, calls, loaded>>

Step == {"idle", "linking", "deciding", "checking", "gating", "sending",
         "committing", "done"}

\* The committed loan applications of the score.
Apps == {s \in Submit : row[s] # Null}

InFlight == {r \in Officer \cup Submit : step[r] \notin {"idle", "done"}}

Goes(r, to) == step' = [step EXCEPT ![r] = to]

Arrives(r) == step[r] = "idle"

----------------------------------------------------------------------------
Init ==
    /\ clock = 1
    /\ logged = {}
    /\ decision = [o \in Officer |-> Null]
    /\ created_at = [o \in Officer |-> 0]
    /\ link = [o \in Officer |-> [app |-> Null, officer_decision |-> Null]]
    /\ partner_re = [s \in Submit |-> Null]
    /\ chosen = [s \in Submit |-> Null]
    /\ row = [s \in Submit |-> Null]
    /\ received = {}
    /\ verdict = [s \in Submit |-> Null]
    /\ calls = [s \in Submit |-> 0]
    /\ loaded = [s \in Submit |-> Null]
    /\ step = [r \in Officer \cup Submit |-> "idle"]
    /\ began = [s \in Submit |-> [logged |-> {}, apps |-> {}]]

(***************************************************************************)
(* record_decision.                                                        *)
(***************************************************************************)
DecideStart(o) ==
    /\ Arrives(o)
    /\ \E d \in OfficerDecision : decision' = [decision EXCEPT ![o] = d]
    /\ created_at' = [created_at EXCEPT ![o] = clock]
    /\ clock' = clock + 1
    /\ Goes(o, "linking")
    /\ UNCHANGED <<logged, link, row, submitVars, callbackVars>>

\* The first application of the score, whichever its entity: the query has
\* no ORDER BY.
FirstApplication == IF Apps = {} THEN {Null} ELSE Apps

DecideLink(o) ==
    /\ step[o] = "linking"
    /\ \E a \in FirstApplication :
          link' = [link EXCEPT ![o] =
                      [app |-> a,
                       officer_decision |-> IF a = Null THEN Null ELSE row[a]]]
    /\ Goes(o, "deciding")
    /\ UNCHANGED <<clock, logged, decision, created_at, row, submitVars,
                   callbackVars>>

\* The ORM updates officer_decision only where the decision differs from the
\* value it had loaded.
DecideCommit(o) ==
    /\ step[o] = "deciding"
    /\ logged' = logged \cup {o}
    /\ row' = [s \in Submit |->
                  IF s = link[o].app /\ decision[o] # link[o].officer_decision
                  THEN decision[o] ELSE row[s]]
    /\ Goes(o, "done")
    /\ UNCHANGED <<clock, decision, created_at, link, submitVars, callbackVars>>

(***************************************************************************)
(* submit_application.                                                     *)
(***************************************************************************)
\* Seeded fault for Existing: only applications that still read APPROVED.
ExistingApproved(re) ==
    {t \in Apps : partner_re[t] = re /\ row[t] = "APPROVED"}

\* _existing_application.
Existing(re) == {t \in Apps : partner_re[t] = re}

\* The router looks for an existing application, for the wording of its
\* answer only.
SubmitStart(s) ==
    /\ Arrives(s)
    /\ \E re \in RE : partner_re' = [partner_re EXCEPT ![s] = re]
    /\ began' = [began EXCEPT ![s] = [logged |-> logged, apps |-> Apps]]
    /\ Goes(s, "checking")
    /\ UNCHANGED <<officerVars, chosen, row, received, callbackVars>>

\* An existing application is returned as it is, and nothing is sent.
SubmitCheck(s) ==
    /\ step[s] = "checking"
    /\ Goes(s, IF Existing(partner_re[s]) # {} THEN "done" ELSE "gating")
    /\ UNCHANGED <<officerVars, row, submitVars, callbackVars>>

\* Seeded fault for LatestDecision: the order of the query reversed.
EarliestDecision ==
    {o \in logged : \A q \in logged : created_at[o] <= created_at[q]}

\* get_latest_decision.
LatestDecision ==
    {o \in logged : \A q \in logged : created_at[q] <= created_at[o]}

\* Seeded fault for Passes: anything but a rejection passes.
PassesUnlessRejected(o) == decision[o] # "REJECTED"

\* The decision gate on the latest entry.
Passes(o) == decision[o] = "APPROVED"

SubmitGate(s) ==
    /\ step[s] = "gating"
    /\ \E o \in LatestDecision :
          /\ Passes(o)
          /\ chosen' = [chosen EXCEPT ![s] = o]
    /\ Goes(s, "sending")
    /\ UNCHANGED <<officerVars, partner_re, row, received, began, callbackVars>>

SubmitRefused(s) ==
    /\ step[s] = "gating"
    /\ \A o \in LatestDecision : ~Passes(o)
    /\ Goes(s, "done")
    /\ UNCHANGED <<officerVars, row, submitVars, callbackVars>>

\* The package is posted.  It arrives or it does not: any failure of the call
\* is logged and taken for success.
SubmitTransmit(s) ==
    /\ step[s] = "sending"
    /\ received' \in {received, received \cup {s}}
    /\ Goes(s, "committing")
    /\ UNCHANGED <<officerVars, partner_re, chosen, row, began, callbackVars>>

SubmitCommit(s) ==
    /\ step[s] = "committing"
    /\ row' = [row EXCEPT ![s] = decision[chosen[s]]]
    /\ Goes(s, "done")
    /\ UNCHANGED <<officerVars, submitVars, callbackVars>>

\* An exception, a lost connection or a crash before the commit.
Abort(r) ==
    /\ r \in InFlight
    /\ Goes(r, "done")
    /\ UNCHANGED <<officerVars, row, submitVars, callbackVars>>

(***************************************************************************)
(* process_decision_webhook.  The entity decides once on a package and     *)
(* delivers its decision until one delivery is answered, at most MaxCalls  *)
(* times; an answer may be lost, so a delivered decision may come again.   *)
(***************************************************************************)
REDecides(s) ==
    /\ s \in received
    /\ verdict[s] = Null
    /\ \E d \in REDecision : verdict' = [verdict EXCEPT ![s] = d]
    /\ UNCHANGED <<officerVars, row, submitVars, calls, loaded, step>>

\* An application that is not committed is answered with 400.
WebhookFind(s) ==
    /\ verdict[s] # Null
    /\ loaded[s] = Null
    /\ calls[s] < MaxCalls
    /\ calls' = [calls EXCEPT ![s] = calls[s] + 1]
    /\ loaded' = [loaded EXCEPT ![s] = row[s]]
    /\ UNCHANGED <<officerVars, row, submitVars, verdict, step>>

\* Seeded fault for WebhookCommit: the decision is cleared when the entity
\* refers the case.
WebhookCommitClears(s) ==
    /\ loaded[s] # Null
    /\ row' = [row EXCEPT ![s] = IF verdict[s] = "REFERRED" THEN "NONE"
                                 ELSE verdict[s]]
    /\ loaded' = [loaded EXCEPT ![s] = Null]
    /\ UNCHANGED <<officerVars, submitVars, verdict, calls, step>>

\* Like a mirror, the update leaves out a decision equal to the one loaded.
WebhookCommit(s) ==
    /\ loaded[s] # Null
    /\ row' = [row EXCEPT ![s] = IF verdict[s] # loaded[s] THEN verdict[s]
                                 ELSE row[s]]
    /\ loaded' = [loaded EXCEPT ![s] = Null]
    /\ UNCHANGED <<officerVars, submitVars, verdict, calls, step>>

WebhookAbort(s) ==
    /\ loaded[s] # Null
    /\ loaded' = [loaded EXCEPT ![s] = Null]
    /\ UNCHANGED <<officerVars, row, submitVars, verdict, calls, step>>

Next ==
    \/ \E o \in Officer : DecideStart(o) \/ DecideLink(o) \/ DecideCommit(o)
    \/ \E s \in Submit :
          \/ SubmitStart(s)
          \/ SubmitCheck(s)
          \/ SubmitGate(s)
          \/ SubmitRefused(s)
          \/ SubmitTransmit(s)
          \/ SubmitCommit(s)
          \/ REDecides(s)
          \/ WebhookFind(s)
          \/ WebhookCommit(s)
          \/ WebhookAbort(s)
    \/ \E r \in Officer \cup Submit : Abort(r)

Spec == Init /\ [][Next]_vars

----------------------------------------------------------------------------
(***************************************************************************)
(* Properties.                                                             *)
(***************************************************************************)
TypeOK ==
    /\ clock \in Nat
    /\ logged \subseteq Officer
    /\ decision \in [Officer -> OfficerDecision \cup {Null}]
    /\ created_at \in [Officer -> Nat]
    /\ link \in [Officer -> [app : Submit \cup {Null},
                             officer_decision : REDecision \cup {Null}]]
    /\ partner_re \in [Submit -> RE \cup {Null}]
    /\ chosen \in [Submit -> Officer \cup {Null}]
    /\ row \in [Submit -> REDecision \cup {Null}]
    /\ received \subseteq Submit
    /\ verdict \in [Submit -> REDecision \cup {Null}]
    /\ calls \in [Submit -> 0..MaxCalls]
    /\ loaded \in [Submit -> REDecision \cup {Null}]
    /\ step \in [Officer \cup Submit -> Step]
    /\ began \in [Submit -> [logged : SUBSET Officer, apps : SUBSET Submit]]

(***************************************************************************)
(* "REJECTED / MORE_INFO_REQUIRED never enter the RE pipeline": a package  *)
(* that reached an entity, or became an application, carries a committed   *)
(* decision, and it is APPROVED (the gate of submit_application).          *)
(***************************************************************************)
OnlyApprovedLeaves ==
    \A s \in received \cup Apps :
        chosen[s] \in logged /\ decision[chosen[s]] = "APPROVED"

(***************************************************************************)
(* The decision a submission relies on is at least as new as every decision*)
(* that was committed when the submission began: an approval that had been *)
(* withdrawn by then is never used (get_latest_decision).                  *)
(***************************************************************************)
GateFresh ==
    \A s \in Submit : chosen[s] # Null =>
        \A o \in began[s].logged : created_at[o] <= created_at[chosen[s]]

(***************************************************************************)
(* A submission that begins when its entity already has an application     *)
(* neither sends a package nor adds an application, whatever was decided   *)
(* on the first one in the meantime (the check of submit_application).     *)
(***************************************************************************)
NoLateDuplicate ==
    \A s \in received \cup Apps :
        \A t \in began[s].apps : partner_re[t] # partner_re[s]
============================================================================

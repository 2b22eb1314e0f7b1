------------------------- MODULE LoanHandoffProofs -------------------------
(***************************************************************************)
(* Proofs about LoanHandoff, for every set of officers' and submission     *)
(* requests, of entities, and every number of callback deliveries.         *)
(***************************************************************************)
EXTENDS LoanHandoff, TLAPS

(***************************************************************************)
(* The inductive invariant.                                                *)
(***************************************************************************)
\* What a request in progress has in hand.
ProgressInv ==
    /\ \A o \in Officer : step[o] \in {"linking", "deciding"}
                             => decision[o] \in OfficerDecision
    /\ \A o \in Officer : link[o].app # Null => link[o].app \in Apps
    /\ \A s \in Submit : step[s] \in {"sending", "committing"}
                             => chosen[s] # Null
    /\ \A s \in Submit : loaded[s] # Null => s \in Apps /\ verdict[s] # Null

\* What is committed came from a request that has run: its decision, its
\* partner and its gate no longer change.
SettledInv ==
    /\ \A o \in logged : step[o] # "idle" /\ decision[o] \in OfficerDecision
    /\ \A s \in received \cup Apps : step[s] # "idle" /\ chosen[s] # Null
    /\ \A s \in Submit : chosen[s] # Null =>
           /\ step[s] # "idle"
           /\ chosen[s] \in logged
           /\ decision[chosen[s]] = "APPROVED"

\* What was committed when a submission began still is.
BeganInv ==
    /\ \A s \in Submit : began[s].logged \subseteq logged /\ began[s].apps \subseteq Apps
    /\ \A s \in Submit : step[s] = "gating" \/ chosen[s] # Null =>
           \A t \in began[s].apps : partner_re[t] # partner_re[s]

HandoffInv == TypeOK /\ ProgressInv /\ SettledInv /\ BeganInv /\ GateFresh

LEMMA InitHandoffInv == Init => HandoffInv
<1> SUFFICES ASSUME Init PROVE HandoffInv
  OBVIOUS
<1> USE HandoffAssumption DEF Init
<1>1. TypeOK
  BY DEF TypeOK, Step
<1>2. ProgressInv /\ SettledInv /\ BeganInv
  BY DEF ProgressInv, SettledInv, BeganInv, Apps
<1>3. GateFresh
  BY DEF GateFresh
<1>4. QED
  BY <1>1, <1>2, <1>3 DEF HandoffInv

LEMMA HandoffTypeStep == TypeOK /\ ProgressInv /\ [Next]_vars => TypeOK'
<1> SUFFICES ASSUME TypeOK, ProgressInv, [Next]_vars PROVE TypeOK'
  OBVIOUS
<1> USE HandoffAssumption
<1> USE DEF TypeOK, Step, Goes, officerVars, submitVars, callbackVars
<1>1. ASSUME NEW o \in Officer, DecideStart(o) PROVE TypeOK'
  BY <1>1 DEF DecideStart
<1>2. ASSUME NEW o \in Officer, DecideLink(o) PROVE TypeOK'
  <2>1. PICK a \in FirstApplication :
               link' = [link EXCEPT ![o] =
                           [app |-> a,
                            officer_decision |-> IF a = Null THEN Null ELSE row[a]]]
    BY <1>2 DEF DecideLink
  <2>2. a \in Submit \cup {Null}
    BY DEF FirstApplication, Apps
  <2>3. QED
    BY <1>2, <2>1, <2>2 DEF DecideLink
<1>3. ASSUME NEW o \in Officer, DecideCommit(o) PROVE TypeOK'
  <2>1. decision[o] \in REDecision
    BY <1>3 DEF DecideCommit, ProgressInv, REDecision
  <2>2. QED
    BY <1>3, <2>1 DEF DecideCommit
<1>4. ASSUME NEW s \in Submit, SubmitStart(s) PROVE TypeOK'
  BY <1>4 DEF SubmitStart, Apps
<1>5. ASSUME NEW s \in Submit, SubmitCheck(s) PROVE TypeOK'
  BY <1>5 DEF SubmitCheck
<1>6. ASSUME NEW s \in Submit, SubmitGate(s) PROVE TypeOK'
  BY <1>6 DEF SubmitGate, LatestDecision
<1>7. ASSUME NEW s \in Submit, SubmitRefused(s) PROVE TypeOK'
  BY <1>7 DEF SubmitRefused
<1>8. ASSUME NEW s \in Submit, SubmitTransmit(s) PROVE TypeOK'
  BY <1>8 DEF SubmitTransmit
<1>9. ASSUME NEW s \in Submit, SubmitCommit(s) PROVE TypeOK'
  <2>1. chosen[s] \in Officer
    BY <1>9 DEF SubmitCommit, ProgressInv
  <2>2. decision[chosen[s]] \in REDecision \cup {Null}
    BY <2>1 DEF REDecision
  <2>3. QED
    BY <1>9, <2>2 DEF SubmitCommit
<1>10. ASSUME NEW r \in Officer \cup Submit, Abort(r) PROVE TypeOK'
  BY <1>10 DEF Abort
<1>11. ASSUME NEW s \in Submit, REDecides(s) PROVE TypeOK'
  BY <1>11 DEF REDecides
<1>12. ASSUME NEW s \in Submit, WebhookFind(s) PROVE TypeOK'
  BY <1>12 DEF WebhookFind
<1>13. ASSUME NEW s \in Submit, WebhookCommit(s) PROVE TypeOK'
  BY <1>13 DEF WebhookCommit
<1>14. ASSUME NEW s \in Submit, WebhookAbort(s) PROVE TypeOK'
  BY <1>14 DEF WebhookAbort
<1>15. CASE UNCHANGED vars
  BY <1>15 DEF vars
<1>16. QED
  BY <1>1, <1>2, <1>3, <1>4, <1>5, <1>6, <1>7, <1>8, <1>9, <1>10, <1>11,
     <1>12, <1>13, <1>14, <1>15 DEF Next

\* A step that leaves the gate's choices alone, and under which what is
\* committed stays committed and unchanged, keeps the second half.
LEMMA CommittedKept ==
    ASSUME HandoffInv, began' = began, chosen' = chosen,
           partner_re' = partner_re,
           logged \subseteq logged', Apps \subseteq Apps',
           \A o \in logged : /\ decision'[o] = decision[o]
                             /\ created_at'[o] = created_at[o],
           \A o \in logged' \ logged : /\ step'[o] # "idle"
                                       /\ decision'[o] \in OfficerDecision,
           \A s \in received' \cup Apps' : chosen[s] # Null /\ s \in Submit,
           \A s \in Submit : step'[s] = "gating" => step[s] = "gating",
           \A r \in Officer \cup Submit : step[r] # "idle" => step'[r] # "idle"
    PROVE  SettledInv' /\ BeganInv' /\ GateFresh'
<1>1. SettledInv /\ BeganInv /\ GateFresh /\ TypeOK
  BY DEF HandoffInv
<1>2. logged \subseteq Officer
  BY <1>1 DEF TypeOK
<1>3. SettledInv'
  BY <1>1, <1>2 DEF SettledInv
<1>4. BeganInv'
  BY <1>1 DEF BeganInv
<1>5. GateFresh'
  BY <1>1 DEF GateFresh, SettledInv, BeganInv
<1>6. QED
  BY <1>3, <1>4, <1>5

LEMMA HandoffStep == HandoffInv /\ [Next]_vars => HandoffInv'
<1> SUFFICES ASSUME HandoffInv, [Next]_vars PROVE HandoffInv'
  OBVIOUS
<1>0. TypeOK /\ TypeOK' /\ ProgressInv /\ SettledInv /\ BeganInv /\ GateFresh
  BY HandoffTypeStep DEF HandoffInv
<1>a. \A s \in received \cup Apps : chosen[s] # Null /\ s \in Submit
  BY <1>0 DEF SettledInv, TypeOK, Apps
<1> DEFINE Rest == ProgressInv /\ SettledInv /\ BeganInv /\ GateFresh
<1> USE HandoffAssumption DEF Goes, officerVars, submitVars, callbackVars
<1>1. ASSUME NEW o \in Officer, DecideStart(o) PROVE Rest'
  <2>1. o \notin logged /\ Apps' = Apps /\ step'[o] = "linking"
    BY <1>0, <1>1 DEF DecideStart, Arrives, SettledInv, Apps, TypeOK
  <2>2. \A q \in Officer \cup Submit : q # o => step'[q] = step[q]
    BY <1>0, <1>1 DEF DecideStart, TypeOK
  <2>3. \A q \in Officer : q # o => /\ decision'[q] = decision[q]
                                    /\ created_at'[q] = created_at[q]
    BY <1>0, <1>1 DEF DecideStart, TypeOK
  <2>4. decision'[o] \in OfficerDecision
    BY <1>0, <1>1 DEF DecideStart, TypeOK
  <2>5. ProgressInv'
    BY <1>0, <1>1, <2>1, <2>2, <2>3, <2>4 DEF DecideStart, ProgressInv
  <2>6. logged \subseteq Officer
    BY <1>0 DEF TypeOK
  <2>7. SettledInv' /\ BeganInv' /\ GateFresh'
    BY <1>a, <1>1, <2>1, <2>2, <2>3, <2>6, CommittedKept DEF DecideStart
  <2>8. QED
    BY <2>5, <2>7
<1>2. ASSUME NEW o \in Officer, DecideLink(o) PROVE Rest'
  <2>1. Apps' = Apps /\ step[o] = "linking" /\ step' = [step EXCEPT ![o] = "deciding"]
    BY <1>2 DEF DecideLink, Apps
  <2>2. \A q \in Officer : link'[q].app = link[q].app
                           \/ link'[q].app \in FirstApplication
    BY <1>0, <1>2 DEF DecideLink, TypeOK
  <2>3. ProgressInv'
    BY <1>0, <1>2, <2>1, <2>2 DEF DecideLink, ProgressInv, FirstApplication, TypeOK
  <2>4. SettledInv' /\ BeganInv' /\ GateFresh'
    BY <1>0, <1>a, <1>2, <2>1, CommittedKept DEF DecideLink, TypeOK
  <2>5. QED
    BY <2>3, <2>4
<1>3. ASSUME NEW o \in Officer, DecideCommit(o) PROVE Rest'
  <2>1. decision[o] \in OfficerDecision /\ decision[o] # Null
    BY <1>0, <1>3 DEF DecideCommit, ProgressInv, OfficerDecision, REDecision
  <2>2. Apps' = Apps
    BY <1>0, <1>3, <2>1 DEF DecideCommit, ProgressInv, Apps
  <2>3. step[o] = "deciding" /\ step' = [step EXCEPT ![o] = "done"]
    BY <1>3 DEF DecideCommit
  <2>4. ProgressInv'
    BY <1>0, <1>3, <2>2, <2>3 DEF DecideCommit, ProgressInv, TypeOK
  <2>5. SettledInv' /\ BeganInv' /\ GateFresh'
    BY <1>0, <1>a, <1>3, <2>1, <2>2, <2>3, CommittedKept DEF DecideCommit, TypeOK
  <2>6. QED
    BY <2>4, <2>5
<1>4. ASSUME NEW s \in Submit, SubmitStart(s) PROVE Rest'
  <2>1. /\ step[s] = "idle" /\ chosen[s] = Null /\ Apps' = Apps
        /\ s \notin received \cup Apps
    BY <1>0, <1>4 DEF SubmitStart, Arrives, SettledInv, Apps
  <2>2. /\ step' = [step EXCEPT ![s] = "checking"]
        /\ began' = [began EXCEPT ![s] = [logged |-> logged, apps |-> Apps]]
        /\ \A t \in Submit : t # s => partner_re'[t] = partner_re[t]
    BY <1>0, <1>4 DEF SubmitStart, TypeOK
  <2>3. ProgressInv'
    BY <1>0, <1>4, <2>1, <2>2 DEF SubmitStart, ProgressInv, TypeOK
  <2>4. SettledInv'
    BY <1>0, <1>4, <2>1, <2>2 DEF SubmitStart, SettledInv, TypeOK
  <2>5. /\ began'[s] = [logged |-> logged, apps |-> Apps]
        /\ \A t \in Submit : t # s => began'[t] = began[t]
    BY <1>0, <2>2 DEF TypeOK
  <2>6. BeganInv'
    <3>1. \A t \in Submit : /\ began'[t].logged \subseteq logged'
                            /\ began'[t].apps \subseteq Apps'
      BY <1>0, <1>4, <2>1, <2>5 DEF SubmitStart, BeganInv
    <3>2. ASSUME NEW t \in Submit, step'[t] = "gating" \/ chosen'[t] # Null
          PROVE  \A u \in began'[t].apps : partner_re'[u] # partner_re'[t]
      <4>1. t # s /\ (step[t] = "gating" \/ chosen[t] # Null)
        BY <1>0, <1>4, <2>1, <2>2, <3>2 DEF SubmitStart, TypeOK
      <4>2. began'[t].apps \subseteq Submit \ {s}
        BY <1>0, <2>1, <2>5, <4>1 DEF BeganInv, Apps
      <4>3. QED
        BY <1>0, <2>2, <2>5, <4>1, <4>2 DEF BeganInv
    <3>3. QED
      BY <3>1, <3>2 DEF BeganInv
  <2>7. GateFresh'
    BY <1>0, <1>4, <2>1, <2>5 DEF SubmitStart, GateFresh
  <2>8. QED
    BY <2>3, <2>4, <2>6, <2>7
<1>5. ASSUME NEW s \in Submit, SubmitCheck(s) PROVE Rest'
  <2>1. Apps' = Apps /\ step[s] = "checking"
        /\ step' = [step EXCEPT ![s] = IF Existing(partner_re[s]) # {}
                                       THEN "done" ELSE "gating"]
    BY <1>5 DEF SubmitCheck, Apps
  <2>2. ProgressInv'
    BY <1>0, <1>5, <2>1 DEF SubmitCheck, ProgressInv, TypeOK
  <2>3. SettledInv' /\ GateFresh'
    BY <1>0, <1>5, <2>1 DEF SubmitCheck, SettledInv, GateFresh, TypeOK
  <2>4. BeganInv'
    <3>1. step'[s] = "gating" => \A t \in Apps : partner_re[t] # partner_re[s]
      BY <1>0, <2>1 DEF Existing, TypeOK
    <3>2. \A t \in Submit : t # s => step'[t] = step[t]
      BY <1>0, <2>1 DEF TypeOK
    <3>3. began[s].apps \subseteq Apps
      BY <1>0 DEF BeganInv
    <3>4. QED
      BY <1>0, <1>5, <2>1, <3>1, <3>2, <3>3 DEF SubmitCheck, BeganInv
  <2>5. QED
    BY <2>2, <2>3, <2>4
<1>6. ASSUME NEW s \in Submit, SubmitGate(s) PROVE Rest'
  <2>1. PICK o \in LatestDecision : /\ Passes(o)
                                    /\ chosen' = [chosen EXCEPT ![s] = o]
    BY <1>6 DEF SubmitGate
  <2>2. /\ step[s] = "gating" /\ step' = [step EXCEPT ![s] = "sending"]
        /\ Apps' = Apps
    BY <1>6 DEF SubmitGate, Apps
  <2>3. /\ o \in logged /\ o \in Officer /\ o # Null /\ decision[o] = "APPROVED"
        /\ \A q \in logged : created_at[q] <= created_at[o]
    BY <1>0, <2>1 DEF LatestDecision, Passes, TypeOK
  <2>4. /\ chosen'[s] = o
        /\ \A t \in Submit : t # s => /\ chosen'[t] = chosen[t]
                                      /\ step'[t] = step[t]
        /\ \A q \in Officer : step'[q] = step[q]
        /\ step'[s] = "sending"
    BY <1>0, <2>1, <2>2 DEF TypeOK
  <2>5. ProgressInv'
    BY <1>0, <1>6, <2>2, <2>3, <2>4 DEF SubmitGate, ProgressInv
  <2>6. SettledInv'
    BY <1>0, <1>a, <1>6, <2>2, <2>3, <2>4 DEF SubmitGate, SettledInv, TypeOK
  <2>7. BeganInv'
    BY <1>0, <1>6, <2>2, <2>4 DEF SubmitGate, BeganInv
  <2>8. GateFresh'
    BY <1>0, <1>6, <2>3, <2>4 DEF SubmitGate, GateFresh, BeganInv
  <2>9. QED
    BY <2>5, <2>6, <2>7, <2>8
<1>7. ASSUME NEW s \in Submit,
             SubmitRefused(s) \/ SubmitTransmit(s) \/ REDecides(s)
             \/ WebhookFind(s) \/ WebhookAbort(s)
      PROVE  Rest'
  <2>1. Apps' = Apps
    BY <1>7 DEF SubmitRefused, SubmitTransmit, REDecides, WebhookFind,
                WebhookAbort, Apps
  <2>2. ProgressInv'
    BY <1>0, <1>7, <2>1
       DEF SubmitRefused, SubmitTransmit, REDecides, WebhookFind,
           WebhookAbort, ProgressInv, TypeOK, Apps
  <2>3. SettledInv' /\ BeganInv' /\ GateFresh'
    BY <1>0, <1>a, <1>7, <2>1, CommittedKept
       DEF SubmitRefused, SubmitTransmit, REDecides, WebhookFind,
           WebhookAbort, ProgressInv, TypeOK
  <2>4. QED
    BY <2>2, <2>3
<1>8. ASSUME NEW s \in Submit, SubmitCommit(s) PROVE Rest'
  <2>1. chosen[s] # Null /\ decision[chosen[s]] = "APPROVED"
    BY <1>0, <1>8 DEF SubmitCommit, ProgressInv, SettledInv
  <2>2. "APPROVED" # Null
    BY DEF REDecision, OfficerDecision
  <2>3. Apps' = Apps \cup {s}
    BY <1>0, <1>8, <2>1, <2>2 DEF SubmitCommit, Apps, TypeOK
  <2>4. step[s] = "committing" /\ step' = [step EXCEPT ![s] = "done"]
    BY <1>8 DEF SubmitCommit
  <2>5. ProgressInv'
    BY <1>0, <1>8, <2>3, <2>4 DEF SubmitCommit, ProgressInv, TypeOK
  <2>6. SettledInv' /\ BeganInv' /\ GateFresh'
    BY <1>0, <1>a, <1>8, <2>1, <2>3, <2>4, CommittedKept DEF SubmitCommit, TypeOK
  <2>7. QED
    BY <2>5, <2>6
<1>9. ASSUME NEW s \in Submit, WebhookCommit(s) PROVE Rest'
  <2>1. s \in Apps /\ verdict[s] # Null
    BY <1>0, <1>9 DEF WebhookCommit, ProgressInv
  <2>2. Apps' = Apps
    BY <1>0, <1>9, <2>1 DEF WebhookCommit, Apps, TypeOK
  <2>3. ProgressInv'
    BY <1>0, <1>9, <2>2 DEF WebhookCommit, ProgressInv, TypeOK
  <2>4. SettledInv' /\ BeganInv' /\ GateFresh'
    BY <1>0, <1>a, <1>9, <2>2, CommittedKept DEF WebhookCommit, TypeOK
  <2>5. QED
    BY <2>3, <2>4
<1>10. ASSUME NEW r \in Officer \cup Submit, Abort(r) PROVE Rest'
  <2>1. Apps' = Apps /\ step' = [step EXCEPT ![r] = "done"]
    BY <1>10 DEF Abort, Apps
  <2>2. ProgressInv'
    BY <1>0, <1>10, <2>1 DEF Abort, ProgressInv, TypeOK
  <2>3. SettledInv' /\ BeganInv' /\ GateFresh'
    BY <1>0, <1>a, <1>10, <2>1, CommittedKept DEF Abort, TypeOK
  <2>4. QED
    BY <2>2, <2>3
<1>11. CASE UNCHANGED vars
  <2>1. Apps' = Apps
    BY <1>11 DEF vars, Apps
  <2>2. ProgressInv'
    BY <1>0, <1>11, <2>1 DEF vars, ProgressInv
  <2>3. SettledInv' /\ BeganInv' /\ GateFresh'
    BY <1>0, <1>a, <1>11, <2>1, CommittedKept DEF vars, TypeOK
  <2>4. QED
    BY <1>0, <2>2, <2>3 DEF HandoffInv
<1>12. QED
  BY <1>0, <1>1, <1>2, <1>3, <1>4, <1>5, <1>6, <1>7, <1>8, <1>9, <1>10, <1>11
     DEF Next, HandoffInv

LEMMA HandoffInvariant == Spec => []HandoffInv
BY InitHandoffInv, HandoffStep, PTL DEF Spec

(***************************************************************************)
(* Every variable of the handoff keeps its type (TypeOK).                  *)
(***************************************************************************)
THEOREM HandoffTypeCorrect == Spec => []TypeOK
<1>1. HandoffInv => TypeOK
  BY DEF HandoffInv
<1>2. QED
  BY <1>1, HandoffInvariant, PTL

(***************************************************************************)
(* Nothing but a committed approval leads to a package or an application   *)
(* (OnlyApprovedLeaves).                                                   *)
(***************************************************************************)
THEOREM ApprovedLeaves == Spec => []OnlyApprovedLeaves
<1>1. HandoffInv => OnlyApprovedLeaves
  BY DEF HandoffInv, SettledInv, OnlyApprovedLeaves, TypeOK, Apps
<1>2. QED
  BY <1>1, HandoffInvariant, PTL

(***************************************************************************)
(* A submission uses no decision older than one that was committed when it *)
(* began (GateFresh).                                                      *)
(***************************************************************************)
THEOREM GateIsFresh == Spec => []GateFresh
<1>1. HandoffInv => GateFresh
  BY DEF HandoffInv
<1>2. QED
  BY <1>1, HandoffInvariant, PTL

(***************************************************************************)
(* A submission that begins after its entity has an application adds       *)
(* nothing there (NoLateDuplicate).                                        *)
(***************************************************************************)
THEOREM LateSubmissionIsIdle == Spec => []NoLateDuplicate
<1>1. HandoffInv => NoLateDuplicate
  BY DEF HandoffInv, SettledInv, BeganInv, NoLateDuplicate, TypeOK, Apps
<1>2. QED
  BY <1>1, HandoffInvariant, PTL
============================================================================

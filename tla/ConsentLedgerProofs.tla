------------------------ MODULE ConsentLedgerProofs ------------------------
(***************************************************************************)
(* Proofs about ConsentLedger, for every set of requests, purposes, source *)
(* lists, durations and repayment records.                                 *)
(***************************************************************************)
EXTENDS ConsentLedger, SequenceTheorems, TLAPS

LEMMA InitTypeOK == Init => TypeOK
BY LedgerAssumption DEF Init, TypeOK, Status, Step, AuditAction

LEMMA TypeStep == TypeOK /\ [Next]_vars => TypeOK'
<1> SUFFICES ASSUME TypeOK, [Next]_vars PROVE TypeOK'
  OBVIOUS
<1> USE LedgerAssumption DEF TypeOK, Status, Step, AuditAction
<1>1. CASE Tick
  BY <1>1 DEF Tick
<1>2. ASSUME NEW r \in Request, CreateLink(r) PROVE TypeOK'
  <2>1. PICK p \in Purpose, ds \in SourceSets, d \in Duration :
            /\ body' = [body EXCEPT ![r] =
                           [purpose |-> p, data_sources |-> ds,
                            created_at |-> clock, expires_at |-> clock + d]]
            /\ \E h \in LatestHash(p) :
                  hash_prev' = [hash_prev EXCEPT ![r] = h]
    BY <1>2 DEF CreateLink
  <2>2. LatestHash(p) \subseteq Request \cup {Genesis}
    BY DEF LatestHash, Ledger
  <2>3. hash_prev' \in [Request -> Request \cup {Genesis}]
    BY <2>1, <2>2
  <2>4. [purpose |-> p, data_sources |-> ds,
         created_at |-> clock, expires_at |-> clock + d] \in Body
    BY <2>1 DEF Body
  <2>5. body' \in [Request -> Body \cup {Null}]
    BY <2>1, <2>4
  <2>6. QED
    BY <1>2, <2>3, <2>5 DEF CreateLink, Goes
<1>3. ASSUME NEW r \in Request, CreateSupersede(r) PROVE TypeOK'
  BY <1>3 DEF CreateSupersede, Goes, Superseded, Active, Ledger
<1>4. ASSUME NEW r \in Request, CreateCommit(r) PROVE TypeOK'
  <2>1. status' \in [Request -> Status]
    BY <1>4 DEF CreateCommit
  <2>2. audit' \in [Request -> Seq(AuditAction)]
    <3>1. \A c \in Request : Append(audit[c], "CREATED") \in Seq(AuditAction)
      OBVIOUS
    <3>2. \A c \in Request : Append(audit[c], "SUPERSEDED") \in Seq(AuditAction)
      OBVIOUS
    <3> QED
      BY <1>4, <3>1, <3>2 DEF CreateCommit
  <2>3. QED
    BY <1>4, <2>1, <2>2 DEF CreateCommit, Goes
<1>5. ASSUME NEW r \in Request, NEW c \in Request, GetRead(r, c) PROVE TypeOK'
  BY <1>5 DEF GetRead, Goes
<1>6. ASSUME NEW r \in Request, NEW c \in Request, VerifyRead(r, c)
      PROVE TypeOK'
  BY <1>6 DEF VerifyRead, Goes
<1>7. ASSUME NEW r \in Request, ExpireCommit(r) PROVE TypeOK'
  <2>1. audit' \in [Request -> Seq(AuditAction)]
    <3>1. \A c \in Request :
             Append(audit[c], "EXPIRED_AUTO") \in Seq(AuditAction)
      OBVIOUS
    <3>2. <<"EXPIRED_AUTO", "VERIFIED">> \in Seq(AuditAction)
      OBVIOUS
    <3>3. \A c \in Request :
             audit[c] \o <<"EXPIRED_AUTO", "VERIFIED">> \in Seq(AuditAction)
      BY <3>2
    <3> QED
      BY <1>7, <3>1, <3>3 DEF ExpireCommit
  <2>2. QED
    BY <1>7, <2>1 DEF ExpireCommit, Goes
<1>8. ASSUME NEW r \in Request, VerifyCommit(r) PROVE TypeOK'
  BY <1>8 DEF VerifyCommit, Goes
<1>9. ASSUME NEW r \in Request, NEW c \in Request, RevokeRead(r, c)
      PROVE TypeOK'
  BY <1>9 DEF RevokeRead, Goes
<1>10. ASSUME NEW r \in Request, RevokeCommit(r) PROVE TypeOK'
  BY <1>10 DEF RevokeCommit, Goes
<1>11. ASSUME NEW r \in Request, PurgeScan(r) PROVE TypeOK'
  BY <1>11 DEF PurgeScan, Goes
<1>11a. ASSUME NEW r \in Request, PurgeQuery(r) PROVE TypeOK'
  BY <1>11a DEF PurgeQuery, Goes
<1>12. ASSUME NEW r \in Request, PurgeCommit(r) PROVE TypeOK'
  BY <1>12 DEF PurgeCommit, Goes
<1>13. ASSUME NEW r \in Request, Abort(r) PROVE TypeOK'
  BY <1>13 DEF Abort, Goes
<1>14. ASSUME NEW l \in Repayment, RecordRepayment(l) PROVE TypeOK'
  BY <1>14 DEF RecordRepayment
<1>15. CASE UNCHANGED vars
  BY <1>15 DEF vars
<1>16. QED
  BY <1>1, <1>2, <1>3, <1>4, <1>5, <1>6, <1>7, <1>8, <1>9, <1>10, <1>11,
     <1>11a, <1>12, <1>13, <1>14, <1>15 DEF Next

\* Every variable keeps its type through every request (TypeOK).
THEOREM TypeCorrect == Spec => []TypeOK
BY InitTypeOK, TypeStep, PTL DEF Spec

----------------------------------------------------------------------------
(***************************************************************************)
(* The inductive invariant.  The properties speak of committed rows only;  *)
(* to survive a commit they need what a request in progress holds: the row *)
(* it will insert, the link it has chosen and the rows it has read.        *)
(***************************************************************************)
Creating(r) == step[r] \in {"linking", "superseding"}

\* A row that is committed or about to be.
Written(r) == r \in Ledger \/ Creating(r)

\* A request without a committed row has none before it commits, and what it
\* read are committed rows.
FreshInv ==
    /\ \A r \in Request : step[r] = "idle" \/ Creating(r) => status[r] = "ABSENT"
    /\ \A r \in Request : seen[r] \subseteq Ledger
    /\ revoked \subseteq Ledger

Grounded(r) ==
    \/ hash_prev[r] = Genesis
    \/ /\ hash_prev[r] \in Ledger
       /\ body[hash_prev[r]].created_at < body[r].created_at

LinkInv ==
    \A r \in Request : Written(r) => /\ body[r] \in Body
                                    /\ body[r].created_at < clock
                                    /\ Grounded(r)

\* What a request knows of the rows it read stays true until it commits.
SeenInv ==
    \A r \in Request : \A c \in seen[r] :
        /\ step[r] = "superseding" => body[c].purpose = body[r].purpose
        /\ step[r] \in {"expiring", "verifying_lapsed", "scanning", "purging",
                      "anonymising"}
              => body[c].expires_at < clock

LedgerInv == TypeOK /\ FreshInv /\ LinkInv /\ SeenInv

LEMMA InitLedgerInv == Init => LedgerInv
<1> SUFFICES ASSUME Init PROVE LedgerInv
  OBVIOUS
<1>1. TypeOK
  BY InitTypeOK
<1>2. FreshInv /\ LinkInv /\ SeenInv
  BY DEF Init, FreshInv, LinkInv, SeenInv, Ledger, Written, Creating
<1>3. QED
  BY <1>1, <1>2 DEF LedgerInv

\* What the request does to the records of others: none leaves the ledger,
\* and only the request that creates a record writes its row.
LEMMA LinkKept ==
    ASSUME TypeOK, TypeOK', LinkInv, body' = body, hash_prev' = hash_prev,
           clock <= clock', Ledger \subseteq Ledger',
           \A r \in Request : Written(r)' => Written(r)
    PROVE  LinkInv'
<1> SUFFICES ASSUME NEW r \in Request, Written(r)'
             PROVE /\ body'[r] \in Body
                   /\ body'[r].created_at < clock'
                   /\ Grounded(r)'
  BY DEF LinkInv
<1>1. /\ body[r] \in Body
      /\ body[r].created_at < clock
      /\ Grounded(r)
  BY DEF LinkInv
<1>2. body'[r].created_at < clock'
  BY <1>1 DEF TypeOK, Body
<1>3. Grounded(r)'
  BY <1>1 DEF Grounded
<1>4. QED
  BY <1>1, <1>2, <1>3

LEMMA CreateLinkInv ==
    ASSUME LedgerInv, TypeOK', NEW r \in Request, CreateLink(r)
    PROVE  LedgerInv'
<1> USE LedgerAssumption
<1> USE DEF LedgerInv
<1>1. PICK p \in Purpose, ds \in SourceSets, d \in Duration :
          /\ body' = [body EXCEPT ![r] =
                         [purpose |-> p, data_sources |-> ds,
                          created_at |-> clock, expires_at |-> clock + d]]
          /\ \E h \in LatestHash(p) :
                hash_prev' = [hash_prev EXCEPT ![r] = h]
  BY DEF CreateLink
<1>2. PICK h \in LatestHash(p) : hash_prev' = [hash_prev EXCEPT ![r] = h]
  BY <1>1
<1>3. /\ step[r] = "idle" /\ r \notin Ledger /\ Ledger' = Ledger
      /\ clock' = clock + 1
      /\ step' = [step EXCEPT ![r] = "linking"]
      /\ seen' = [seen EXCEPT ![r] = {}]
      /\ status' = status /\ revoked' = revoked
  BY DEF CreateLink, Arrives, Goes, FreshInv, Ledger
<1>4. FreshInv'
  BY <1>3 DEF FreshInv, TypeOK, Creating
<1>5. h = Genesis \/ (h \in Ledger /\ body[h].created_at < clock)
  BY <1>2 DEF LatestHash, LinkInv, Written, Ledger
<1>6. LinkInv'
  <2> SUFFICES ASSUME NEW c \in Request, Written(c)'
               PROVE /\ body'[c] \in Body
                     /\ body'[c].created_at < clock'
                     /\ Grounded(c)'
    BY DEF LinkInv
  <2>1. CASE c = r
    <3>1. body'[r] \in Body /\ body'[r].created_at = clock
      BY <1>1 DEF Body, TypeOK
    <3>2. hash_prev'[r] = h
      BY <1>2 DEF TypeOK
    <3>3. h \in Ledger => body'[h] = body[h]
      BY <1>1, <1>3 DEF TypeOK, Ledger
    <3>4. QED
      BY <2>1, <1>3, <1>5, <3>1, <3>2, <3>3 DEF Grounded, TypeOK
  <2>2. CASE c # r
    <3>1. Written(c)
      BY <2>2, <1>3 DEF Written, Creating, TypeOK
    <3>2. /\ body'[c] = body[c]
          /\ hash_prev'[c] = hash_prev[c]
          /\ hash_prev[c] \in Ledger => body'[hash_prev[c]] = body[hash_prev[c]]
      BY <2>2, <1>1, <1>2, <1>3 DEF TypeOK, Ledger
    <3>3. body[c] \in Body /\ body[c].created_at < clock /\ Grounded(c)
      BY <3>1 DEF LinkInv
    <3>4. body'[c].created_at < clock'
      BY <1>3, <3>2, <3>3 DEF Body, TypeOK
    <3>5. QED
      BY <1>3, <3>2, <3>3, <3>4 DEF Grounded
  <2>3. QED
    BY <2>1, <2>2
<1>7. SeenInv'
  <2> SUFFICES ASSUME NEW q \in Request, NEW c \in seen'[q]
               PROVE /\ step'[q] = "superseding" =>
                           body'[c].purpose = body'[q].purpose
                     /\ step'[q] \in {"expiring", "verifying_lapsed",
                                      "scanning", "purging", "anonymising"}
                           => body'[c].expires_at < clock'
    BY DEF SeenInv
  <2>1. q # r /\ c \in seen[q] /\ step'[q] = step[q]
    BY <1>3 DEF TypeOK
  <2>2. c \in Ledger /\ c # r
    BY <1>3, <2>1 DEF FreshInv
  <2>3. body'[c] = body[c] /\ body'[q] = body[q]
    BY <1>1, <2>1, <2>2 DEF TypeOK, Ledger
  <2>4. body[c] \in Body
    BY <2>2 DEF LinkInv, Written, Ledger
  <2>5. QED
    BY <1>3, <2>1, <2>3, <2>4 DEF SeenInv, Body, TypeOK
<1>8. QED
  BY <1>4, <1>6, <1>7

LEMMA CreateCommitInv ==
    ASSUME LedgerInv, TypeOK', NEW r \in Request, CreateCommit(r)
    PROVE  LedgerInv'
<1> USE DEF LedgerInv
<1>1. /\ step[r] = "superseding" /\ status[r] = "ABSENT" /\ r \notin Ledger
      /\ \A c \in Request : status'[c] = "ABSENT" <=>
                               (status[c] = "ABSENT" /\ c # r)
      /\ step' = [step EXCEPT ![r] = "done"]
      /\ seen' = [seen EXCEPT ![r] = {}]
      /\ body' = body /\ hash_prev' = hash_prev /\ clock' = clock
      /\ revoked' = revoked
  BY DEF CreateCommit, Goes, FreshInv, Creating, Ledger, TypeOK, Status
<1>2. Ledger' = Ledger \cup {r}
  BY <1>1 DEF Ledger
<1>3. FreshInv'
  BY <1>1, <1>2 DEF FreshInv, Creating, TypeOK
<1>4. \A c \in Request : Written(c)' => Written(c)
  BY <1>1, <1>2 DEF Written, Creating, TypeOK
<1>5. LinkInv'
  BY <1>1, <1>2, <1>4, LinkKept DEF TypeOK
<1>6. SeenInv'
  BY <1>1 DEF SeenInv, TypeOK
<1>7. QED
  BY <1>3, <1>5, <1>6

\* The requests that create no record keep the ledger and the rows as they
\* are.
LEMMA LedgerKept ==
    ASSUME LedgerInv, TypeOK', SeenInv',
           body' = body, hash_prev' = hash_prev, clock <= clock',
           \A c \in Request : status'[c] = "ABSENT" <=> status[c] = "ABSENT",
           revoked' \subseteq Ledger,
           \A r \in Request : /\ step'[r] = "idle" => step[r] = "idle"
                              /\ Creating(r)' => Creating(r)
                              /\ seen'[r] \subseteq Ledger
    PROVE  LedgerInv'
<1> USE DEF LedgerInv
<1>1. Ledger' = Ledger
  BY DEF Ledger
<1>2. LinkInv'
  BY <1>1, LinkKept DEF Written
<1>3. FreshInv'
  BY <1>1 DEF FreshInv
<1>4. QED
  BY <1>2, <1>3

LEMMA LedgerStep == LedgerInv /\ [Next]_vars => LedgerInv'
<1> SUFFICES ASSUME LedgerInv, [Next]_vars PROVE LedgerInv'
  OBVIOUS
<1>0. TypeOK /\ TypeOK' /\ FreshInv /\ LinkInv /\ SeenInv
  BY TypeStep DEF LedgerInv
<1>b. \A c \in Ledger : body[c] \in Body
  BY <1>0 DEF LinkInv, Written, Ledger
<1>1. CASE Tick
  <2>1. SeenInv'
    BY <1>0, <1>1, <1>b DEF Tick, SeenInv, FreshInv, TypeOK, Body
  <2>2. QED
    BY <1>0, <1>1, <2>1, LedgerKept DEF Tick, FreshInv, TypeOK, Creating
<1>2. ASSUME NEW r \in Request, CreateLink(r) PROVE LedgerInv'
  BY <1>0, <1>2, CreateLinkInv
<1>3. ASSUME NEW r \in Request, CreateSupersede(r) PROVE LedgerInv'
  <2>1. Superseded(r) \subseteq Ledger
    BY DEF Superseded, Active
  <2>2. SeenInv'
    BY <1>0, <1>3 DEF CreateSupersede, Goes, Superseded, SeenInv, TypeOK
  <2>3. QED
    BY <1>0, <1>3, <2>1, <2>2, LedgerKept
       DEF CreateSupersede, Goes, FreshInv, TypeOK, Creating
<1>4. ASSUME NEW r \in Request, CreateCommit(r) PROVE LedgerInv'
  BY <1>0, <1>4, CreateCommitInv
<1>5. ASSUME NEW r \in Request, NEW c \in Request, GetRead(r, c)
      PROVE LedgerInv'
  <2>1. c \in Ledger
    BY <1>5 DEF GetRead, Lapsed, Active
  <2>2. SeenInv'
    BY <1>0, <1>5 DEF GetRead, Goes, Lapsed, SeenInv, TypeOK
  <2>3. QED
    BY <1>0, <1>5, <2>1, <2>2, LedgerKept
       DEF GetRead, Goes, FreshInv, TypeOK, Creating
<1>6. ASSUME NEW r \in Request, NEW c \in Request, VerifyRead(r, c)
      PROVE LedgerInv'
  <2>1. SeenInv'
    BY <1>0, <1>6 DEF VerifyRead, Goes, Lapsed, SeenInv, TypeOK
  <2>2. QED
    BY <1>0, <1>6, <2>1, LedgerKept
       DEF VerifyRead, Goes, FreshInv, TypeOK, Creating
<1>7. ASSUME NEW r \in Request, ExpireCommit(r) PROVE LedgerInv'
  <2>1. SeenInv'
    BY <1>0, <1>7 DEF ExpireCommit, Goes, SeenInv, TypeOK
  <2>2. \A c \in Request : status'[c] = "ABSENT" <=> status[c] = "ABSENT"
    BY <1>0, <1>7 DEF ExpireCommit, FreshInv, Ledger, TypeOK
  <2>3. QED
    BY <1>0, <1>7, <2>1, <2>2, LedgerKept
       DEF ExpireCommit, Goes, FreshInv, TypeOK, Creating
<1>8. ASSUME NEW r \in Request, VerifyCommit(r) PROVE LedgerInv'
  <2>1. SeenInv'
    BY <1>0, <1>8 DEF VerifyCommit, Goes, SeenInv, TypeOK
  <2>2. QED
    BY <1>0, <1>8, <2>1, LedgerKept
       DEF VerifyCommit, Goes, FreshInv, TypeOK, Creating
<1>9. ASSUME NEW r \in Request, NEW c \in Request, RevokeRead(r, c)
      PROVE LedgerInv'
  <2>1. c \in Ledger
    BY <1>9 DEF RevokeRead, Active
  <2>2. SeenInv'
    BY <1>0, <1>9 DEF RevokeRead, Goes, SeenInv, TypeOK
  <2>3. QED
    BY <1>0, <1>9, <2>1, <2>2, LedgerKept
       DEF RevokeRead, Goes, FreshInv, TypeOK, Creating
<1>10. ASSUME NEW r \in Request, RevokeCommit(r) PROVE LedgerInv'
  <2>1. SeenInv'
    BY <1>0, <1>10 DEF RevokeCommit, Goes, SeenInv, TypeOK
  <2>2. \A c \in Request : status'[c] = "ABSENT" <=> status[c] = "ABSENT"
    BY <1>0, <1>10 DEF RevokeCommit, FreshInv, Ledger, TypeOK
  <2>3. revoked' \subseteq Ledger
    BY <1>0, <1>10 DEF RevokeCommit, FreshInv
  <2>4. QED
    BY <1>0, <1>10, <2>1, <2>2, <2>3, LedgerKept
       DEF RevokeCommit, Goes, FreshInv, TypeOK, Creating
<1>11. ASSUME NEW r \in Request, PurgeScan(r) PROVE LedgerInv'
  <2>1. {c \in Request : Lapsed(c)} \subseteq Ledger
    BY DEF Lapsed, Active
  <2>2. SeenInv'
    BY <1>0, <1>11 DEF PurgeScan, Goes, Lapsed, SeenInv, TypeOK
  <2>3. QED
    BY <1>0, <1>11, <2>1, <2>2, LedgerKept
       DEF PurgeScan, Goes, FreshInv, TypeOK, Creating
<1>11a. ASSUME NEW r \in Request, PurgeQuery(r) PROVE LedgerInv'
  <2>1. SeenInv'
    BY <1>0, <1>11a DEF PurgeQuery, Goes, SeenInv, TypeOK
  <2>2. QED
    BY <1>0, <1>11a, <2>1, LedgerKept
       DEF PurgeQuery, Goes, FreshInv, TypeOK, Creating
<1>12. ASSUME NEW r \in Request, PurgeCommit(r) PROVE LedgerInv'
  <2>1. SeenInv'
    BY <1>0, <1>12 DEF PurgeCommit, Goes, SeenInv, TypeOK
  <2>2. \A c \in Request : status'[c] = "ABSENT" <=> status[c] = "ABSENT"
    BY <1>0, <1>12 DEF PurgeCommit, FreshInv, Ledger, TypeOK
  <2>3. QED
    BY <1>0, <1>12, <2>1, <2>2, LedgerKept
       DEF PurgeCommit, Goes, FreshInv, TypeOK, Creating
<1>13. ASSUME NEW r \in Request, Abort(r) PROVE LedgerInv'
  <2>1. SeenInv'
    BY <1>0, <1>13 DEF Abort, Goes, SeenInv, TypeOK
  <2>2. QED
    BY <1>0, <1>13, <2>1, LedgerKept
       DEF Abort, Goes, FreshInv, TypeOK, Creating
<1>14. ASSUME NEW l \in Repayment, RecordRepayment(l) PROVE LedgerInv'
  <2>1. SeenInv'
    BY <1>0, <1>14 DEF RecordRepayment, SeenInv
  <2>2. QED
    BY <1>0, <1>14, <2>1, LedgerKept
       DEF RecordRepayment, FreshInv, TypeOK, Creating
<1>15. CASE UNCHANGED vars
  <2>1. SeenInv'
    BY <1>0, <1>15 DEF vars, SeenInv
  <2>2. QED
    BY <1>0, <1>15, <2>1, LedgerKept DEF vars, FreshInv, TypeOK, Creating
<1>16. QED
  BY <1>1, <1>2, <1>3, <1>4, <1>5, <1>6, <1>7, <1>8, <1>9, <1>10, <1>11,
     <1>11a, <1>12, <1>13, <1>14, <1>15 DEF Next

LEMMA LedgerInvariant == Spec => []LedgerInv
BY InitLedgerInv, LedgerStep, PTL DEF Spec

(***************************************************************************)
(* The record a committed record points to is committed and older, however *)
(* requests interleave and whichever of them roll back (ChainGrounded).    *)
(***************************************************************************)
THEOREM ChainIsGrounded == Spec => []ChainGrounded
<1>1. LedgerInv => ChainGrounded
  BY DEF LedgerInv, LinkInv, ChainGrounded, Written, Grounded, Ledger
<1>2. QED
  BY <1>1, LedgerInvariant, PTL

----------------------------------------------------------------------------
(***************************************************************************)
(* Statuses and their explanations.                                        *)
(***************************************************************************)
\* What the steps that neither begin nor finish a create leave alone: the
\* rows, the links, and every status but those of the rows the request read,
\* which it may make EXPIRED or REVOKED.
LEMMA OtherSteps ==
    ASSUME LedgerInv, [Next]_vars,
           \A r \in Request : ~CreateLink(r) /\ ~CreateCommit(r)
    PROVE  /\ body' = body /\ hash_prev' = hash_prev /\ clock <= clock'
           /\ Ledger' = Ledger
           /\ \A c \in Request : \/ status'[c] = status[c]
                                 \/ status'[c] \in {"EXPIRED", "REVOKED"}
           /\ \A r \in Request : Creating(r)' => Creating(r)
<1> DEFINE P == /\ body' = body /\ hash_prev' = hash_prev /\ clock <= clock'
                /\ \A c \in Request : \/ status'[c] = status[c]
                                      \/ /\ status[c] # "ABSENT"
                                         /\ status'[c] \in {"EXPIRED", "REVOKED"}
                /\ \A r \in Request : Creating(r)' => Creating(r)
<1>1. TypeOK /\ FreshInv
  BY DEF LedgerInv
<1>2. ASSUME Tick \/ UNCHANGED vars PROVE P
  <2>1. /\ body' = body /\ hash_prev' = hash_prev /\ status' = status
        /\ step' = step
    BY <1>2 DEF Tick, vars
  <2>2. clock <= clock'
    BY <1>1, <1>2 DEF Tick, vars, TypeOK
  <2>3. QED
    BY <2>1, <2>2 DEF Creating
<1>3. ASSUME NEW r \in Request, CreateSupersede(r) PROVE P
  BY <1>1, <1>3 DEF CreateSupersede, Goes, TypeOK, Creating
<1>4. ASSUME NEW r \in Request, NEW c \in Request,
             GetRead(r, c) \/ VerifyRead(r, c) \/ RevokeRead(r, c)
      PROVE  P
  BY <1>1, <1>4 DEF GetRead, VerifyRead, RevokeRead, Goes, TypeOK, Creating
<1>5. ASSUME NEW r \in Request,
             ExpireCommit(r) \/ RevokeCommit(r) \/ PurgeCommit(r)
      PROVE  P
  <2>1. seen[r] \subseteq Ledger
    BY <1>1 DEF FreshInv
  <2>2. \A c \in Request : \/ status'[c] = status[c]
                           \/ /\ c \in seen[r]
                              /\ status'[c] \in {"EXPIRED", "REVOKED"}
    BY <1>1, <1>5 DEF ExpireCommit, RevokeCommit, PurgeCommit, TypeOK
  <2>3. /\ body' = body /\ hash_prev' = hash_prev /\ clock' = clock
        /\ step' = [step EXCEPT ![r] = "done"]
    BY <1>5 DEF ExpireCommit, RevokeCommit, PurgeCommit, Goes
  <2>4. QED
    BY <1>1, <2>1, <2>2, <2>3 DEF Ledger, TypeOK, Creating
<1>6. ASSUME NEW r \in Request, VerifyCommit(r) \/ PurgeScan(r) \/ PurgeQuery(r)
                                   \/ Abort(r)
      PROVE  P
  BY <1>1, <1>6 DEF VerifyCommit, PurgeScan, PurgeQuery, Abort, Goes, TypeOK,
                      Creating
<1>7. ASSUME NEW l \in Repayment, RecordRepayment(l) PROVE P
  BY <1>1, <1>7 DEF RecordRepayment, TypeOK, Creating
<1>8. P
  BY <1>2, <1>3, <1>4, <1>5, <1>6, <1>7 DEF Next, Tick, vars
<1>9. Ledger' = Ledger
  BY <1>8 DEF Ledger
<1>10. QED
  BY <1>8, <1>9

\* The audit log is append-only.
LEMMA AuditGrows ==
    ASSUME TypeOK, [Next]_vars, NEW c \in Request, NEW a, Audited(c, a)
    PROVE  Audited(c, a)'
<1>1. \/ audit'[c] = audit[c]
      \/ \E x \in AuditAction : audit'[c] = Append(audit[c], x)
      \/ audit'[c] = audit[c] \o <<"EXPIRED_AUTO", "VERIFIED">>
  <2>1. ASSUME NEW r \in Request,
               CreateCommit(r) \/ VerifyCommit(r) \/ RevokeCommit(r)
        PROVE  \E x \in AuditAction :
                  audit'[c] = Append(audit[c], x) \/ audit'[c] = audit[c]
    BY <2>1 DEF CreateCommit, VerifyCommit, RevokeCommit, AuditAction
  <2>2. ASSUME NEW r \in Request, ExpireCommit(r)
        PROVE  \/ audit'[c] = audit[c]
               \/ audit'[c] = Append(audit[c], "EXPIRED_AUTO")
               \/ audit'[c] = audit[c] \o <<"EXPIRED_AUTO", "VERIFIED">>
    BY <2>2 DEF ExpireCommit
  <2>3. "EXPIRED_AUTO" \in AuditAction
    BY DEF AuditAction
  <2>4. QED
    BY <2>1, <2>2, <2>3
       DEF Next, vars, Tick, CreateLink, CreateSupersede, GetRead, VerifyRead,
           RevokeRead, PurgeScan, PurgeQuery, PurgeCommit, Abort,
           RecordRepayment
<1>2. audit[c] \in Seq(AuditAction)
  BY DEF TypeOK
<1>3. <<"EXPIRED_AUTO", "VERIFIED">> \in Seq(AuditAction)
  BY DEF AuditAction
<1>4. PICK i \in DOMAIN audit[c] : audit[c][i] = a
  BY DEF Audited
<1>5. i \in DOMAIN audit'[c] /\ audit'[c][i] = audit[c][i]
  <2>1. i \in 1..Len(audit[c])
    BY <1>2, <1>4
  <2>2. CASE \E x \in AuditAction : audit'[c] = Append(audit[c], x)
    BY <1>2, <2>1, <2>2
  <2>3. CASE audit'[c] = audit[c] \o <<"EXPIRED_AUTO", "VERIFIED">>
    BY <1>2, <1>3, <2>1, <2>3
  <2>4. QED
    BY <1>1, <1>4, <2>2, <2>3
<1>6. QED
  BY <1>4, <1>5 DEF Audited

\* The rows of the ledger are immutable but for their status.
LEMMA RowsKept ==
    ASSUME LedgerInv, [Next]_vars, NEW c \in Ledger
    PROVE  c \in Ledger' /\ body'[c] = body[c] /\ clock <= clock'
<1>1. TypeOK /\ FreshInv
  BY DEF LedgerInv
<1>2. c \in Request /\ status[c] # "ABSENT"
  BY DEF Ledger
<1>3. ASSUME NEW r \in Request, CreateLink(r)
      PROVE  c \in Ledger' /\ body'[c] = body[c] /\ clock <= clock'
  <2>1. r # c /\ clock' = clock + 1 /\ status' = status
    BY <1>1, <1>2, <1>3 DEF CreateLink, Arrives, FreshInv
  <2>2. PICK b : body' = [body EXCEPT ![r] = b]
    BY <1>3 DEF CreateLink
  <2>3. QED
    BY <1>1, <1>2, <2>1, <2>2 DEF TypeOK, Ledger
<1>4. ASSUME NEW r \in Request, CreateCommit(r)
      PROVE  c \in Ledger' /\ body'[c] = body[c] /\ clock <= clock'
  BY <1>1, <1>2, <1>4 DEF CreateCommit, TypeOK, Ledger
<1>5. QED
  BY <1>3, <1>4, OtherSteps

Explained(c) ==
    /\ status[c] = "SUPERSEDED" => Audited(c, "SUPERSEDED")
    /\ status[c] = "REVOKED" => c \in revoked
    /\ status[c] = "EXPIRED" => body[c].expires_at < clock
    /\ c \in revoked => status[c] # "ACTIVE" /\ Audited(c, "REVOKED")

LEMMA ExplainedKept ==
    ASSUME LedgerInv, [Next]_vars, NEW c \in Ledger, Explained(c),
           status'[c] = status[c], c \in revoked' <=> c \in revoked
    PROVE  Explained(c)'
<1>1. c \in Request
  BY DEF Ledger
<1>2. body'[c] = body[c] /\ clock <= clock' /\ clock \in Nat /\ clock' \in Nat
  BY RowsKept, TypeStep DEF LedgerInv, TypeOK
<1>3. body[c] \in Body
  BY DEF LedgerInv, LinkInv, Written, Ledger
<1>4. \A a : Audited(c, a) => Audited(c, a)'
  BY <1>1, AuditGrows DEF LedgerInv
<1>5. QED
  BY <1>2, <1>3, <1>4 DEF Explained, Body

LEMMA StatusStep ==
    LedgerInv /\ StatusExplained /\ [Next]_vars => StatusExplained'
<1> SUFFICES ASSUME LedgerInv, StatusExplained, [Next]_vars,
                    NEW c \in Ledger'
             PROVE  Explained(c)'
  BY DEF StatusExplained, Explained
<1>1. c \in Request /\ TypeOK /\ FreshInv
  BY DEF Ledger, LedgerInv
<1>2. c \in Ledger => Explained(c)
  BY DEF StatusExplained, Explained
<1>3. ASSUME NEW r \in Request, CreateCommit(r) PROVE Explained(c)'
  <2>1. CASE c = r
    BY <1>1, <1>3, <2>1 DEF CreateCommit, Explained, FreshInv, Creating, Ledger, TypeOK
  <2>2. CASE c # r /\ c \in seen[r]
    <3>1. c \in Ledger /\ status'[c] = "SUPERSEDED" /\ revoked' = revoked
      BY <1>1, <1>3, <2>2 DEF CreateCommit, FreshInv, TypeOK
    <3>2. audit[c] \in Seq(AuditAction) /\ audit'[c] = Append(audit[c], "SUPERSEDED")
      BY <1>1, <1>3, <2>2 DEF CreateCommit, TypeOK
    <3>3. Audited(c, "SUPERSEDED")'
      BY <3>2 DEF Audited
    <3>4. Audited(c, "REVOKED") => Audited(c, "REVOKED")'
      BY <1>1, AuditGrows
    <3>5. QED
      BY <1>2, <3>1, <3>3, <3>4 DEF Explained
  <2>3. CASE c # r /\ c \notin seen[r]
    <3>1. status'[c] = status[c] /\ revoked' = revoked
      BY <1>1, <1>3, <2>3 DEF CreateCommit, TypeOK
    <3>2. c \in Ledger
      BY <3>1 DEF Ledger
    <3>3. QED
      BY <1>2, <3>1, <3>2, ExplainedKept
  <2>4. QED
    BY <2>1, <2>2, <2>3
<1>4. ASSUME NEW r \in Request, ExpireCommit(r) \/ PurgeCommit(r)
      PROVE  Explained(c)'
  <2>1. CASE c \in seen[r]
    <3>1. c \in Ledger /\ status'[c] = "EXPIRED" /\ revoked' = revoked
      BY <1>1, <1>4, <2>1 DEF ExpireCommit, PurgeCommit, FreshInv, TypeOK
    <3>2. body[c].expires_at < clock /\ body' = body /\ clock' = clock
      BY <1>1, <1>4, <2>1 DEF ExpireCommit, PurgeCommit, LedgerInv, SeenInv
    <3>3. Audited(c, "REVOKED") => Audited(c, "REVOKED")'
      BY <1>1, AuditGrows
    <3>4. QED
      BY <1>2, <3>1, <3>2, <3>3 DEF Explained
  <2>2. CASE c \notin seen[r]
    <3>1. status'[c] = status[c] /\ revoked' = revoked
      BY <1>1, <1>4, <2>2 DEF ExpireCommit, PurgeCommit, TypeOK
    <3>2. c \in Ledger
      BY <3>1 DEF Ledger
    <3>3. QED
      BY <1>2, <3>1, <3>2, ExplainedKept
  <2>3. QED
    BY <2>1, <2>2
<1>5. ASSUME NEW r \in Request, RevokeCommit(r) PROVE Explained(c)'
  <2>1. CASE c \in seen[r]
    <3>1. status'[c] = "REVOKED" /\ c \in revoked'
      BY <1>1, <1>5, <2>1 DEF RevokeCommit, TypeOK
    <3>2. audit[c] \in Seq(AuditAction) /\ audit'[c] = Append(audit[c], "REVOKED")
      BY <1>1, <1>5, <2>1 DEF RevokeCommit, TypeOK
    <3>3. Audited(c, "REVOKED")'
      BY <3>2 DEF Audited
    <3>4. QED
      BY <3>1, <3>3 DEF Explained
  <2>2. CASE c \notin seen[r]
    <3>1. status'[c] = status[c] /\ (c \in revoked' <=> c \in revoked)
      BY <1>1, <1>5, <2>2 DEF RevokeCommit, TypeOK
    <3>2. c \in Ledger
      BY <3>1 DEF Ledger
    <3>3. QED
      BY <1>2, <3>1, <3>2, ExplainedKept
  <2>3. QED
    BY <2>1, <2>2
<1>6. CASE status' = status /\ revoked' = revoked
  <2>1. c \in Ledger
    BY <1>6 DEF Ledger
  <2>2. QED
    BY <1>2, <1>6, <2>1, ExplainedKept
<1>7. QED
  BY <1>3, <1>4, <1>5, <1>6
     DEF Next, vars, Tick, CreateLink, CreateSupersede, GetRead, VerifyRead,
         VerifyCommit, RevokeRead, PurgeScan, PurgeQuery, Abort,
         RecordRepayment

(***************************************************************************)
(* The status of a committed record always has its explanation: the audit  *)
(* row, the revocation time or the lapse of its term (StatusExplained).    *)
(***************************************************************************)
THEOREM StatusIsExplained == Spec => []StatusExplained
<1>1. Init => StatusExplained
  BY DEF Init, StatusExplained, Ledger
<1>2. QED
  BY <1>1, StatusStep, LedgerInvariant, PTL DEF Spec

(***************************************************************************)
(* No request brings a consent back, whatever it read before               *)
(* (NoReactivation).                                                       *)
(***************************************************************************)
THEOREM ConsentStaysDown == Spec => NoReactivation
<1>1. LedgerInv /\ [Next]_vars
         => [\A c \in Ledger : status[c] # "ACTIVE" => status'[c] # "ACTIVE"]_vars
  <2> SUFFICES ASSUME LedgerInv, Next, NEW c \in Ledger, status[c] # "ACTIVE"
               PROVE  status'[c] # "ACTIVE"
    BY DEF vars
  <2>1. c \in Request /\ status[c] # "ABSENT" /\ TypeOK /\ FreshInv
    BY DEF Ledger, LedgerInv
  <2>2. ASSUME NEW r \in Request, CreateCommit(r) PROVE status'[c] # "ACTIVE"
    <3>1. r # c
      BY <2>1, <2>2 DEF CreateCommit, FreshInv, Creating
    <3>2. QED
      BY <2>1, <2>2, <3>1 DEF CreateCommit, TypeOK
  <2>3. QED
    BY <2>1, <2>2
       DEF TypeOK, Next, vars, Tick, CreateLink, CreateSupersede, GetRead,
           VerifyRead, ExpireCommit, VerifyCommit, RevokeRead, RevokeCommit,
           PurgeScan, PurgeQuery, PurgeCommit, Abort, RecordRepayment
<1>2. QED
  BY <1>1, LedgerInvariant, PTL DEF Spec, NoReactivation

(***************************************************************************)
(* Of the records for a purpose one is never superseded, although two      *)
(* creates may overlap (PurposeNotLost).                                   *)
(***************************************************************************)
THEOREM PurposeIsNotLost == Spec => []PurposeNotLost
<1>1. Init => PurposeNotLost
  BY DEF Init, PurposeNotLost, Ledger
<1>2. LedgerInv /\ PurposeNotLost /\ [Next]_vars => PurposeNotLost'
  <2> SUFFICES ASSUME LedgerInv, PurposeNotLost, [Next]_vars
               PROVE  PurposeNotLost'
    OBVIOUS
  <2>1. TypeOK /\ FreshInv /\ SeenInv
    BY DEF LedgerInv
  <2>2. ASSUME NEW r \in Request, CreateCommit(r) PROVE PurposeNotLost'
    <3>0. /\ body' = body
          /\ status'[r] = "ACTIVE"
          /\ \A c \in Request \ {r} :
                status'[c] = IF c \in seen[r] THEN "SUPERSEDED" ELSE status[c]
      BY <2>2 DEF CreateCommit
    <3>1. /\ r \in Ledger'
          /\ \A c \in Ledger' : c # r => c \in Ledger
      BY <2>1, <3>0 DEF Ledger, FreshInv
    <3> SUFFICES ASSUME NEW c \in Ledger'
                 PROVE  \E d \in Ledger' : /\ body'[d].purpose = body'[c].purpose
                                           /\ status'[d] # "SUPERSEDED"
      BY DEF PurposeNotLost
    <3>2. CASE body[c].purpose = body[r].purpose
      BY <3>0, <3>1, <3>2
    <3>3. CASE body[c].purpose # body[r].purpose
      <4>1. PICK d \in Ledger : /\ body[d].purpose = body[c].purpose
                                /\ status[d] # "SUPERSEDED"
        BY <3>1, <3>3 DEF PurposeNotLost
      <4>2. d \notin seen[r]
        BY <2>1, <2>2, <3>3, <4>1 DEF SeenInv, CreateCommit
      <4>3. d \in Ledger' /\ status'[d] # "SUPERSEDED"
        BY <3>0, <4>1, <4>2 DEF Ledger
      <4>4. QED
        BY <3>0, <4>1, <4>3
    <3>4. QED
      BY <3>2, <3>3
  <2>3. ASSUME Ledger' = Ledger,
               \A c \in Ledger : status'[c] = "SUPERSEDED"
                                   => status[c] = "SUPERSEDED"
        PROVE  PurposeNotLost'
    <3>1. \A c \in Ledger : body'[c] = body[c]
      BY RowsKept
    <3>2. QED
      BY <2>3, <3>1 DEF PurposeNotLost
  <2>4. ASSUME NEW r \in Request, CreateLink(r) PROVE PurposeNotLost'
    BY <2>3, <2>4 DEF CreateLink, Ledger
  <2>5. CASE \A r \in Request : ~CreateLink(r) /\ ~CreateCommit(r)
    BY <2>3, <2>5, OtherSteps DEF Ledger
  <2>6. QED
    BY <2>2, <2>4, <2>5
<1>3. QED
  BY <1>1, <1>2, LedgerInvariant, PTL DEF Spec

----------------------------------------------------------------------------
(***************************************************************************)
(* Requests one at a time.  The link a create has chosen is still free when*)
(* it commits: no committed record has taken it, because the newest record *)
(* of the ledger is older than every record that points to it could be.    *)
(***************************************************************************)
OneAtATime == Serial => \A r, q \in InFlight : r = q

LinkFree ==
    Serial => \A r \in Request : Creating(r) =>
                  \A d \in Ledger : hash_prev[d] # hash_prev[r]

LineInv == OneAtATime /\ LinkFree /\ (Serial => LinearChain)

\* The newest record has no successor yet.
LEMMA NewestIsFree ==
    ASSUME LedgerInv, NEW p, NEW h \in LatestHash(p), NEW d \in Ledger
    PROVE  hash_prev[d] # h
<1> SUFFICES ASSUME hash_prev[d] = h PROVE FALSE
  OBVIOUS
<1>1. h \in Ledger /\ body[d].created_at <= body[h].created_at
  BY DEF LatestHash
<1>2. h # Genesis
  BY <1>1, LedgerAssumption DEF Ledger
<1>3. Grounded(d) /\ body[d] \in Body
  BY DEF LedgerInv, LinkInv, Written, Ledger
<1>4. body[h] \in Body
  BY <1>1 DEF LedgerInv, LinkInv, Written, Ledger
<1>5. body[h].created_at < body[d].created_at
  BY <1>2, <1>3 DEF Grounded
<1>6. QED
  BY <1>1, <1>3, <1>4, <1>5 DEF Body

LEMMA OneAtATimeStep ==
    TypeOK /\ OneAtATime /\ [Next]_vars => OneAtATime'
<1> SUFFICES ASSUME TypeOK, OneAtATime, [Next]_vars, Serial,
                    NEW r \in InFlight', NEW q \in InFlight'
             PROVE  r = q
  BY DEF OneAtATime
<1>1. CASE \E a \in Request : step[a] = "idle" /\ InFlight = {}
                              /\ \A b \in Request \ {a} : step'[b] = step[b]
  BY <1>1 DEF InFlight
<1>2. CASE \A b \in Request : b \in InFlight' => b \in InFlight
  BY <1>2 DEF OneAtATime, InFlight
<1>3. ASSUME NEW a \in Request, CreateLink(a) PROVE r = q
  BY <1>1, <1>3 DEF CreateLink, Arrives, Goes, TypeOK
<1>4. ASSUME NEW a \in Request, NEW c \in Request,
             GetRead(a, c) \/ VerifyRead(a, c) \/ RevokeRead(a, c)
      PROVE  r = q
  BY <1>1, <1>4 DEF GetRead, VerifyRead, RevokeRead, Arrives, Goes, TypeOK
<1>5. ASSUME NEW a \in Request, PurgeScan(a) PROVE r = q
  BY <1>1, <1>5 DEF PurgeScan, Arrives, Goes, TypeOK
<1>6. ASSUME NEW a \in Request, CreateSupersede(a) \/ PurgeQuery(a)
      PROVE  r = q
  BY <1>2, <1>6 DEF CreateSupersede, PurgeQuery, Goes, InFlight, TypeOK
<1>7. ASSUME NEW a \in Request,
             \/ CreateCommit(a) \/ ExpireCommit(a) \/ VerifyCommit(a)
             \/ RevokeCommit(a) \/ PurgeCommit(a) \/ Abort(a)
      PROVE  r = q
  <2>1. step' = [step EXCEPT ![a] = "done"]
    BY <1>7 DEF CreateCommit, ExpireCommit, VerifyCommit, RevokeCommit,
                PurgeCommit, Abort, Goes
  <2>2. QED
    BY <1>2, <2>1 DEF InFlight, TypeOK
<1>8. CASE UNCHANGED step
  BY <1>2, <1>8 DEF InFlight
<1>9. QED
  BY <1>3, <1>4, <1>5, <1>6, <1>7, <1>8
     DEF Next, vars, Tick, RecordRepayment

LEMMA LineStep == LedgerInv /\ LineInv /\ [Next]_vars => LineInv'
<1> SUFFICES ASSUME LedgerInv, LineInv, [Next]_vars PROVE LineInv'
  OBVIOUS
<1>1. TypeOK /\ FreshInv
  BY DEF LedgerInv
<1>2. OneAtATime'
  BY <1>1, OneAtATimeStep DEF LineInv
<1> SUFFICES ASSUME Serial PROVE LinkFree' /\ LinearChain'
  BY <1>2 DEF LineInv, LinkFree
<1>3. LinearChain /\ LinkFree /\ OneAtATime
  BY DEF LineInv
<1>4. ASSUME NEW r \in Request, CreateLink(r) PROVE LinkFree' /\ LinearChain'
  <2>1. /\ step[r] = "idle" /\ r \notin Ledger /\ Ledger' = Ledger
        /\ InFlight = {}
        /\ step' = [step EXCEPT ![r] = "linking"]
    BY <1>1, <1>4 DEF CreateLink, Arrives, Goes, FreshInv, Ledger
  <2>2a. PICK p \in Purpose :
              \E h \in LatestHash(p) : hash_prev' = [hash_prev EXCEPT ![r] = h]
    BY <1>4 DEF CreateLink
  <2>2. PICK h \in LatestHash(p) : hash_prev' = [hash_prev EXCEPT ![r] = h]
    BY <2>2a
  <2>3. \A d \in Ledger : hash_prev'[d] = hash_prev[d]
    BY <1>1, <2>1, <2>2 DEF TypeOK, Ledger
  <2>4. LinearChain'
    BY <1>3, <2>1, <2>3 DEF LinearChain
  <2>5. \A q \in Request : Creating(q)' => q = r
    BY <1>1, <2>1 DEF Creating, InFlight, TypeOK
  <2>6. hash_prev'[r] = h
    BY <1>1, <2>2 DEF TypeOK
  <2>7. \A d \in Ledger : hash_prev[d] # h
    BY NewestIsFree
  <2>8. LinkFree'
    BY <2>1, <2>3, <2>5, <2>6, <2>7 DEF LinkFree
  <2>9. QED
    BY <2>4, <2>8
<1>5. ASSUME NEW r \in Request, CreateCommit(r) PROVE LinkFree' /\ LinearChain'
  <2>1. /\ Creating(r) /\ hash_prev' = hash_prev
        /\ step' = [step EXCEPT ![r] = "done"]
        /\ \A c \in Ledger' : c # r => c \in Ledger
    BY <1>1, <1>5 DEF CreateCommit, Goes, Creating, Ledger, FreshInv, TypeOK
  <2>2. \A d \in Ledger : hash_prev[d] # hash_prev[r]
    BY <1>3, <2>1 DEF LinkFree
  <2>3. LinearChain'
    BY <1>3, <2>1, <2>2 DEF LinearChain
  <2>4. r \in InFlight
    BY <2>1 DEF Creating, InFlight
  <2>5. \A q \in Request : ~Creating(q)'
    BY <1>1, <1>3, <2>1, <2>4 DEF OneAtATime, Creating, InFlight, TypeOK
  <2>6. QED
    BY <2>3, <2>5 DEF LinkFree
<1>6. CASE \A r \in Request : ~CreateLink(r) /\ ~CreateCommit(r)
  BY <1>3, <1>6, OtherSteps DEF LinkFree, LinearChain
<1>7. QED
  BY <1>4, <1>5, <1>6

(***************************************************************************)
(* When requests do not overlap, the records of a borrower form one chain  *)
(* (LinearChain).                                                          *)
(***************************************************************************)
THEOREM SerialChainIsLinear == Spec => [](Serial => LinearChain)
<1>1. Init => LineInv
  BY DEF Init, LineInv, OneAtATime, LinkFree, LinearChain, InFlight, Creating,
         Ledger
<1>2. LineInv => (Serial => LinearChain)
  BY DEF LineInv
<1>3. QED
  BY <1>1, <1>2, LineStep, LedgerInvariant, PTL DEF Spec

----------------------------------------------------------------------------
(***************************************************************************)
(* Still one at a time: the rows a create has marked are all there is to   *)
(* supersede when it commits.                                              *)
(***************************************************************************)
AllSeen ==
    Serial => \A r \in Request : step[r] = "superseding" => seen[r] = Superseded(r)

ReplacesInv == OneAtATime /\ AllSeen /\ (Serial => AtMostOneActive)

\* Outside a create, records only leave the set of ACTIVE ones.
LEMMA OthersOnlyEnd ==
    ASSUME LedgerInv, [Next]_vars,
           \A r \in Request : ~CreateLink(r) /\ ~CreateCommit(r)
    PROVE  body' = body /\ Ledger' = Ledger /\ Active' \subseteq Active
<1>1. /\ body' = body /\ Ledger' = Ledger
      /\ \A c \in Request : \/ status'[c] = status[c]
                            \/ status'[c] \in {"EXPIRED", "REVOKED"}
  BY OtherSteps
<1>2. \A c \in Ledger : c \in Request
  BY DEF Ledger
<1>3. \A c \in Ledger : status'[c] = "ACTIVE" => status[c] = "ACTIVE"
  BY <1>1, <1>2
<1>4. QED
  BY <1>1, <1>3 DEF Active

LEMMA ReplacesStep == LedgerInv /\ ReplacesInv /\ [Next]_vars => ReplacesInv'
<1> SUFFICES ASSUME LedgerInv, ReplacesInv, [Next]_vars PROVE ReplacesInv'
  OBVIOUS
<1>1. TypeOK /\ FreshInv
  BY DEF LedgerInv
<1>2. OneAtATime'
  BY <1>1, OneAtATimeStep DEF ReplacesInv
<1> SUFFICES ASSUME Serial PROVE AllSeen' /\ AtMostOneActive'
  BY <1>2 DEF ReplacesInv, AllSeen
<1>3. AllSeen /\ AtMostOneActive /\ OneAtATime
  BY DEF ReplacesInv
<1>4. ASSUME NEW r \in Request, CreateLink(r) PROVE AllSeen' /\ AtMostOneActive'
  <2>1. /\ r \notin Ledger /\ status' = status /\ InFlight = {}
        /\ step' = [step EXCEPT ![r] = "linking"]
        /\ \A c \in Ledger : body'[c] = body[c]
    BY <1>1, <1>4, RowsKept DEF CreateLink, Arrives, Goes, FreshInv, Ledger
  <2>2. \A q \in Request : step'[q] # "superseding"
    BY <1>1, <2>1 DEF InFlight, TypeOK
  <2>3. Active' = Active
    BY <2>1 DEF Active, Ledger
  <2>4. \A c \in Active : body'[c] = body[c]
    BY <2>1 DEF Active
  <2>5. QED
    BY <1>3, <2>2, <2>3, <2>4 DEF AllSeen, AtMostOneActive
<1>5. ASSUME NEW r \in Request, CreateCommit(r) PROVE AllSeen' /\ AtMostOneActive'
  <2>1. seen[r] = Superseded(r) /\ body' = body /\ step' = [step EXCEPT ![r] = "done"]
    BY <1>3, <1>5 DEF CreateCommit, Goes, AllSeen
  <2>2. Active' \subseteq (Active \ seen[r]) \cup {r}
    BY <1>1, <1>5 DEF CreateCommit, Active, Ledger, TypeOK
  <2>3. AtMostOneActive'
    BY <1>3, <2>1, <2>2 DEF AtMostOneActive, Superseded
  <2>4. \A q \in Request : step'[q] # "superseding"
    <3>1. r \in InFlight
      BY <1>5 DEF CreateCommit, InFlight
    <3>2. QED
      BY <1>1, <1>3, <2>1, <3>1 DEF OneAtATime, InFlight, TypeOK
  <2>5. QED
    BY <2>3, <2>4 DEF AllSeen
<1>6. ASSUME NEW r \in Request, CreateSupersede(r) PROVE AllSeen' /\ AtMostOneActive'
  <2>1. /\ UNCHANGED <<body, status>>
        /\ seen' = [seen EXCEPT ![r] = Superseded(r)]
        /\ step' = [step EXCEPT ![r] = "superseding"]
    BY <1>6 DEF CreateSupersede, Goes
  <2>2. Active' = Active /\ \A q \in Request : Superseded(q)' = Superseded(q)
    BY <2>1 DEF Active, Ledger, Superseded
  <2>3. AtMostOneActive'
    BY <1>3, <2>1, <2>2 DEF AtMostOneActive
  <2>4. AllSeen'
    BY <1>1, <1>3, <2>1, <2>2 DEF AllSeen, TypeOK
  <2>5. QED
    BY <2>3, <2>4
<1>7. CASE /\ \A r \in Request : ~CreateLink(r) /\ ~CreateCommit(r) /\ ~CreateSupersede(r)
           /\ status' # status
  <2>1. PICK r \in Request : ExpireCommit(r) \/ RevokeCommit(r) \/ PurgeCommit(r)
    BY <1>7 DEF Next, vars, Tick, GetRead, VerifyRead, VerifyCommit, RevokeRead,
                PurgeScan, PurgeQuery, Abort, RecordRepayment
  <2>2. r \in InFlight /\ step' = [step EXCEPT ![r] = "done"]
    BY <2>1 DEF ExpireCommit, RevokeCommit, PurgeCommit, Goes, InFlight
  <2>3. \A q \in Request : step'[q] # "superseding"
    BY <1>1, <1>3, <2>2 DEF OneAtATime, InFlight, TypeOK
  <2>4. body' = body /\ Active' \subseteq Active
    BY <1>7, OthersOnlyEnd
  <2>5. QED
    BY <1>3, <2>3, <2>4 DEF AllSeen, AtMostOneActive
<1>8. CASE /\ \A r \in Request : ~CreateLink(r) /\ ~CreateCommit(r) /\ ~CreateSupersede(r)
           /\ status' = status
  <2>1. body' = body /\ Active' = Active
    BY <1>8, OtherSteps DEF Active, Ledger
  <2>2. \A q \in Request : step'[q] = "superseding" => step[q] = "superseding" /\ seen'[q] = seen[q]
    BY <1>1, <1>8 DEF Next, vars, Tick, GetRead, VerifyRead, ExpireCommit, VerifyCommit,
                 RevokeRead, RevokeCommit, PurgeScan, PurgeQuery, PurgeCommit, Abort,
                 RecordRepayment, Goes, TypeOK
  <2>3. QED
    BY <1>3, <2>1, <2>2 DEF AllSeen, AtMostOneActive, Superseded
<1>9. QED
  BY <1>4, <1>5, <1>6, <1>7, <1>8

(***************************************************************************)
(* When requests do not overlap, a borrower has at most one ACTIVE record  *)
(* for a purpose (AtMostOneActive).                                        *)
(***************************************************************************)
THEOREM SerialReConsentReplaces == Spec => [](Serial => AtMostOneActive)
<1>1. Init => ReplacesInv
  BY DEF Init, ReplacesInv, OneAtATime, AllSeen, AtMostOneActive, InFlight, Active, Ledger
<1>2. ReplacesInv => (Serial => AtMostOneActive)
  BY DEF ReplacesInv
<1>3. QED
  BY <1>1, <1>2, ReplacesStep, LedgerInvariant, PTL DEF Spec

----------------------------------------------------------------------------
(***************************************************************************)
(* Still one at a time: from the query of the retention worker to its      *)
(* commit no other request is in progress, so that what was ACTIVE then    *)
(* and still is the worker has seen, and expires.                          *)
(***************************************************************************)
NothingElseActive ==
    \A r \in Request : step[r] = "anonymising" => Active \subseteq seen[r]

AnonymiseInv == TypeOK /\ OneAtATime /\ NothingElseActive

LEMMA AnonymiseStep ==
    ASSUME Serial, AnonymiseInv, [Next]_vars
    PROVE  NothingElseActive'
<1> SUFFICES ASSUME NEW r \in Request, step'[r] = "anonymising", NEW c \in Active'
             PROVE  c \in seen'[r]
  BY DEF NothingElseActive
<1>1. TypeOK /\ OneAtATime /\ NothingElseActive /\ c \in Request /\ status'[c] = "ACTIVE"
  BY DEF AnonymiseInv, Active, Ledger
<1>2. CASE step[r] = "anonymising" /\ seen'[r] = seen[r] /\ status' = status
  BY <1>1, <1>2 DEF NothingElseActive, Active, Ledger
<1>3. CASE Tick \/ UNCHANGED vars \/ \E l \in Repayment : RecordRepayment(l)
  BY <1>2, <1>3 DEF Tick, RecordRepayment, vars
<1>4. ASSUME NEW q \in Request, PurgeQuery(q) PROVE c \in seen'[r]
  <2>1. step[q] = "scanning" /\ status' = status /\ seen'[q] = seen[q]
        /\ (step'[q] = "anonymising" => Active \subseteq seen[q])
    BY <1>1, <1>4 DEF PurgeQuery, Goes, NothingLeft, TypeOK
  <2>2. CASE r = q
    BY <1>1, <2>1, <2>2 DEF Active, Ledger
  <2>3. CASE r # q
    BY <1>1, <1>2, <1>4, <2>3 DEF PurgeQuery, Goes, TypeOK
  <2> QED
    BY <2>2, <2>3
<1>5. ASSUME NEW q \in Request, q \in InFlight, step'[q] # "anonymising",
             \A p \in Request \ {q} : step'[p] = step[p]
      PROVE  FALSE
  BY <1>1, <1>5 DEF OneAtATime, InFlight
<1>6. ASSUME NEW q \in Request, InFlight = {}, step'[q] # "anonymising",
             \A p \in Request \ {q} : step'[p] = step[p]
      PROVE  FALSE
  BY <1>1, <1>6 DEF InFlight
<1>7. ASSUME NEW q \in Request,
             \/ CreateSupersede(q) \/ CreateCommit(q) \/ ExpireCommit(q) \/ VerifyCommit(q)
             \/ RevokeCommit(q) \/ PurgeCommit(q) \/ Abort(q)
      PROVE  FALSE
  <2>1. /\ q \in InFlight /\ step'[q] \in {"superseding", "done"}
        /\ \A p \in Request \ {q} : step'[p] = step[p]
    BY <1>1, <1>7 DEF CreateSupersede, CreateCommit, ExpireCommit, VerifyCommit,
                      RevokeCommit, PurgeCommit, Abort, Goes, InFlight, TypeOK
  <2> QED
    BY <1>5, <2>1
<1>8. ASSUME NEW q \in Request,
             \/ CreateLink(q) \/ PurgeScan(q)
             \/ \E d \in Request : GetRead(q, d) \/ VerifyRead(q, d) \/ RevokeRead(q, d)
      PROVE  FALSE
  <2>1. /\ InFlight = {} /\ step'[q] # "anonymising"
        /\ \A p \in Request \ {q} : step'[p] = step[p]
    BY <1>1, <1>8 DEF CreateLink, PurgeScan, GetRead, VerifyRead, RevokeRead, Arrives,
                      Goes, TypeOK
  <2> QED
    BY <1>6, <2>1
<1> QED
  BY <1>3, <1>4, <1>7, <1>8 DEF Next

(***************************************************************************)
(* When requests do not overlap, the retention worker anonymises a borrower*)
(* only if no consent is ACTIVE at its commit                              *)
(* (AnonymisesOnlyWithoutConsent).                                         *)
(***************************************************************************)
THEOREM SerialAnonymises ==
    ASSUME Serial
    PROVE  Spec => AnonymisesOnlyWithoutConsent
<1>1. Init => AnonymiseInv
  BY InitTypeOK DEF Init, AnonymiseInv, OneAtATime, NothingElseActive, InFlight
<1>2. AnonymiseInv /\ [Next]_vars => AnonymiseInv'
  BY TypeStep, OneAtATimeStep, AnonymiseStep DEF AnonymiseInv
<1>3. AnonymiseInv /\ [Next]_vars
         => [pii' # pii => \A c \in Ledger : status'[c] # "ACTIVE"]_vars
  <2> SUFFICES ASSUME AnonymiseInv, Next, pii' # pii, NEW c \in Ledger
               PROVE  status'[c] # "ACTIVE"
    BY DEF vars
  <2>1. PICK r \in Request : PurgeCommit(r) /\ step[r] = "anonymising"
    BY DEF Next, Tick, CreateLink, CreateSupersede, CreateCommit, GetRead, VerifyRead,
           ExpireCommit, VerifyCommit, RevokeRead, RevokeCommit, PurgeScan, PurgeQuery,
           PurgeCommit, Abort, RecordRepayment
  <2>2. c \in Request /\ Active \subseteq seen[r]
    BY <2>1 DEF AnonymiseInv, NothingElseActive, Ledger
  <2> QED
    BY <2>1, <2>2 DEF PurgeCommit, Active
<1> QED
  BY <1>1, <1>2, <1>3, PTL DEF Spec, AnonymisesOnlyWithoutConsent

----------------------------------------------------------------------------
(***************************************************************************)
(* The ledger implements Consent.  A create grants its record when it      *)
(* commits, the commits of the other requests end records, and every other *)
(* step changes nothing that Consent can see.                              *)
(***************************************************************************)
LEMMA TermsSeen ==
    ASSUME LedgerInv, [Next]_vars, Ledger' = Ledger
    PROVE  Terms' = Terms
<1>1. \A c \in Ledger : body'[c] = body[c]
  BY RowsKept
<1>2. QED
  BY <1>1 DEF Terms

LEMMA RefinementStep == LedgerInv /\ [Next]_vars => [C!Next]_(C!consentVars)
<1> SUFFICES ASSUME LedgerInv, [Next]_vars PROVE [C!Next]_(C!consentVars)
  OBVIOUS
<1>1. TypeOK /\ FreshInv
  BY DEF LedgerInv
<1>2. ASSUME NEW r \in Request, CreateLink(r) PROVE UNCHANGED C!consentVars
  <2>1. Active' = Active /\ Ledger' = Ledger
    BY <1>2 DEF CreateLink, Active, Ledger
  <2>2. QED
    BY <2>1, TermsSeen DEF C!consentVars
<1>3. ASSUME NEW r \in Request, CreateCommit(r) PROVE C!Grant(r)
  <2> DEFINE old == Active \cap seen[r]
             p == body[r].purpose
             ds == body[r].data_sources
  <2>1. r \notin Ledger /\ body' = body /\ body[r] \in Body
    BY <1>1, <1>3 DEF CreateCommit, FreshInv, Ledger, Creating, LedgerInv, LinkInv, Written
  <2>2. Ledger' = Ledger \cup {r} /\ Active' = (Active \ old) \cup {r}
    BY <1>1, <1>3 DEF CreateCommit, FreshInv, Ledger, Active, TypeOK
  <2>3. (Ledger \ Active)' = (Ledger \ Active) \cup old
    BY <2>1, <2>2 DEF Active
  <2>4. Terms' = [Terms EXCEPT ![r] = [purpose |-> p, data_sources |-> ds]]
    BY <2>1, <2>2 DEF Terms
  <2>5. \A d \in old : d \in Active /\ Terms[d].purpose = p
    BY <1>3 DEF CreateCommit, LedgerInv, SeenInv, Terms, Active, Ledger
  <2>6. r \notin Active \cup (Ledger \ Active)
    BY <2>1 DEF Active
  <2>7. p \in Purpose /\ ds \in SourceSets
    BY <2>1 DEF Body
  <2>8. old \in SUBSET {d \in Active : Terms[d].purpose = p}
    BY <2>5
  <2>9. QED
    BY <2>2, <2>3, <2>4, <2>6, <2>7, <2>8 DEF C!Grant
<1>4. CASE \A r \in Request : ~CreateLink(r) /\ ~CreateCommit(r)
  <2>1. Ledger' = Ledger /\ Active' \subseteq Active
    BY <1>4, OthersOnlyEnd
  <2>2. Terms' = Terms
    BY <2>1, TermsSeen
  <2>3. CASE Active' = Active
    BY <2>1, <2>2, <2>3 DEF C!consentVars
  <2>4. CASE Active' # Active
    <3> DEFINE records == Active \ Active'
    <3>1. records # {} /\ records \in SUBSET Active
      BY <2>1, <2>4
    <3>2. Active' = Active \ records
      BY <2>1
    <3>3. (Ledger \ Active)' = (Ledger \ Active) \cup records
      BY <2>1 DEF Active
    <3>4. C!End(records)
      BY <2>2, <3>1, <3>2, <3>3 DEF C!End
    <3>5. QED
      BY <3>1, <3>4 DEF C!Next
  <2>5. QED
    BY <2>3, <2>4
<1>5. QED
  BY <1>2, <1>3, <1>4 DEF C!Next

(***************************************************************************)
(* The detailed ledger implements the abstract one (ImplementsConsent),    *)
(* for every set of requests, purposes, source lists and durations.        *)
(***************************************************************************)
THEOREM LedgerImplementsConsent == Spec => ImplementsConsent
<1>1. Init => C!Init
  BY DEF Init, C!Init, Active, Ledger, Terms
<1>2. QED
  BY <1>1, RefinementStep, LedgerInvariant, PTL DEF Spec, ImplementsConsent, C!Spec
============================================================================

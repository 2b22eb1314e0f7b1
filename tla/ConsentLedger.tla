--------------------------- MODULE ConsentLedger ---------------------------
(***************************************************************************)
(* The consent ledger of ONE borrower: services/core/consent/service.py    *)
(* with the session rules of services/core/database.py, and the retention  *)
(* worker of services/core/monitoring/service.py, which writes the same    *)
(* rows.                                                                   *)
(*                                                                         *)
(* Every request runs in a database session of its own, in READ COMMITTED: *)
(* its statements read committed rows, its writes become visible together  *)
(* when get_db (or the worker) commits, and an exception or a crash before *)
(* the commit rolls all of them back.  A handler is therefore one action   *)
(* per group of reads and one action for its commit; between the two any   *)
(* other request may commit.  The ORM writes "UPDATE ... WHERE id", with   *)
(* no test of the status that was read.                                    *)
(*                                                                         *)
(* A consent record is named by the request that created it, and a hash    *)
(* by the record it is the hash_current of: SHA-256 over the issue time    *)
(* and the previous hash is taken to be injective.                         *)
(***************************************************************************)
EXTENDS Naturals, Sequences

CONSTANTS
    Request,      \* HTTP requests and runs of the retention worker
    Purpose,      \* ConsentPurpose
    SourceSets,   \* the data_sources lists a borrower may grant
    Duration,     \* consent durations, in clock units
    Repayment,    \* repayment records of the borrower's loans
    Genesis,      \* the genesis hash of the borrower
    Null,         \* no value
    Serial,       \* TRUE: a request starts only when no other is in progress
    MaxClock      \* bound of the model on the clock

ASSUME LedgerAssumption ==
    /\ Genesis \notin Request
    /\ Duration \subseteq Nat
    /\ Serial \in BOOLEAN
    /\ MaxClock \in Nat

VARIABLES
    clock,        \* now; also orders transaction starts (created_at)
    body,         \* purpose, sources, creation and expiry time of a record
    hash_prev,    \* column hash_prev
    status,       \* column status; "ABSENT" until the insert commits
    revoked,      \* the records whose revoked_at is set
    audit,        \* consent_audit_log, per record, in commit order
    retraining,   \* RepaymentRecord.consented_for_retraining
    pii,          \* the borrower's name, phone and Aadhaar reference
    step,         \* how far each request has come
    seen          \* the records a request read and will write at its commit

vars == <<clock, body, hash_prev, status, revoked, audit, retraining, pii,
          step, seen>>

Status == {"ABSENT", "ACTIVE", "EXPIRED", "REVOKED", "SUPERSEDED"}

\* ACCESSED, which the column also allows, is written nowhere.
AuditAction == {"CREATED", "SUPERSEDED", "EXPIRED_AUTO", "REVOKED", "VERIFIED"}

Body == [purpose : Purpose, data_sources : SourceSets,
         created_at : Nat, expires_at : Nat]

Step == {"idle", "linking", "superseding", "expiring", "verifying",
         "verifying_lapsed", "revoking", "scanning", "purging", "anonymising",
         "done"}

InFlight == {r \in Request : step[r] \notin {"idle", "done"}}

\* The committed rows of consent_records.
Ledger == {c \in Request : status[c] # "ABSENT"}

Active == {c \in Ledger : status[c] = "ACTIVE"}

\* Seeded fault for Lapsed: a record lapses in the instant it expires.
LapsedInclusive(c) == c \in Active /\ body[c].expires_at <= clock

\* consent.status == "ACTIVE" and expires_at < now, the lazy expiration test.
Lapsed(c) == c \in Active /\ body[c].expires_at < clock

----------------------------------------------------------------------------
Init ==
    /\ clock = 1
    /\ body = [r \in Request |-> Null]
    /\ hash_prev = [r \in Request |-> Genesis]
    /\ status = [r \in Request |-> "ABSENT"]
    /\ revoked = {}
    /\ audit = [r \in Request |-> << >>]
    /\ retraining = [l \in Repayment |-> "none"]
    /\ pii = "PRESENT"
    /\ step = [r \in Request |-> "idle"]
    /\ seen = [r \in Request |-> {}]

Tick ==
    /\ clock < MaxClock
    /\ clock' = clock + 1
    /\ UNCHANGED <<body, hash_prev, status, revoked, audit, retraining, pii,
                   step, seen>>

\* A request arrives; Serial restricts a run to one request at a time.
Arrives(r) ==
    /\ step[r] = "idle"
    /\ Serial => InFlight = {}

Goes(r, to, records) ==
    /\ step' = [step EXCEPT ![r] = to]
    /\ seen' = [seen EXCEPT ![r] = records]

\* Rows the retention worker's bulk UPDATE has locked until its commit.
Unlocked(records) ==
    \A p \in Request : step[p] \in {"scanning", "purging", "anonymising"}
                       => seen[p] \cap records = {}

\* Seeded faults for LatestHash: no genesis hash for the first record; a last
\* hash kept in process memory, which also holds rows not committed yet; a
\* chain per purpose.
LatestHashNoGenesis(p) ==
    IF Ledger = {} THEN {Null}
    ELSE {c \in Ledger : \A d \in Ledger :
                             body[d].created_at <= body[c].created_at}

LatestHashCached(p) ==
    LET Known == Ledger \cup {r \in Request : step[r] = "superseding"}
    IN IF Known = {} THEN {Genesis}
       ELSE {c \in Known : \A d \in Known :
                               body[d].created_at <= body[c].created_at}

LatestHashOfPurpose(p) ==
    LET Same == {c \in Ledger : body[c].purpose = p}
    IN IF Same = {} THEN {Genesis}
       ELSE {c \in Same : \A d \in Same :
                              body[d].created_at <= body[c].created_at}

\* _get_latest_hash: the newest committed record of the borrower by
\* created_at, whatever its purpose p and its status.
LatestHash(p) ==
    IF Ledger = {} THEN {Genesis}
    ELSE {c \in Ledger : \A d \in Ledger :
                             body[d].created_at <= body[c].created_at}

\* create_consent up to its first statement.  created_at is the start of the
\* transaction, and no two transactions start at the same clock reading.
CreateLink(r) ==
    /\ Arrives(r)
    /\ clock < MaxClock
    /\ clock' = clock + 1
    /\ \E p \in Purpose, ds \in SourceSets, d \in Duration :
          /\ body' = [body EXCEPT ![r] =
                         [purpose |-> p, data_sources |-> ds,
                          created_at |-> clock, expires_at |-> clock + d]]
          /\ \E h \in LatestHash(p) : hash_prev' = [hash_prev EXCEPT ![r] = h]
    /\ Goes(r, "linking", {})
    /\ UNCHANGED <<status, revoked, audit, retraining, pii>>

\* Seeded faults for Superseded: only records that grant the same sources;
\* the filter on the purpose dropped.
SupersededSameSources(r) ==
    {c \in Active : /\ body[c].purpose = body[r].purpose
                    /\ body[c].data_sources = body[r].data_sources}

SupersededAnyPurpose(r) == Active

\* The rows the SELECT of _supersede_existing returns to request r.
Superseded(r) == {c \in Active : body[c].purpose = body[r].purpose}

CreateSupersede(r) ==
    /\ step[r] = "linking"
    /\ Goes(r, "superseding", Superseded(r))
    /\ UNCHANGED <<clock, body, hash_prev, status, revoked, audit, retraining,
                   pii>>

CreateCommit(r) ==
    /\ step[r] = "superseding"
    /\ Unlocked(seen[r])
    /\ status' = [c \in Request |-> IF c = r THEN "ACTIVE"
                                    ELSE IF c \in seen[r] THEN "SUPERSEDED"
                                    ELSE status[c]]
    /\ audit' = [c \in Request |->
                    IF c = r THEN Append(audit[c], "CREATED")
                    ELSE IF c \in seen[r] THEN Append(audit[c], "SUPERSEDED")
                    ELSE audit[c]]
    /\ Goes(r, "done", {})
    /\ UNCHANGED <<clock, body, hash_prev, revoked, retraining, pii>>

\* get_consent, and get_audit_trail which calls it: a write only when the
\* record has lapsed; otherwise the request reads and changes nothing.
GetRead(r, c) ==
    /\ Arrives(r)
    /\ Lapsed(c)
    /\ Goes(r, "expiring", {c})
    /\ UNCHANGED <<clock, body, hash_prev, status, revoked, audit, retraining,
                   pii>>

VerifyRead(r, c) ==
    /\ Arrives(r)
    /\ c \in Ledger
    /\ Goes(r, IF Lapsed(c) THEN "verifying_lapsed" ELSE "verifying", {c})
    /\ UNCHANGED <<clock, body, hash_prev, status, revoked, audit, retraining,
                   pii>>

ExpireCommit(r) ==
    /\ step[r] \in {"expiring", "verifying_lapsed"}
    /\ Unlocked(seen[r])
    /\ status' = [c \in Request |-> IF c \in seen[r] THEN "EXPIRED"
                                    ELSE status[c]]
    /\ audit' = [c \in Request |->
                    IF c \notin seen[r] THEN audit[c]
                    ELSE IF step[r] = "expiring"
                         THEN Append(audit[c], "EXPIRED_AUTO")
                         ELSE audit[c] \o <<"EXPIRED_AUTO", "VERIFIED">>]
    /\ Goes(r, "done", {})
    /\ UNCHANGED <<clock, body, hash_prev, revoked, retraining, pii>>

VerifyCommit(r) ==
    /\ step[r] = "verifying"
    /\ audit' = [c \in Request |-> IF c \in seen[r]
                                   THEN Append(audit[c], "VERIFIED")
                                   ELSE audit[c]]
    /\ Goes(r, "done", {})
    /\ UNCHANGED <<clock, body, hash_prev, status, revoked, retraining, pii>>

\* revoke_consent: any status but ACTIVE is an error.  So is a lapsed record:
\* get_consent turns it EXPIRED in the session, and the error that follows
\* rolls that back, so the request leaves no trace.
RevokeRead(r, c) ==
    /\ Arrives(r)
    /\ c \in Active
    /\ ~Lapsed(c)
    /\ Goes(r, "revoking", {c})
    /\ UNCHANGED <<clock, body, hash_prev, status, revoked, audit, retraining,
                   pii>>

\* The commit also carries the cascade of DPDP section 12: every repayment
\* record of the borrower's loans leaves the retraining cohort.
RevokeCommit(r) ==
    /\ step[r] = "revoking"
    /\ Unlocked(seen[r])
    /\ status' = [c \in Request |-> IF c \in seen[r] THEN "REVOKED"
                                    ELSE status[c]]
    /\ revoked' = revoked \cup seen[r]
    /\ audit' = [c \in Request |-> IF c \in seen[r]
                                   THEN Append(audit[c], "REVOKED")
                                   ELSE audit[c]]
    /\ retraining' = [l \in Repayment |-> IF retraining[l] = "none" THEN "none"
                                          ELSE "withdrawn"]
    /\ Goes(r, "done", {})
    /\ UNCHANGED <<clock, body, hash_prev, pii>>

\* Seeded fault for NothingLeft: a borrower with any record that is no longer
\* ACTIVE is taken for one without consent.
NothingLeftForSome(expired) == Ledger \ (Active \ expired) # {}

\* The borrowers the purge query returns, once `expired' is no longer ACTIVE:
\* those with consent records, none of them ACTIVE.
NothingLeft(expired) == Ledger # {} /\ Active \subseteq expired

\* purge_expired_consent_data: the bulk UPDATE of lapsed records, which locks
\* them until the commit, ...
PurgeScan(r) ==
    LET expired == {c \in Request : Lapsed(c)}
    IN /\ Arrives(r)
       /\ Unlocked(expired)
       /\ Goes(r, "scanning", expired)
       /\ UNCHANGED <<clock, body, hash_prev, status, revoked, audit,
                      retraining, pii>>

\* ... and the query for borrowers to anonymise.
PurgeQuery(r) ==
    /\ step[r] = "scanning"
    /\ Goes(r, IF NothingLeft(seen[r]) /\ pii = "PRESENT"
               THEN "anonymising" ELSE "purging", seen[r])
    /\ UNCHANGED <<clock, body, hash_prev, status, revoked, audit, retraining,
                   pii>>

\* No audit row is written for the records the purge expires.
PurgeCommit(r) ==
    /\ step[r] \in {"purging", "anonymising"}
    /\ status' = [c \in Request |-> IF c \in seen[r] THEN "EXPIRED"
                                    ELSE status[c]]
    /\ pii' = IF step[r] = "anonymising" THEN "ANONYMIZED" ELSE pii
    /\ Goes(r, "done", {})
    /\ UNCHANGED <<clock, body, hash_prev, revoked, audit, retraining>>

\* get_db rolls back: an exception, a lost connection or a crash before the
\* commit.
Abort(r) ==
    /\ r \in InFlight
    /\ Goes(r, "done", {})
    /\ UNCHANGED <<clock, body, hash_prev, status, revoked, audit, retraining,
                   pii>>

\* A repayment outcome is recorded with the retraining flag set.
RecordRepayment(l) ==
    /\ retraining[l] = "none"
    /\ retraining' = [retraining EXCEPT ![l] = "consented"]
    /\ UNCHANGED <<clock, body, hash_prev, status, revoked, audit, pii, step,
                   seen>>

Next ==
    \/ Tick
    \/ \E r \in Request :
          \/ CreateLink(r)
          \/ CreateSupersede(r)
          \/ CreateCommit(r)
          \/ \E c \in Request : GetRead(r, c) \/ VerifyRead(r, c)
          \/ ExpireCommit(r)
          \/ VerifyCommit(r)
          \/ \E c \in Request : RevokeRead(r, c)
          \/ RevokeCommit(r)
          \/ PurgeScan(r)
          \/ PurgeQuery(r)
          \/ PurgeCommit(r)
          \/ Abort(r)
    \/ \E l \in Repayment : RecordRepayment(l)

Spec == Init /\ [][Next]_vars

----------------------------------------------------------------------------
(***************************************************************************)
(* Properties.                                                             *)
(***************************************************************************)
TypeOK ==
    /\ clock \in Nat
    /\ body \in [Request -> Body \cup {Null}]
    /\ hash_prev \in [Request -> Request \cup {Genesis}]
    /\ status \in [Request -> Status]
    /\ revoked \subseteq Request
    /\ audit \in [Request -> Seq(AuditAction)]
    /\ retraining \in [Repayment -> {"none", "consented", "withdrawn"}]
    /\ pii \in {"PRESENT", "ANONYMIZED"}
    /\ step \in [Request -> Step]
    /\ seen \in [Request -> SUBSET Request]

Audited(c, action) == \E i \in DOMAIN audit[c] : audit[c][i] = action

(***************************************************************************)
(* The chain always hangs from the genesis hash: the record a committed    *)
(* record points to is itself committed, and is older.  This must survive  *)
(* every interleaving and every rollback: a link to a record that is       *)
(* rolled back later could never be verified (_get_latest_hash).           *)
(***************************************************************************)
ChainGrounded ==
    \A c \in Ledger :
        \/ hash_prev[c] = Genesis
        \/ /\ hash_prev[c] \in Ledger
           /\ body[hash_prev[c]].created_at < body[c].created_at

(***************************************************************************)
(* The status of a record and what else the ledger says of it agree,       *)
(* whatever stale status the request that wrote it had read: a superseded  *)
(* or revoked record has the audit row, a record with revoked_at is not    *)
(* ACTIVE, and a record is EXPIRED only once its time is over.             *)
(***************************************************************************)
StatusExplained ==
    \A c \in Ledger :
        /\ status[c] = "SUPERSEDED" => Audited(c, "SUPERSEDED")
        /\ status[c] = "REVOKED" => c \in revoked
        /\ status[c] = "EXPIRED" => body[c].expires_at < clock
        /\ c \in revoked => status[c] # "ACTIVE" /\ Audited(c, "REVOKED")

(***************************************************************************)
(* Superseding never uses up a purpose: of the records a borrower has for  *)
(* a purpose, one was not superseded.  Two creates that run together may   *)
(* each mark the records they saw, never each other's (create_consent).    *)
(***************************************************************************)
PurposeNotLost ==
    \A c \in Ledger : \E d \in Ledger : /\ body[d].purpose = body[c].purpose
                                       /\ status[d] # "SUPERSEDED"

(***************************************************************************)
(* No interleaving brings a consent back: once a record is not ACTIVE no   *)
(* request makes it ACTIVE again, whatever it read before.                 *)
(***************************************************************************)
NoReactivation ==
    [][\A c \in Ledger : status[c] # "ACTIVE" => status'[c] # "ACTIVE"]_vars

\* What the rest of the system sees of the ledger.
Terms ==
    [c \in Request |-> IF c \in Ledger
                       THEN [purpose |-> body[c].purpose,
                             data_sources |-> body[c].data_sources]
                       ELSE Null]

C == INSTANCE Consent WITH Record <- Request, granted <- Active,
                           ended <- Ledger \ Active, terms <- Terms

(***************************************************************************)
(* The ledger implements Consent: whatever the interleaving, a commit      *)
(* grants one record, ending at most records for the same purpose, or ends *)
(* records; what has ended stays so, and the terms of a record are fixed.  *)
(***************************************************************************)
ImplementsConsent == C!Spec

(***************************************************************************)
(* The following hold when requests do not overlap.                        *)
(*                                                                         *)
(* Rule R5 of docs/phase0/consent_record_schema_spec.md: a record continues*)
(* the chain where it ends, so no two records have the same predecessor    *)
(* and the records of the borrower form one line.                          *)
(***************************************************************************)
LinearChain ==
    \A c, d \in Ledger : hash_prev[c] = hash_prev[d] => c = d

\* Re-consent replaces: at most one ACTIVE record for a purpose
\* (_supersede_existing).
AtMostOneActive ==
    \A c, d \in Active : body[c].purpose = body[d].purpose => c = d

(***************************************************************************)
(* The retention worker anonymises a borrower only when no consent is      *)
(* ACTIVE at that moment, though it lists the borrowers before it commits  *)
(* (purge_expired_consent_data).                                           *)
(***************************************************************************)
AnonymisesOnlyWithoutConsent ==
    [][pii' # pii => \A c \in Ledger : status'[c] # "ACTIVE"]_vars
============================================================================

----------------------------- MODULE Grievance -----------------------------
(***************************************************************************)
(* The grievance channel (services/core/grievance): borrowers open         *)
(* grievances, officers move them along, and a sweep escalates those whose *)
(* SLA has run out.                                                        *)
(*                                                                         *)
(* An officer's update and a sweep are a read followed by a commit in a    *)
(* READ COMMITTED session, and the ORM writes only the columns that differ *)
(* from what the session had read: status and resolved_at of another       *)
(* request's commit in between are overwritten, or survive, one by one.    *)
(*                                                                         *)
(* The audit trail is kept as the set of its entries, assignments and      *)
(* notes are left out, and due_at is the moment PassDue.                   *)
(***************************************************************************)
EXTENDS Naturals

CONSTANTS
    Case,         \* the grievances
    Update,       \* officers' requests to update a grievance
    Sweeper,      \* callers of escalate-overdue
    MaxAborts,    \* updates and sweeps lost to an exception or a crash
    Null          \* no value

GrievanceStatus == {"OPEN", "IN_REVIEW", "RESOLVED", "ESCALATED", "CLOSED"}

Settled == {"RESOLVED", "CLOSED"}

Escalatable == {"OPEN", "IN_REVIEW"}

\* Seeded fault for ALLOWED_TRANSITIONS: a resolved grievance may be taken up
\* again.
TransitionsReopening(from) ==
    IF from = "CLOSED" THEN {} ELSE GrievanceStatus \ {"OPEN", "CLOSED"}

ALLOWED_TRANSITIONS(from) ==
    CASE from = "OPEN" -> {"IN_REVIEW", "ESCALATED", "RESOLVED"}
      [] from = "IN_REVIEW" -> {"RESOLVED", "ESCALATED"}
      [] from = "ESCALATED" -> {"RESOLVED", "IN_REVIEW"}
      [] from = "RESOLVED" -> {"CLOSED"}
      [] from = "CLOSED" -> {}

VARIABLES
    status,       \* of the committed row, Null before the grievance exists
    resolved_at,  \* whether resolved_at of the committed row is set
    due,          \* whether due_at has passed
    audit,        \* the committed entries of grievance_audit_log
    held,         \* what an update has read, and the status it asks for
    sweeping,     \* the callers whose escalate-overdue is under way
    items,        \* the overdue grievances a sweep has read, with their status
    served,       \* updates that have been answered
    aborts        \* requests lost so far

vars == <<status, resolved_at, due, audit, held, sweeping, items, served, aborts>>

Entry == [of : Case, from : GrievanceStatus \cup {Null}, to : GrievanceStatus]

Row == [of : Case, status : GrievanceStatus, resolved_at : BOOLEAN,
        to : GrievanceStatus]

ASSUME GrievanceAssumption ==
    /\ Null \notin GrievanceStatus \cup Row
    /\ MaxAborts \in Nat

Exists(c) == status[c] # Null

\* _is_overdue.
Overdue(c) == Exists(c) /\ status[c] \notin Settled /\ due[c]

----------------------------------------------------------------------------
Init ==
    /\ status = [c \in Case |-> Null]
    /\ resolved_at = [c \in Case |-> FALSE]
    /\ due = [c \in Case |-> FALSE]
    /\ audit = {}
    /\ held = [u \in Update |-> Null]
    /\ sweeping = {}
    /\ items = [w \in Sweeper |-> [c \in Case |-> Null]]
    /\ served = {}
    /\ aborts = 0

\* create: the row and its first entry commit together.
Create(c) ==
    /\ ~Exists(c)
    /\ status' = [status EXCEPT ![c] = "OPEN"]
    /\ audit' = audit \cup {[of |-> c, from |-> Null, to |-> "OPEN"]}
    /\ UNCHANGED <<resolved_at, due, held, sweeping, items, served, aborts>>

\* The clock goes past due_at.
PassDue(c) ==
    /\ Exists(c)
    /\ ~due[c]
    /\ due' = [due EXCEPT ![c] = TRUE]
    /\ UNCHANGED <<status, resolved_at, audit, held, sweeping, items, served, aborts>>

\* update reads the row.  A status that may not follow the one it read is
\* answered with 400; the same status again is accepted.
UpdateRead(u) ==
    /\ held[u] = Null
    /\ u \notin served
    /\ \E c \in Case, to \in GrievanceStatus :
          /\ Exists(c)
          /\ to \in ALLOWED_TRANSITIONS(status[c]) \cup {status[c]}
          /\ held' = [held EXCEPT ![u] = [of |-> c, status |-> status[c],
                                          resolved_at |-> resolved_at[c], to |-> to]]
    /\ UNCHANGED <<status, resolved_at, due, audit, sweeping, items, served, aborts>>

\* The ORM writes a column that differs from what it had loaded.
Writes(old, new, committed) == IF new # old THEN new ELSE committed

StampsResolution(h) == h.resolved_at \/ h.to \in Settled

UpdateCommit(u) ==
    /\ held[u] # Null
    /\ LET h == held[u]
       IN /\ status' = [status EXCEPT ![h.of] = Writes(h.status, h.to, @)]
          /\ resolved_at' = [resolved_at EXCEPT
                                ![h.of] = Writes(h.resolved_at, StampsResolution(h), @)]
          /\ audit' = audit \cup {[of |-> h.of, from |-> h.status, to |-> h.to]}
    /\ held' = [held EXCEPT ![u] = Null]
    /\ served' = served \cup {u}
    /\ UNCHANGED <<due, sweeping, items, aborts>>

\* Seeded faults for Escalates: a case under review is left alone; every
\* overdue case is escalated, again and again.
EscalatesUntouched(c) == Overdue(c) /\ status[c] = "OPEN"

EscalatesAgain(c) == Overdue(c)

Escalates(c) == Overdue(c) /\ status[c] \in Escalatable

\* escalate_overdue reads every grievance in one query, whether or not one is
\* overdue.
SweepRead(w) ==
    /\ w \notin sweeping
    /\ sweeping' = sweeping \cup {w}
    /\ items' = [items EXCEPT ![w] =
                    [c \in Case |-> IF Escalates(c) THEN status[c] ELSE Null]]
    /\ UNCHANGED <<status, resolved_at, due, audit, held, served, aborts>>

\* Seeded fault for Escalations: only cases nobody had taken up are logged.
EscalationsUntouched(w) ==
    {[of |-> c, from |-> "OPEN", to |-> "ESCALATED"] :
        c \in {d \in Case : items[w][d] = "OPEN"}}

\* The entries of a sweep.
Escalations(w) ==
    {[of |-> c, from |-> items[w][c], to |-> "ESCALATED"] :
        c \in {d \in Case : items[w][d] # Null}}

\* All the grievances it had read as overdue are escalated in one commit, if
\* there are any.
SweepCommit(w) ==
    /\ w \in sweeping
    /\ sweeping' = sweeping \ {w}
    /\ status' = [c \in Case |-> IF items[w][c] # Null THEN "ESCALATED" ELSE status[c]]
    /\ audit' = audit \cup Escalations(w)
    /\ items' = [items EXCEPT ![w] = [c \in Case |-> Null]]
    /\ UNCHANGED <<resolved_at, due, held, served, aborts>>

\* An exception, a lost connection or a crash before the commit.
UpdateAbort(u) ==
    /\ held[u] # Null
    /\ aborts < MaxAborts
    /\ held' = [held EXCEPT ![u] = Null]
    /\ served' = served \cup {u}
    /\ aborts' = aborts + 1
    /\ UNCHANGED <<status, resolved_at, due, audit, sweeping, items>>

SweepAbort(w) ==
    /\ w \in sweeping
    /\ aborts < MaxAborts
    /\ sweeping' = sweeping \ {w}
    /\ items' = [items EXCEPT ![w] = [c \in Case |-> Null]]
    /\ aborts' = aborts + 1
    /\ UNCHANGED <<status, resolved_at, due, audit, held, served>>

Next ==
    \/ \E c \in Case : Create(c) \/ PassDue(c)
    \/ \E u \in Update : UpdateRead(u) \/ UpdateCommit(u) \/ UpdateAbort(u)
    \/ \E w \in Sweeper : SweepRead(w) \/ SweepCommit(w) \/ SweepAbort(w)

(***************************************************************************)
(* A request that has begun runs on: every await in its handler returns or *)
(* raises.  Nobody has to call escalate-overdue, for which the code offers *)
(* an endpoint and no scheduler, and nobody has to update a grievance.     *)
(***************************************************************************)
Fairness ==
    /\ \A u \in Update : WF_vars(UpdateCommit(u))
    /\ \A w \in Sweeper : WF_vars(SweepCommit(w))

Spec == Init /\ [][Next]_vars /\ Fairness

----------------------------------------------------------------------------
(***************************************************************************)
(* Properties.                                                             *)
(***************************************************************************)
TypeOK ==
    /\ status \in [Case -> GrievanceStatus \cup {Null}]
    /\ resolved_at \in [Case -> BOOLEAN]
    /\ due \in [Case -> BOOLEAN]
    /\ audit \subseteq Entry
    /\ held \in [Update -> Row \cup {Null}]
    /\ sweeping \subseteq Sweeper
    /\ items \in [Sweeper -> [Case -> Escalatable \cup {Null}]]
    /\ served \subseteq Update
    /\ aborts \in 0..MaxAborts

(***************************************************************************)
(* A settled grievance carries the time of its resolution, though status   *)
(* and resolved_at are written each on its own and by requests that do not *)
(* see one another (update).                                               *)
(***************************************************************************)
SettledIsDated == \A c \in Case : status[c] \in Settled => resolved_at[c]

(***************************************************************************)
(* The audit trail explains what is shown: the status of a grievance, and  *)
(* every status a handler says it started from, is one that an entry of    *)
(* the same grievance says it was given (update, escalate_overdue).        *)
(***************************************************************************)
TrailConnected ==
    /\ \A c \in Case : Exists(c) =>
          \E e \in audit : e.of = c /\ e.to = status[c]
    /\ \A e \in audit : e.from # Null =>
          \E f \in audit : f.of = e.of /\ f.to = e.from

(***************************************************************************)
(* No interleaving closes a grievance that nobody ever resolved            *)
(* (ALLOWED_TRANSITIONS, which each request applies to what it has read).  *)
(***************************************************************************)
ClosedWasResolved ==
    \A c \in Case : status[c] = "CLOSED" =>
        \E e \in audit : e.of = c /\ e.to = "RESOLVED"

(***************************************************************************)
(* The row of a grievance and its audit trail, which two handlers write    *)
(* from what they had read, agree: on the status, on what a status was     *)
(* reached from, and on when it was settled (update, escalate_overdue).    *)
(***************************************************************************)
TrailSound == SettledIsDated /\ TrailConnected /\ ClosedWasResolved

(***************************************************************************)
(* "RESOLVED / CLOSED are terminal" (grievance/schemas.py) does not hold   *)
(* between requests.  What does: a settled grievance is reopened only by a *)
(* request that had read it before it was settled.                         *)
(***************************************************************************)
ReopenedOnlyByStaleRead ==
    [][\A c \in Case :
          status[c] \in Settled /\ status'[c] \notin Settled =>
             \/ \E u \in Update : /\ held[u] # Null
                                 /\ held[u].of = c
                                 /\ held[u].status \notin Settled
             \/ \E w \in Sweeper : items[w][c] # Null]_vars

(***************************************************************************)
(* Every call of escalate-overdue gets at whatever is overdue.  Nothing    *)
(* makes the calls come, so this is said of the behaviours in which they   *)
(* do: if the endpoint is called again and again, then in the end no       *)
(* grievance past its SLA is OPEN or IN_REVIEW, also where a call fails or *)
(* an update that had read the grievance earlier overwrites its escalation *)
(* (escalate_overdue, update).                                             *)
(***************************************************************************)
EscalatedIfSwept ==
    \A c \in Case :
        ([]<>(sweeping # {})) => <>[](due[c] => status[c] \notin Escalatable)
============================================================================

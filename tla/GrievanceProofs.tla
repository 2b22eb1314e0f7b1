-------------------------- MODULE GrievanceProofs --------------------------
(***************************************************************************)
(* Proofs about Grievance, for every set of grievances, of updates and of  *)
(* sweeps, and every number of failures.                                   *)
(***************************************************************************)
EXTENDS Grievance, TLAPS

\* An entry of the trail gave grievance c the status st.
Given(c, st) == \E e \in audit : e.of = c /\ e.to = st

\* What an update has read was once true of its grievance: the trail tells.
ReadOnce(h) ==
    /\ Exists(h.of)
    /\ Given(h.of, h.status)
    /\ h.to \in ALLOWED_TRANSITIONS(h.status) \cup {h.status}
    /\ h.resolved_at => resolved_at[h.of]
    /\ h.status \in Settled => h.resolved_at
    /\ h.status = "CLOSED" => Given(h.of, "RESOLVED")

ReadInv ==
    /\ \A u \in Update : held[u] # Null => ReadOnce(held[u])
    /\ \A w \in Sweeper, c \in Case : items[w][c] # Null =>
          Exists(c) /\ Given(c, items[w][c])

GrievanceInv ==
    TypeOK /\ SettledIsDated /\ TrailConnected /\ ClosedWasResolved /\ ReadInv

LEMMA InitGrievanceInv == Init => GrievanceInv
BY GrievanceAssumption
   DEF Init, GrievanceInv, TypeOK, SettledIsDated, TrailConnected, ClosedWasResolved,
       ReadInv, ReadOnce, Exists, Settled, GrievanceStatus

LEMMA GrievanceTypeStep == TypeOK /\ [Next]_vars => TypeOK'
<1> SUFFICES ASSUME TypeOK, [Next]_vars PROVE TypeOK'
  OBVIOUS
<1> USE GrievanceAssumption
        DEF TypeOK, GrievanceStatus, Escalatable, Settled, Entry, Row, Exists
<1>1. ASSUME NEW c \in Case, Create(c) PROVE TypeOK'
  BY <1>1 DEF Create
<1>2. ASSUME NEW c \in Case, PassDue(c) PROVE TypeOK'
  BY <1>2 DEF PassDue
<1>3. ASSUME NEW u \in Update, UpdateRead(u) PROVE TypeOK'
  BY <1>3 DEF UpdateRead
<1>4. ASSUME NEW u \in Update, UpdateCommit(u) PROVE TypeOK'
  <2>1. held[u] \in Row
    BY <1>4 DEF UpdateCommit
  <2>2. status' \in [Case -> GrievanceStatus \cup {Null}]
    BY <1>4, <2>1 DEF UpdateCommit, Writes
  <2>3. resolved_at' \in [Case -> BOOLEAN]
    BY <1>4, <2>1 DEF UpdateCommit, Writes, StampsResolution
  <2>4. audit' \subseteq Entry
    BY <1>4, <2>1 DEF UpdateCommit
  <2>5. held' \in [Update -> Row \cup {Null}] /\ served' \subseteq Update
    BY <1>4 DEF UpdateCommit
  <2>6. QED
    BY <1>4, <2>2, <2>3, <2>4, <2>5 DEF UpdateCommit
<1>5. ASSUME NEW u \in Update, UpdateAbort(u) PROVE TypeOK'
  BY <1>5 DEF UpdateAbort
<1>6. ASSUME NEW w \in Sweeper, SweepRead(w) PROVE TypeOK'
  BY <1>6 DEF SweepRead, Escalates
<1>7. ASSUME NEW w \in Sweeper, SweepCommit(w) PROVE TypeOK'
  BY <1>7 DEF SweepCommit, Escalations
<1>8. ASSUME NEW w \in Sweeper, SweepAbort(w) PROVE TypeOK'
  BY <1>8 DEF SweepAbort
<1>9. CASE UNCHANGED vars
  BY <1>9 DEF vars
<1>10. QED
  BY <1>1, <1>2, <1>3, <1>4, <1>5, <1>6, <1>7, <1>8, <1>9 DEF Next

\* Entries and grievances stay, and a resolution time is not cleared.
LEMMA TrailGrows ==
  ASSUME TypeOK, ReadInv, [Next]_vars
  PROVE /\ audit \subseteq audit'
        /\ \A c \in Case : Exists(c) => Exists(c)'
        /\ \A c \in Case : resolved_at[c] => resolved_at'[c]
<1> USE GrievanceAssumption DEF TypeOK, Exists, GrievanceStatus
<1>1. ASSUME NEW u \in Update, UpdateCommit(u)
      PROVE /\ audit \subseteq audit'
            /\ \A c \in Case : Exists(c) => Exists(c)'
            /\ \A c \in Case : resolved_at[c] => resolved_at'[c]
  <2>1. held[u] \in Row
    BY <1>1 DEF UpdateCommit
  <2>2. \A c \in Case : Exists(c) => Exists(c)'
    BY <1>1, <2>1 DEF UpdateCommit, Writes, Row
  <2>3. \A c \in Case : resolved_at[c] => resolved_at'[c]
    BY <1>1, <2>1 DEF UpdateCommit, Writes, StampsResolution, Row
  <2>4. QED
    BY <1>1, <2>2, <2>3 DEF UpdateCommit
<1>2. CASE UNCHANGED vars
  BY <1>2 DEF vars
<1>3. CASE \E c \in Case : Create(c) \/ PassDue(c)
  BY <1>3 DEF Create, PassDue
<1>4. CASE \E u \in Update : UpdateRead(u) \/ UpdateAbort(u)
  BY <1>4 DEF UpdateRead, UpdateAbort
<1>5. CASE \E w \in Sweeper : SweepRead(w) \/ SweepCommit(w) \/ SweepAbort(w)
  BY <1>5 DEF SweepRead, SweepCommit, SweepAbort
<1>6. QED
  BY <1>1, <1>2, <1>3, <1>4, <1>5 DEF Next

LEMMA SettledStep ==
  ASSUME TypeOK, SettledIsDated, ReadInv, [Next]_vars
  PROVE SettledIsDated'
<1> USE GrievanceAssumption DEF TypeOK, SettledIsDated, Settled
<1>1. \A c \in Case : resolved_at[c] => resolved_at'[c]
  BY TrailGrows
<1>2. ASSUME NEW u \in Update, UpdateCommit(u) PROVE SettledIsDated'
  <2>1. held[u] \in Row
    BY <1>2 DEF UpdateCommit
  <2>2. held[u].resolved_at => resolved_at[held[u].of]
    BY <1>2 DEF UpdateCommit, ReadInv, ReadOnce
  <2>3. ASSUME NEW c \in Case, status'[c] \in Settled PROVE resolved_at'[c]
    <3>1. CASE status'[c] = status[c]
      BY <1>1, <2>3, <3>1
    <3>2. CASE status'[c] # status[c]
      <4>1. c = held[u].of /\ held[u].to = status'[c]
        BY <1>2, <2>1, <3>2 DEF UpdateCommit, Writes, Row
      <4>2. StampsResolution(held[u]) = TRUE
        BY <2>1, <2>3, <4>1 DEF StampsResolution, Row
      <4>3. resolved_at'[c] = IF TRUE # held[u].resolved_at THEN TRUE ELSE resolved_at[c]
        BY <1>2, <2>1, <4>1, <4>2 DEF UpdateCommit, Writes, Row
      <4>4. QED
        BY <2>1, <2>2, <4>1, <4>3 DEF Row
    <3>3. QED
      BY <3>1, <3>2
  <2>4. QED
    BY <2>3
<1>3. CASE UNCHANGED vars
  BY <1>3 DEF vars
<1>4. CASE \E c \in Case : Create(c) \/ PassDue(c)
  BY <1>4 DEF Create, PassDue
<1>5. CASE \E u \in Update : UpdateRead(u) \/ UpdateAbort(u)
  BY <1>5 DEF UpdateRead, UpdateAbort
<1>6. CASE \E w \in Sweeper : SweepRead(w) \/ SweepCommit(w) \/ SweepAbort(w)
  BY <1>6 DEF SweepRead, SweepCommit, SweepAbort
<1>7. QED
  BY <1>2, <1>3, <1>4, <1>5, <1>6 DEF Next

LEMMA TrailStep ==
  ASSUME TypeOK, TrailConnected, ReadInv, [Next]_vars
  PROVE TrailConnected'
<1> USE GrievanceAssumption DEF TypeOK, TrailConnected, Exists
<1>1. audit \subseteq audit'
  BY TrailGrows
<1>2. ASSUME NEW c \in Case, Create(c) PROVE TrailConnected'
  <2> DEFINE new == [of |-> c, from |-> Null, to |-> "OPEN"]
  <2>1. /\ audit' = audit \cup {new}
        /\ status' = [status EXCEPT ![c] = "OPEN"]
    BY <1>2 DEF Create
  <2>2. new.of = c /\ new.from = Null /\ new.to = "OPEN"
    OBVIOUS
  <2> HIDE DEF new
  <2>3. QED
    BY <2>1, <2>2
<1>3. ASSUME NEW u \in Update, UpdateCommit(u) PROVE TrailConnected'
  <2>1. held[u] \in Row /\ Given(held[u].of, held[u].status)
    BY <1>3 DEF UpdateCommit, ReadInv, ReadOnce
  <2> DEFINE new == [of |-> held[u].of, from |-> held[u].status, to |-> held[u].to]
  <2>2. audit' = audit \cup {new}
    BY <1>3 DEF UpdateCommit
  <2>3. \A c \in Case : Exists(c)' => \E e \in audit' : e.of = c /\ e.to = status'[c]
    <3> SUFFICES ASSUME NEW c \in Case, Exists(c)'
                 PROVE \E e \in audit' : e.of = c /\ e.to = status'[c]
      OBVIOUS
    <3>1. CASE status'[c] = status[c]
      BY <1>1, <3>1
    <3>2. CASE status'[c] # status[c]
      <4>1. c = held[u].of /\ status'[c] = held[u].to
        BY <1>3, <2>1, <3>2 DEF UpdateCommit, Writes, Row
      <4>2. new \in audit' /\ new.of = c /\ new.to = status'[c]
        BY <2>2, <4>1
      <4>3. QED
        BY <4>2
    <3>3. QED
      BY <3>1, <3>2
  <2>4. \A e \in audit' : e.from # Null => \E f \in audit' : f.of = e.of /\ f.to = e.from
    <3>1. \E f \in audit : f.of = new.of /\ f.to = new.from
      BY <2>1 DEF Given
    <3>2. QED
      BY <2>2, <3>1
  <2>5. QED
    BY <2>3, <2>4
<1>4. ASSUME NEW w \in Sweeper, SweepCommit(w) PROVE TrailConnected'
  <2>1. \A c \in Case : items[w][c] # Null => Given(c, items[w][c])
    BY DEF ReadInv
  <2>2. audit' = audit \cup Escalations(w)
    BY <1>4 DEF SweepCommit
  <2>3. \A c \in Case : Exists(c)' => \E e \in audit' : e.of = c /\ e.to = status'[c]
    <3> SUFFICES ASSUME NEW c \in Case, Exists(c)'
                 PROVE \E e \in audit' : e.of = c /\ e.to = status'[c]
      OBVIOUS
    <3> DEFINE new == [of |-> c, from |-> items[w][c], to |-> "ESCALATED"]
    <3>1. CASE items[w][c] = Null
      BY <1>1, <1>4, <3>1 DEF SweepCommit
    <3>2. CASE items[w][c] # Null
      <4>1. new \in audit' /\ new.of = c /\ new.to = "ESCALATED"
        BY <2>2, <3>2 DEF Escalations
      <4>2. status'[c] = "ESCALATED"
        BY <1>4, <3>2 DEF SweepCommit
      <4>3. QED
        BY <4>1, <4>2
    <3>3. QED
      BY <3>1, <3>2
  <2>4. \A e \in Escalations(w) : \E f \in audit : f.of = e.of /\ f.to = e.from
    BY <2>1 DEF Escalations, Given
  <2>5. QED
    BY <2>2, <2>3, <2>4
<1>5. CASE UNCHANGED vars
  BY <1>5 DEF vars
<1>6. CASE \E c \in Case : PassDue(c)
  BY <1>6 DEF PassDue
<1>7. CASE \E u \in Update : UpdateRead(u) \/ UpdateAbort(u)
  BY <1>7 DEF UpdateRead, UpdateAbort
<1>8. CASE \E w \in Sweeper : SweepRead(w) \/ SweepAbort(w)
  BY <1>8 DEF SweepRead, SweepAbort
<1>9. QED
  BY <1>2, <1>3, <1>4, <1>5, <1>6, <1>7, <1>8 DEF Next

LEMMA ClosedStep ==
  ASSUME TypeOK, ClosedWasResolved, ReadInv, [Next]_vars
  PROVE ClosedWasResolved'
<1> USE GrievanceAssumption DEF TypeOK, ClosedWasResolved
<1>1. audit \subseteq audit'
  BY TrailGrows
<1>2. ASSUME NEW u \in Update, UpdateCommit(u) PROVE ClosedWasResolved'
  <2>1. held[u] \in Row
    BY <1>2 DEF UpdateCommit
  <2>2. ASSUME NEW c \in Case, status'[c] = "CLOSED", status[c] # "CLOSED"
        PROVE Given(c, "RESOLVED")
    <3>1. c = held[u].of /\ held[u].to = "CLOSED"
      BY <1>2, <2>1, <2>2 DEF UpdateCommit, Writes, Row
    <3>2. held[u].status \in {"RESOLVED", "CLOSED"}
      BY <1>2, <2>1, <3>1
         DEF UpdateCommit, ReadInv, ReadOnce, ALLOWED_TRANSITIONS, Row, GrievanceStatus
    <3>3. QED
      BY <1>2, <3>1, <3>2 DEF UpdateCommit, ReadInv, ReadOnce
  <2>3. QED
    BY <1>1, <2>2 DEF Given
<1>3. CASE UNCHANGED vars
  BY <1>3 DEF vars
<1>4. CASE \E c \in Case : Create(c) \/ PassDue(c)
  BY <1>1, <1>4 DEF Create, PassDue
<1>5. CASE \E u \in Update : UpdateRead(u) \/ UpdateAbort(u)
  BY <1>5 DEF UpdateRead, UpdateAbort
<1>6. CASE \E w \in Sweeper : SweepRead(w) \/ SweepCommit(w) \/ SweepAbort(w)
  BY <1>1, <1>6 DEF SweepRead, SweepCommit, SweepAbort
<1>7. QED
  BY <1>2, <1>3, <1>4, <1>5, <1>6 DEF Next

\* What was once true of a grievance stays so.
LEMMA ReadOnceStays ==
  ASSUME TypeOK, ReadInv, [Next]_vars, NEW h \in Row, ReadOnce(h)
  PROVE ReadOnce(h)'
BY TrailGrows DEF ReadOnce, Given, Row

LEMMA ReadStep == GrievanceInv /\ [Next]_vars => ReadInv'
<1> SUFFICES ASSUME GrievanceInv, [Next]_vars PROVE ReadInv'
  OBVIOUS
<1> USE GrievanceAssumption DEF GrievanceInv, TypeOK
<1>1. ASSUME \A u \in Update : held'[u] # Null => held'[u] = held[u]
      PROVE \A u \in Update : held'[u] # Null => ReadOnce(held[u])'
  <2> SUFFICES ASSUME NEW u \in Update, held'[u] # Null PROVE ReadOnce(held[u])'
    OBVIOUS
  <2>1. PICK h \in Row : h = held[u] /\ h = held'[u] /\ ReadOnce(h)
    BY <1>1 DEF ReadInv
  <2>2. ReadOnce(h)'
    BY <2>1, ReadOnceStays
  <2>3. QED
    BY <2>1, <2>2 DEF ReadOnce
<1>2. ASSUME \A w \in Sweeper, c \in Case : items'[w][c] # Null => items'[w][c] = items[w][c]
      PROVE \A w \in Sweeper, c \in Case :
               items'[w][c] # Null => Exists(c)' /\ Given(c, items[w][c])'
  BY <1>2, TrailGrows DEF ReadInv, Given
<1>3. ASSUME NEW u \in Update, UpdateRead(u) PROVE ReadInv'
  <2>1. PICK c \in Case, to \in GrievanceStatus :
          /\ Exists(c)
          /\ to \in ALLOWED_TRANSITIONS(status[c]) \cup {status[c]}
          /\ held' = [held EXCEPT ![u] = [of |-> c, status |-> status[c],
                                          resolved_at |-> resolved_at[c], to |-> to]]
    BY <1>3 DEF UpdateRead
  <2>2. PICK h : h = [of |-> c, status |-> status[c], resolved_at |-> resolved_at[c], to |-> to]
    OBVIOUS
  <2>3. h \in Row /\ held' = [held EXCEPT ![u] = h]
    BY <2>1, <2>2 DEF Row, Exists
  <2>4. Given(c, status[c]) /\ (status[c] \in Settled => resolved_at[c])
    BY <2>1 DEF TrailConnected, SettledIsDated, Given
  <2>5. status[c] = "CLOSED" => Given(c, "RESOLVED")
    BY DEF ClosedWasResolved, Given
  <2>6. ReadOnce(h)
    BY <2>1, <2>2, <2>4, <2>5 DEF ReadOnce
  <2>7. ASSUME NEW v \in Update, held'[v] # Null PROVE ReadOnce(held[v])'
    <3>1. PICK k \in Row : k = held'[v] /\ ReadOnce(k)
      <4>1. CASE v = u
        BY <2>3, <2>6, <4>1
      <4>2. CASE v # u
        BY <2>3, <2>7, <4>2 DEF ReadInv
      <4>3. QED
        BY <4>1, <4>2
    <3>2. ReadOnce(k)'
      BY <3>1, ReadOnceStays
    <3>3. QED
      BY <3>1, <3>2 DEF ReadOnce
  <2>8. QED
    BY <1>2, <1>3, <2>7 DEF ReadInv, UpdateRead
<1>4. ASSUME NEW u \in Update, UpdateCommit(u) \/ UpdateAbort(u) PROVE ReadInv'
  <2>1. held' = [held EXCEPT ![u] = Null] /\ items' = items
    BY <1>4 DEF UpdateCommit, UpdateAbort
  <2>2. QED
    BY <1>1, <1>2, <2>1 DEF ReadInv
<1>5. ASSUME NEW w \in Sweeper, SweepRead(w) PROVE ReadInv'
  <2>1. UNCHANGED <<held, status, audit>>
    BY <1>5 DEF SweepRead
  <2>2. \A v \in Sweeper, c \in Case : items'[v][c] # Null =>
           items'[v][c] = items[v][c] \/ (Exists(c) /\ items'[v][c] = status[c])
    BY <1>5 DEF SweepRead, Escalates, Overdue
  <2>3. \A c \in Case : Exists(c) => Given(c, status[c])
    BY DEF TrailConnected, Given
  <2>4. QED
    BY <1>1, <2>1, <2>2, <2>3 DEF ReadInv, Given, Exists
<1>6. ASSUME NEW w \in Sweeper, SweepCommit(w) \/ SweepAbort(w) PROVE ReadInv'
  <2>1. held' = held /\ items' = [items EXCEPT ![w] = [c \in Case |-> Null]]
    BY <1>6 DEF SweepCommit, SweepAbort
  <2>2. QED
    BY <1>1, <1>2, <2>1 DEF ReadInv
<1>7. ASSUME NEW c \in Case, Create(c) \/ PassDue(c) PROVE ReadInv'
  BY <1>1, <1>2, <1>7 DEF Create, PassDue, ReadInv
<1>8. CASE UNCHANGED vars
  BY <1>1, <1>2, <1>8 DEF vars, ReadInv
<1>9. QED
  BY <1>3, <1>4, <1>5, <1>6, <1>7, <1>8 DEF Next

LEMMA GrievanceInvStep == GrievanceInv /\ [Next]_vars => GrievanceInv'
BY GrievanceTypeStep, SettledStep, TrailStep, ClosedStep, ReadStep DEF GrievanceInv

(***************************************************************************)
(* The rows, the trail and what the requests hold agree in every reachable *)
(* state.                                                                  *)
(***************************************************************************)
THEOREM GrievanceCorrect == Spec => []GrievanceInv
<1>1. QED
  BY InitGrievanceInv, GrievanceInvStep, PTL DEF Spec

(***************************************************************************)
(* Every grievance and every entry has the shape the schema gives it.      *)
(***************************************************************************)
THEOREM GrievanceTypeCorrect == Spec => []TypeOK
<1>1. GrievanceInv => TypeOK
  BY DEF GrievanceInv
<1>2. QED
  BY <1>1, GrievanceCorrect, PTL

(***************************************************************************)
(* A settled grievance carries the time of its resolution.                 *)
(***************************************************************************)
THEOREM SettledIsDatedCorrect == Spec => []SettledIsDated
<1>1. GrievanceInv => SettledIsDated
  BY DEF GrievanceInv
<1>2. QED
  BY <1>1, GrievanceCorrect, PTL

(***************************************************************************)
(* The audit trail explains the status that is shown.                      *)
(***************************************************************************)
THEOREM TrailConnectedCorrect == Spec => []TrailConnected
<1>1. GrievanceInv => TrailConnected
  BY DEF GrievanceInv
<1>2. QED
  BY <1>1, GrievanceCorrect, PTL

(***************************************************************************)
(* No interleaving closes a grievance that was never resolved.             *)
(***************************************************************************)
THEOREM ClosedWasResolvedCorrect == Spec => []ClosedWasResolved
<1>1. GrievanceInv => ClosedWasResolved
  BY DEF GrievanceInv
<1>2. QED
  BY <1>1, GrievanceCorrect, PTL

(***************************************************************************)
(* Row and audit trail of a grievance agree.                               *)
(***************************************************************************)
THEOREM TrailSoundCorrect == Spec => []TrailSound
<1>1. GrievanceInv => TrailSound
  BY DEF GrievanceInv, TrailSound
<1>2. QED
  BY <1>1, GrievanceCorrect, PTL

LEMMA ReopeningStep ==
  ASSUME TypeOK, ReadInv, [Next]_vars,
         NEW c \in Case, status[c] \in Settled, status'[c] \notin Settled
  PROVE \/ \E u \in Update : held[u] # Null /\ held[u].of = c /\ held[u].status \notin Settled
        \/ \E w \in Sweeper : items[w][c] # Null
<1> USE GrievanceAssumption DEF TypeOK, Settled
<1>1. ASSUME NEW u \in Update, UpdateCommit(u)
      PROVE held[u] # Null /\ held[u].of = c /\ held[u].status \notin Settled
  <2>1. held[u] \in Row /\ held[u] # Null
    BY <1>1 DEF UpdateCommit
  <2>2. held[u].of = c /\ held[u].to = status'[c] /\ held[u].to # held[u].status
    BY <1>1, <2>1 DEF UpdateCommit, Writes, Row
  <2>3. held[u].to \in ALLOWED_TRANSITIONS(held[u].status)
    BY <2>1, <2>2 DEF ReadInv, ReadOnce
  <2>4. QED
    BY <2>1, <2>2, <2>3 DEF ALLOWED_TRANSITIONS, Row, GrievanceStatus
<1>2. CASE \E w \in Sweeper : SweepCommit(w)
  BY <1>2 DEF SweepCommit
<1>3. CASE UNCHANGED vars
  BY <1>3 DEF vars
<1>4. ASSUME NEW d \in Case, Create(d) \/ PassDue(d) PROVE FALSE
  <2>1. c # d \/ status' = status
    BY <1>4 DEF Create, PassDue, Exists, GrievanceStatus
  <2>2. status'[c] = status[c]
    BY <1>4, <2>1 DEF Create, PassDue
  <2>3. QED
    BY <2>2
<1>5. CASE \E u \in Update : UpdateRead(u) \/ UpdateAbort(u)
  BY <1>5 DEF UpdateRead, UpdateAbort
<1>6. CASE \E w \in Sweeper : SweepRead(w) \/ SweepAbort(w)
  BY <1>6 DEF SweepRead, SweepAbort
<1>7. QED
  BY <1>1, <1>2, <1>3, <1>4, <1>5, <1>6 DEF Next

(***************************************************************************)
(* A settled grievance is reopened only by a request that had read it      *)
(* before it was settled.                                                  *)
(***************************************************************************)
THEOREM ReopenedOnlyByStaleReadCorrect == Spec => ReopenedOnlyByStaleRead
<1> DEFINE StaleReads ==
      \A c \in Case :
          status[c] \in Settled /\ status'[c] \notin Settled =>
             \/ \E u \in Update : /\ held[u] # Null
                                 /\ held[u].of = c
                                 /\ held[u].status \notin Settled
             \/ \E w \in Sweeper : items[w][c] # Null
<1>1. GrievanceInv /\ [Next]_vars => [StaleReads]_vars
  BY ReopeningStep DEF GrievanceInv
<1>2. QED
  BY <1>1, GrievanceCorrect, PTL DEF Spec, ReopenedOnlyByStaleRead
============================================================================

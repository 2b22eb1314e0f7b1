--------------------------- MODULE ModelRegistry ---------------------------
(***************************************************************************)
(* The model registry of ml/registry/registry.py and its users: the gated  *)
(* promotion of services/core/admin/promotion.py, run by the API process,  *)
(* and the training scripts, each a process of its own.                    *)
(*                                                                         *)
(* The registry is one JSON file.  Every operation reads the whole index,  *)
(* changes it in memory and writes the whole file back, with no lock: open *)
(* with "w" empties the file, and it is whole again when the dump ends.    *)
(* Inside the API process nothing runs between the end of the gate's await *)
(* and the last write, so two API requests overlap only at that await;     *)
(* another process may come between any two file accesses.                 *)
(***************************************************************************)
EXTENDS Naturals, Sequences

CONSTANTS
    Api,          \* promotion requests to the API process
    Script,       \* runs of a training script
    Version,      \* model versions
    Ungated,      \* the versions scripts promote to active themselves
    Shipped,      \* the index in the repository
    Torn          \* content of a file that is not valid JSON

VARIABLES
    file,         \* registry.json: an index, or Torn
    fair,         \* what FairnessGate answers on the latest audit period
    model,        \* the version a request or run is about
    metrics_ok,   \* whether the metrics it read or will register pass
    fairness_ok,  \* what the gate answered it
    ops,          \* the registry operations it has still to perform
    snap,         \* the index its current operation has read
    step,         \* how far it has come
    cleared       \* versions an evaluation has passed (auxiliary)

vars == <<file, fair, model, metrics_ok, fairness_ok, ops, snap, step,
          cleared>>

Task == Api \cup Script

Status == {"unregistered", "candidate", "validated", "active", "retired"}

\* The records of the index: their promotion status, and whether their
\* metrics reach PERFORMANCE_MINIMUMS.
Index == [Version -> [status : Status, metrics_ok : BOOLEAN]]

ActiveIn(index) == {v \in Version : index[v].status = "active"}

ASSUME RegistryAssumption ==
    /\ Ungated \subseteq Version
    /\ Api \cap Script = {}
    /\ Shipped \in Index
    /\ Torn \notin Index
    /\ ActiveIn(Shipped) \subseteq Ungated
    /\ \A u, v \in ActiveIn(Shipped) : u = v

Op == {"register", "validated", "active"}

Step == {"idle", "gating", "gated", "ready", "read", "writing", "done"}

\* What promote lets a version in status s become, of the statuses that the
\* callers ask for.
Allowed(s) ==
    CASE s = "candidate" -> {"validated"}
      [] s = "validated" -> {"validated", "active"}
      [] s = "active" -> {"active"}
      [] OTHER -> {}

\* Seeded fault for Promoted: the active models are left as they are.
PromotedAlongside(index, v, to) == [index EXCEPT ![v].status = to]

\* promote: whoever else is active in the index that was read retires when v
\* becomes active.
Promoted(index, v, to) ==
    [u \in Version |->
        IF u = v THEN [index[u] EXCEPT !.status = to]
        ELSE IF to = "active" /\ index[u].status = "active"
             THEN [index[u] EXCEPT !.status = "retired"]
             ELSE index[u]]

\* Seeded fault for Registered: a status promote does not know.
RegisteredAsDraft(index, v, ok) ==
    [index EXCEPT ![v] = [status |-> "draft", metrics_ok |-> ok]]

\* register: the record of v, if any, is replaced by a candidate.
Registered(index, v, ok) ==
    [index EXCEPT ![v] = [status |-> "candidate", metrics_ok |-> ok]]

\* The index that the current operation of task t writes.
Updated(t) ==
    IF Head(ops[t]) = "register"
    THEN Registered(snap[t], model[t], metrics_ok[t])
    ELSE Promoted(snap[t], model[t], Head(ops[t]))

\* The API process is between the end of an await and its next one.
ApiRunning == \E a \in Api : step[a] \in {"ready", "read", "writing"}

Goes(t, to) == step' = [step EXCEPT ![t] = to]

----------------------------------------------------------------------------
Init ==
    /\ file = Shipped
    /\ fair \in BOOLEAN
    /\ model \in [Task -> Version]
    /\ metrics_ok = [t \in Task |-> FALSE]
    /\ fairness_ok = [a \in Api |-> FALSE]
    /\ ops = [t \in Task |-> << >>]
    /\ snap = [t \in Task |-> Shipped]
    /\ step = [t \in Task |-> "idle"]
    /\ cleared = {}

\* An audit of a later period changes what the gate answers.
FairnessAudit ==
    /\ fair' = ~fair
    /\ UNCHANGED <<file, model, metrics_ok, fairness_ok, ops, snap, step,
                   cleared>>

(***************************************************************************)
(* promote_to_active.                                                      *)
(***************************************************************************)
\* evaluate up to the await of the gate.  An unknown version is answered 404,
\* a file that cannot be parsed 500.
ApiEvaluate(a) ==
    /\ step[a] = "idle"
    /\ ~ApiRunning
    /\ file # Torn
    /\ file[model[a]].status # "unregistered"
    /\ metrics_ok' = [metrics_ok EXCEPT ![a] = file[model[a]].metrics_ok]
    /\ Goes(a, "gating")
    /\ UNCHANGED <<file, fair, model, fairness_ok, ops, snap, cleared>>

\* FairnessGate.evaluate reads the audit rows; what it answers may be old by
\* the time the request goes on.
ApiGate(a) ==
    /\ step[a] = "gating"
    /\ fairness_ok' = [fairness_ok EXCEPT ![a] = fair]
    /\ Goes(a, "gated")
    /\ UNCHANGED <<file, fair, model, metrics_ok, ops, snap, cleared>>

\* Seeded fault for ReportPassed: one of the two checks is enough.
ReportPassedEither(a) == metrics_ok[a] \/ fairness_ok[a]

\* PromotionReport.passed.
ReportPassed(a) == metrics_ok[a] /\ fairness_ok[a]

ApiBlocked(a) ==
    /\ step[a] = "gated"
    /\ ~ReportPassed(a)
    /\ Goes(a, "done")
    /\ UNCHANGED <<file, fair, model, metrics_ok, fairness_ok, ops, snap,
                   cleared>>

\* The report has passed; a candidate is first made validated.
ApiGet(a) ==
    /\ step[a] = "gated"
    /\ ~ApiRunning
    /\ ReportPassed(a)
    /\ file # Torn
    /\ ops' = [ops EXCEPT ![a] = IF file[model[a]].status = "candidate"
                                 THEN <<"validated", "active">>
                                 ELSE <<"active">>]
    /\ cleared' = IF metrics_ok[a] /\ fairness_ok[a] THEN cleared \cup {model[a]}
                  ELSE cleared
    /\ Goes(a, "ready")
    /\ UNCHANGED <<file, fair, model, metrics_ok, fairness_ok, snap>>

(***************************************************************************)
(* A training script registers its model, as a candidate, and promotes it  *)
(* as far as it was told to.                                               *)
(***************************************************************************)
ScriptStart(p) ==
    /\ step[p] = "idle"
    /\ \E ok \in BOOLEAN : metrics_ok' = [metrics_ok EXCEPT ![p] = ok]
    /\ \E told \in {<<"register">>, <<"register", "validated">>,
                    <<"register", "validated", "active">>} :
          /\ Len(told) = 3 => model[p] \in Ungated
          /\ ops' = [ops EXCEPT ![p] = told]
    /\ Goes(p, "ready")
    /\ UNCHANGED <<file, fair, model, fairness_ok, snap, cleared>>

(***************************************************************************)
(* One registry operation: _read_index, then open, then dump.  It fails    *)
(* when the file cannot be parsed, and promote refuses a version that is   *)
(* not registered and a transition that is not allowed.                    *)
(***************************************************************************)
Accepted(t) ==
    /\ file # Torn
    /\ \/ Head(ops[t]) = "register"
       \/ Head(ops[t]) \in Allowed(file[model[t]].status)

OpRead(t) ==
    /\ step[t] = "ready"
    /\ Accepted(t)
    /\ snap' = [snap EXCEPT ![t] = file]
    /\ Goes(t, "read")
    /\ UNCHANGED <<file, fair, model, metrics_ok, fairness_ok, ops, cleared>>

OpOpen(t) ==
    /\ step[t] = "read"
    /\ file' = Torn
    /\ Goes(t, "writing")
    /\ UNCHANGED <<fair, model, metrics_ok, fairness_ok, ops, snap, cleared>>

\* Two writers that had the file open at the same time may leave a mixture.
OpDump(t) ==
    /\ step[t] = "writing"
    /\ \/ file' = Updated(t)
       \/ /\ \/ file # Torn
             \/ \E u \in Task \ {t} : step[u] = "writing"
          /\ file' = Torn
    /\ ops' = [ops EXCEPT ![t] = Tail(ops[t])]
    /\ Goes(t, IF Len(ops[t]) = 1 THEN "done" ELSE "ready")
    /\ UNCHANGED <<fair, model, metrics_ok, fairness_ok, snap, cleared>>

OpFails(t) ==
    /\ \/ step[t] = "ready" /\ ~Accepted(t)
       \/ t \in Api /\ step[t] = "gated" /\ ReportPassed(t) /\ file = Torn
    /\ Goes(t, "done")
    /\ UNCHANGED <<file, fair, model, metrics_ok, fairness_ok, ops, snap,
                   cleared>>

\* A process dies, with all that runs in it; a file open for writing stays
\* as it is.
Crash(process) ==
    /\ \E t \in process : step[t] \notin {"idle", "done"}
    /\ step' = [t \in Task |-> IF t \in process /\ step[t] # "idle" THEN "done"
                               ELSE step[t]]
    /\ UNCHANGED <<file, fair, model, metrics_ok, fairness_ok, ops, snap,
                   cleared>>

Next ==
    \/ FairnessAudit
    \/ \E a \in Api : ApiEvaluate(a) \/ ApiGate(a) \/ ApiBlocked(a)
                      \/ ApiGet(a)
    \/ \E p \in Script : ScriptStart(p)
    \/ \E t \in Task : OpRead(t) \/ OpOpen(t) \/ OpDump(t) \/ OpFails(t)
    \/ Crash(Api)
    \/ \E p \in Script : Crash({p})

Spec == Init /\ [][Next]_vars

----------------------------------------------------------------------------
(***************************************************************************)
(* Properties.                                                             *)
(***************************************************************************)
TypeOK ==
    /\ file \in Index \cup {Torn}
    /\ fair \in BOOLEAN
    /\ model \in [Task -> Version]
    /\ metrics_ok \in [Task -> BOOLEAN]
    /\ fairness_ok \in [Api -> BOOLEAN]
    /\ ops \in [Task -> Seq(Op)]
    /\ snap \in [Task -> Index]
    /\ step \in [Task -> Step]
    /\ cleared \subseteq Version

(***************************************************************************)
(* "Promoting a new model to active automatically retires the previously   *)
(* active model (guarantees single-active invariant)", docs/phase3:        *)
(* whatever the processes do to the file, an index that can be read has at *)
(* most one active version.                                                *)
(***************************************************************************)
AtMostOneActive ==
    file # Torn => \A u, v \in ActiveIn(file) : u = v

(***************************************************************************)
(* A version that is active and that no script promotes passed both checks *)
(* of the promotion gate, performance and fairness, in one evaluation;     *)
(* no stale index, crash or re-registration makes one active without it.   *)
(***************************************************************************)
ActiveWasCleared ==
    file # Torn => ActiveIn(file) \subseteq cleared \cup Ungated
============================================================================

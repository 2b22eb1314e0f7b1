---------------------------- MODULE ModelProofs ----------------------------
(***************************************************************************)
(* Proofs about the models that score borrowers: what a version learns     *)
(* from and is judged by (Training), how it is evaluated (Evaluation) and  *)
(* how it becomes active (ModelRegistry).  The three specifications share  *)
(* no variable; each theorem is about one of them.                         *)
(***************************************************************************)
EXTENDS ModelRegistry, Training, Evaluation, SequenceTheorems,
        FunctionTheorems, FiniteSetTheorems, WellFoundedInduction, TLAPS

-----------------------------------------------------------------------------
(***************************************************************************)
(* ModelRegistry: for every set of API requests, script runs and versions, *)
(* and every index the repository may ship.                                *)
(***************************************************************************)

\* A task that is performing operations has one left to perform.
OpsInv == \A t \in Task : step[t] \in {"ready", "read", "writing"}
                             => ops[t] # << >>

Single(index) == \A u, v \in ActiveIn(index) : u = v

Vetted(index) == ActiveIn(index) \subseteq cleared \cup Ungated

\* Only a version that was cleared, or that scripts may promote, is still to
\* be made active.
Entitled ==
    \A t \in Task : \A i \in DOMAIN ops[t] :
        ops[t][i] = "active" => model[t] \in cleared \cup Ungated

(***************************************************************************)
(* The inductive invariant.  The file is rewritten from the index a task   *)
(* read, however old, so what holds of the file must hold of every such    *)
(* snapshot, and of every version a task is still to make active.          *)
(***************************************************************************)
RegistryInv ==
    /\ TypeOK
    /\ OpsInv
    /\ Entitled
    /\ \A t \in Task : Single(snap[t]) /\ Vetted(snap[t])
    /\ file # Torn => Single(file) /\ Vetted(file)

LEMMA InitRegistryInv == Init => RegistryInv
<1> SUFFICES ASSUME Init PROVE RegistryInv
  OBVIOUS
<1> USE RegistryAssumption
<1>1. TypeOK
  BY DEF Init, TypeOK, Step
<1>2. OpsInv /\ Entitled
  BY DEF Init, OpsInv, Entitled
<1>3. Single(Shipped) /\ Vetted(Shipped)
  BY DEF Single, Vetted
<1>4. QED
  BY <1>1, <1>2, <1>3 DEF Init, RegistryInv

\* The operations on an index keep its type.
LEMMA UpdatedType ==
    ASSUME TypeOK, NEW t \in Task, ops[t] # << >>
    PROVE  Updated(t) \in Index
<1>1. Head(ops[t]) \in Op /\ snap[t] \in Index /\ model[t] \in Version
  BY DEF TypeOK
<1>2. \A a \in Version, s \in Index, o \in BOOLEAN : Registered(s, a, o) \in Index
  BY DEF Registered, Index, Status
<1>3. \A a \in Version, s \in Index, to \in {"validated", "active"} :
         Promoted(s, a, to) \in Index
  BY DEF Promoted, Index, Status
<1>4. metrics_ok[t] \in BOOLEAN
  BY DEF TypeOK
<1>5. QED
  BY <1>1, <1>2, <1>3, <1>4 DEF Updated, Op

\* Writing back what a task read, with its change, adds at most the task's
\* own version to the active ones, and then no other remains.
LEMMA UpdatedActive ==
    ASSUME TypeOK, NEW t \in Task, ops[t] # << >>
    PROVE  \/ ActiveIn(Updated(t)) \subseteq ActiveIn(snap[t])
           \/ /\ Head(ops[t]) = "active"
              /\ ActiveIn(Updated(t)) = {model[t]}
<1>1. Head(ops[t]) \in Op /\ snap[t] \in Index /\ model[t] \in Version
  BY DEF TypeOK
<1>2. CASE Head(ops[t]) = "register"
  BY <1>1, <1>2 DEF Updated, Registered, ActiveIn, Index
<1>3. CASE Head(ops[t]) = "validated"
  BY <1>1, <1>3 DEF Updated, Promoted, ActiveIn, Index
<1>4. CASE Head(ops[t]) = "active"
  <2>1. Updated(t) = Promoted(snap[t], model[t], "active")
    BY <1>4 DEF Updated
  <2>2. \A u \in Version : Updated(t)[u].status = "active" <=> u = model[t]
    BY <1>1, <2>1 DEF Promoted, Index
  <2>3. QED
    BY <1>1, <1>4, <2>2 DEF ActiveIn
<1>5. QED
  BY <1>1, <1>2, <1>3, <1>4 DEF Op

LEMMA RegistryTypeStep == TypeOK /\ OpsInv /\ [Next]_vars => TypeOK' /\ OpsInv'
<1> SUFFICES ASSUME TypeOK, OpsInv, [Next]_vars PROVE TypeOK' /\ OpsInv'
  OBVIOUS
<1> USE DEF TypeOK, OpsInv, Step, Goes, Task
<1>1. CASE FairnessAudit
  BY <1>1 DEF FairnessAudit
<1>2. ASSUME NEW a \in Api, ApiEvaluate(a) PROVE TypeOK' /\ OpsInv'
  BY <1>2 DEF ApiEvaluate, Index
<1>3. ASSUME NEW a \in Api, ApiGate(a) PROVE TypeOK' /\ OpsInv'
  BY <1>3 DEF ApiGate
<1>4. ASSUME NEW a \in Api, ApiBlocked(a) PROVE TypeOK' /\ OpsInv'
  BY <1>4 DEF ApiBlocked
<1>5. ASSUME NEW a \in Api, ApiGet(a) PROVE TypeOK' /\ OpsInv'
  <2>1. <<"validated", "active">> \in Seq(Op) /\ <<"active">> \in Seq(Op)
    BY DEF Op
  <2>2. <<"validated", "active">> # << >> /\ <<"active">> # << >>
    OBVIOUS
  <2>3. QED
    BY <1>5, <2>1, <2>2 DEF ApiGet
<1>6. ASSUME NEW p \in Script, ScriptStart(p) PROVE TypeOK' /\ OpsInv'
  <2>1. PICK told \in {<<"register">>, <<"register", "validated">>,
                       <<"register", "validated", "active">>} :
               ops' = [ops EXCEPT ![p] = told]
    BY <1>6 DEF ScriptStart
  <2>2. told \in Seq(Op) /\ told # << >>
    <3>1. <<"register">> \in Seq(Op) /\ <<"register">> # << >>
      BY DEF Op
    <3>2. /\ <<"register", "validated">> \in Seq(Op)
          /\ <<"register", "validated">> # << >>
      BY DEF Op
    <3>3. /\ <<"register", "validated", "active">> \in Seq(Op)
          /\ <<"register", "validated", "active">> # << >>
      BY DEF Op
    <3>4. QED
      BY <2>1, <3>1, <3>2, <3>3
  <2>3. QED
    BY <1>6, <2>1, <2>2 DEF ScriptStart
<1>7. ASSUME NEW t \in Task, OpRead(t) PROVE TypeOK' /\ OpsInv'
  BY <1>7 DEF OpRead, Accepted
<1>8. ASSUME NEW t \in Task, OpOpen(t) PROVE TypeOK' /\ OpsInv'
  BY <1>8 DEF OpOpen
<1>9. ASSUME NEW t \in Task, OpDump(t) PROVE TypeOK' /\ OpsInv'
  <2>1. ops[t] \in Seq(Op) /\ ops[t] # << >>
    BY <1>9 DEF OpDump
  <2>2. Tail(ops[t]) \in Seq(Op) /\ Len(Tail(ops[t])) = Len(ops[t]) - 1
    BY <2>1
  <2>3. Len(ops[t]) # 1 => Tail(ops[t]) # << >>
    BY <2>2, Len(ops[t]) # 1 => Len(Tail(ops[t])) # 0, Len(<< >>) = 0
  <2>4. Updated(t) \in Index
    BY <2>1, UpdatedType
  <2>5. TypeOK'
    BY <1>9, <2>2, <2>4 DEF OpDump
  <2>6. OpsInv'
    BY <1>9, <2>3 DEF OpDump
  <2>7. QED
    BY <2>5, <2>6
<1>10. ASSUME NEW t \in Task, OpFails(t) PROVE TypeOK' /\ OpsInv'
  BY <1>10 DEF OpFails
<1>11. ASSUME NEW process, Crash(process) PROVE TypeOK' /\ OpsInv'
  BY <1>11 DEF Crash
<1>12. CASE UNCHANGED vars
  BY <1>12 DEF vars
<1>13. QED
  BY <1>1, <1>2, <1>3, <1>4, <1>5, <1>6, <1>7, <1>8, <1>9, <1>10, <1>11,
     <1>12 DEF Next

(***************************************************************************)
(* Every variable of the registry and of its tasks keeps its type (TypeOK).*)
(***************************************************************************)
THEOREM RegistryTypeCorrect == Spec => []TypeOK
<1>1. Init => TypeOK /\ OpsInv
  BY InitRegistryInv DEF RegistryInv
<1>2. QED
  BY <1>1, RegistryTypeStep, PTL DEF Spec

\* A step keeps the invariant when its file is vetted and its snapshots are
\* copies of it.
LEMMA VettedStep ==
    ASSUME RegistryInv, TypeOK', OpsInv', Entitled',
           cleared \subseteq cleared',
           \A t \in Task : \/ snap'[t] = snap[t]
                           \/ file # Torn /\ snap'[t] = file,
           \/ file' = file
           \/ file' = Torn
           \/ Single(file') /\ ActiveIn(file') \subseteq cleared' \cup Ungated
    PROVE  RegistryInv'
<1>1. \A t \in Task : Single(snap'[t]) /\ ActiveIn(snap'[t]) \subseteq cleared' \cup Ungated
  BY DEF RegistryInv, Single, Vetted
<1>2. file' # Torn
         => Single(file') /\ ActiveIn(file') \subseteq cleared' \cup Ungated
  BY DEF RegistryInv, Single, Vetted
<1>3. QED
  BY <1>1, <1>2 DEF RegistryInv, Single, Vetted

LEMMA EntitledKept ==
    ASSUME Entitled, model' = model, ops' = ops, cleared' = cleared
    PROVE  Entitled'
BY DEF Entitled

LEMMA RegistryStep == RegistryInv /\ [Next]_vars => RegistryInv'
<1> SUFFICES ASSUME RegistryInv, [Next]_vars PROVE RegistryInv'
  OBVIOUS
<1>1. TypeOK /\ OpsInv /\ TypeOK' /\ OpsInv'
  BY RegistryTypeStep DEF RegistryInv
<1>2. Entitled /\ \A t \in Task : Single(snap[t]) /\ Vetted(snap[t])
  BY DEF RegistryInv
<1>3. CASE FairnessAudit \/ UNCHANGED vars
  <2>1. /\ file' = file /\ cleared' = cleared /\ snap' = snap /\ model' = model
        /\ ops' = ops
    BY <1>3 DEF FairnessAudit, vars
  <2>2. Entitled'
    BY <2>1, <1>2, EntitledKept
  <2>3. QED
    BY <1>1, <2>1, <2>2, VettedStep
<1>4. ASSUME NEW a \in Api, ApiEvaluate(a) \/ ApiGate(a) \/ ApiBlocked(a)
      PROVE  RegistryInv'
  BY <1>1, <1>2, VettedStep, EntitledKept, <1>4 DEF ApiEvaluate, ApiGate, ApiBlocked
<1>5. ASSUME NEW a \in Api, ApiGet(a) PROVE RegistryInv'
  <2>1. /\ cleared' = cleared \cup {model[a]} /\ model' = model
        /\ snap' = snap /\ file' = file
        /\ \A t \in Task \ {a} : ops'[t] = ops[t]
    BY <1>1, <1>5 DEF ApiGet, ReportPassed, TypeOK
  <2>2. Entitled'
    BY <1>2, <2>1 DEF Entitled
  <2>3. QED
    BY <1>1, VettedStep, <2>1, <2>2
<1>6. ASSUME NEW p \in Script, ScriptStart(p) PROVE RegistryInv'
  <2>1. PICK told \in {<<"register">>, <<"register", "validated">>,
                       <<"register", "validated", "active">>} :
               /\ Len(told) = 3 => model[p] \in Ungated
               /\ ops' = [ops EXCEPT ![p] = told]
    BY <1>6 DEF ScriptStart
  <2>2. p \in Task /\ ops'[p] = told /\ \A t \in Task \ {p} : ops'[t] = ops[t]
    BY <1>1, <2>1 DEF Task, TypeOK
  <2>3. cleared' = cleared /\ model' = model /\ snap' = snap /\ file' = file
    BY <1>6 DEF ScriptStart
  <2>4. \A i \in DOMAIN told : told[i] = "active" => model[p] \in Ungated
    <3>1. CASE told = <<"register">>
      BY <3>1
    <3>2. CASE told = <<"register", "validated">>
      BY <3>2
    <3>3. CASE told = <<"register", "validated", "active">>
      BY <2>1, <3>3
    <3>4. QED
      BY <2>1, <3>1, <3>2, <3>3
  <2>5. Entitled'
    BY <1>2, <2>2, <2>3, <2>4 DEF Entitled
  <2>6. QED
    BY <1>1, VettedStep, <2>3, <2>5
<1>7. ASSUME NEW t \in Task, OpRead(t) PROVE RegistryInv'
  <2>1. \A u \in Task : \/ snap'[u] = snap[u]
                        \/ file # Torn /\ snap'[u] = file
    <3>1. file # Torn /\ snap' = [snap EXCEPT ![t] = file]
      BY <1>7 DEF OpRead, Accepted
    <3>2. snap \in [Task -> Index]
      BY <1>1 DEF TypeOK
    <3>3. QED
      BY <3>1, <3>2
  <2>2. QED
    BY <1>1, <1>2, VettedStep, EntitledKept, <1>7, <2>1 DEF OpRead
<1>8. ASSUME NEW t \in Task, OpOpen(t) PROVE RegistryInv'
  BY <1>1, <1>2, VettedStep, EntitledKept, <1>8 DEF OpOpen
<1>9. ASSUME NEW t \in Task, OpDump(t) PROVE RegistryInv'
  <2>1. ops[t] \in Seq(Op) /\ ops[t] # << >>
    BY <1>1, <1>9 DEF OpDump, OpsInv, TypeOK
  <2>2. /\ cleared' = cleared /\ model' = model /\ snap' = snap
        /\ ops'[t] = Tail(ops[t])
        /\ \A u \in Task \ {t} : ops'[u] = ops[u]
        /\ file' = Updated(t) \/ file' = Torn
    BY <1>1, <1>9 DEF OpDump, TypeOK
  <2>3. \A i \in DOMAIN Tail(ops[t]) :
           i + 1 \in DOMAIN ops[t] /\ Tail(ops[t])[i] = ops[t][i + 1]
    BY <2>1, HeadTailProperties
  <2>4. Entitled'
    <3>1. \A i \in DOMAIN ops'[t] :
             ops'[t][i] = "active" => model[t] \in cleared \cup Ungated
      BY <1>2, <2>2, <2>3 DEF Entitled
    <3>2. \A u \in Task \ {t} : \A i \in DOMAIN ops'[u] :
             ops'[u][i] = "active" => model[u] \in cleared \cup Ungated
      BY <1>2, <2>2 DEF Entitled
    <3>3. QED
      BY <2>2, <3>1, <3>2 DEF Entitled
  <2>5. Head(ops[t]) = "active" => model[t] \in cleared \cup Ungated
    <3>1. 1 \in DOMAIN ops[t] /\ Head(ops[t]) = ops[t][1]
      BY <2>1
    <3>2. QED
      BY <1>2, <3>1 DEF Entitled
  <2>6. Single(Updated(t)) /\ ActiveIn(Updated(t)) \subseteq cleared \cup Ungated
    BY <1>1, <1>2, <2>1, <2>5, UpdatedActive DEF Single, Vetted
  <2>7. QED
    BY <1>1, VettedStep, <2>2, <2>4, <2>6
<1>10. ASSUME NEW t \in Task, OpFails(t) PROVE RegistryInv'
  BY <1>1, <1>2, VettedStep, EntitledKept, <1>10 DEF OpFails
<1>11. ASSUME NEW process, Crash(process) PROVE RegistryInv'
  BY <1>1, <1>2, VettedStep, EntitledKept, <1>11 DEF Crash
<1>12. QED
  BY <1>3, <1>4, <1>5, <1>6, <1>7, <1>8, <1>9, <1>10, <1>11 DEF Next

LEMMA RegistryInvariant == Spec => []RegistryInv
BY InitRegistryInv, RegistryStep, PTL DEF Spec

(***************************************************************************)
(* The single-active invariant survives any number of processes that read, *)
(* truncate and rewrite the file, and their crashes (AtMostOneActive).     *)
(***************************************************************************)
THEOREM SingleActive == Spec => []AtMostOneActive
<1>1. RegistryInv => AtMostOneActive
  BY DEF RegistryInv, AtMostOneActive, Single
<1>2. QED
  BY <1>1, RegistryInvariant, PTL

(***************************************************************************)
(* What is active was cleared by the gate, or is what the scripts promote  *)
(* (ActiveWasCleared).                                                     *)
(***************************************************************************)
THEOREM ActiveIsCleared == Spec => []ActiveWasCleared
<1>1. RegistryInv => ActiveWasCleared
  BY DEF RegistryInv, ActiveWasCleared, Vetted
<1>2. QED
  BY <1>1, RegistryInvariant, PTL

-----------------------------------------------------------------------------
(***************************************************************************)
(* Training: for every set of repayment records, villages and sizes of the *)
(* other files, every number of folds and of records that are enough.      *)
(***************************************************************************)

Trainer == {"logistic", "woe", "gbm", "rf", "stacking", "plain"}

\* Different trainers, in an order.
Lineup(ts) ==
    /\ ts \in Seq(Trainer)
    /\ \A i, j \in 1 .. Len(ts) : ts[i] = ts[j] => i = j

\* The trainers that come first in ts.
First(ts, n) == {ts[i] : i \in 1 .. n}

Reached(ts, done) == \E n \in 0 .. Len(ts) - 1 : DOMAIN done = First(ts, n)

Finished(ts, done) == DOMAIN done = First(ts, Len(ts))

\* A report of trainer t that predicts no row by weights that have learnt from it
\* and, where it is out of fold, no row by anything of its village.
Unseen(t, r) ==
    t # "stacking" =>
        /\ \A i \in DOMAIN r : i \notin r[i].fit
        /\ program \in {"production", "benchmark"} =>
               DOMAIN r = Rows /\ \A i \in Rows : HeldOut(i, r[i])

\* A record that exists is flagged for retraining or was withdrawn, not both.
ConsentKept ==
    /\ outcome \in [Pilot -> {Null, "settled", "between"}]
    /\ flagged \subseteq Pilot
    /\ withdrawn \subseteq {l \in Pilot : outcome[l] # Null}
    /\ flagged \subseteq {l \in Pilot : outcome[l] # Null}
    /\ flagged \cap withdrawn = {}

\* The trainers are validated, fitted and registered in order, and no stage
\* begins before the one ahead of it is done.
OrderKept ==
    /\ stage \in {"idle", "validate"} => DOMAIN report = {}
    /\ stage \in {"idle", "validate", "fit"} => DOMAIN registered = {}
    /\ stage = "idle" => fold = << >>
    /\ fold = << >> => DOMAIN oof = {}
    /\ stage = "validate" => program # "scorecard" /\ Reached(Validated(program), oof)
    /\ stage = "fit" =>
        /\ program # "scorecard" => Finished(Validated(program), oof)
        /\ Reached(Trained(program), report)
    /\ stage = "register" =>
        /\ Finished(Trained(program), report)
        /\ Reached(Trained(program), registered)

\* A trainer's out-of-fold predictions are those of the folds in force.
FoldsKept == \A t \in DOMAIN oof : oof[t] = OutOfFold(t)

\* Reports are fair when they are made, and are registered as they were.
ReportsKept ==
    /\ \A t \in DOMAIN report : Unseen(t, report[t])
    /\ \A t \in DOMAIN registered : Unseen(t, registered[t])

(***************************************************************************)
(* The inductive invariant. A report is made from out-of-fold predictions, *)
(* so that it is fair only if those of its trainer, and for the ensemble's *)
(* those of all trainers, are there by then (OrderKept) and were made with *)
(* the folds the cohort was split into (FoldsKept).                        *)
(***************************************************************************)
TrainingInv ==
    /\ program \in Program
    /\ ConsentKept
    /\ OrderKept
    /\ FoldsKept
    /\ ReportsKept

\* The trainers of a program are different ones.
LEMMA Trainers ==
  ASSUME NEW p \in Program
  PROVE  /\ Lineup(Validated(p)) /\ Lineup(Trained(p))
         /\ p # "scorecard" => Len(Validated(p)) \in Nat \ {0}
         /\ Len(Trained(p)) \in Nat \ {0}
         /\ p = "scorecard" => First(Trained(p), Len(Trained(p))) = {"plain"}
         /\ p = "retraining" => \A i \in 1 .. Len(Trained(p)) : Trained(p)[i] = "woe"
         /\ p \in {"production", "benchmark"} => \A i \in 1 .. Len(Trained(p)) :
                Trained(p)[i] \in First(Validated(p), Len(Validated(p))) \cup {"stacking"}
<1> DEFINE V == Validated(p)
           T == Trained(p)
<1>1. CASE p = "retraining"
  <2>1. V = <<"woe">> /\ T = <<"woe">>
    BY <1>1 DEF Validated, Trained
  <2>2. /\ V \in Seq(Trainer) /\ T \in Seq(Trainer) /\ Len(V) = 1 /\ Len(T) = 1
        /\ V[1] = "woe" /\ T[1] = "woe"
    BY <2>1 DEF Trainer
  <2>3. \A i \in 1 .. 1 : i = 1
    OBVIOUS
  <2>4. /\ \A i, j \in 1 .. 1 : V[i] = V[j] => i = j
        /\ \A i, j \in 1 .. 1 : T[i] = T[j] => i = j
        /\ \A i \in 1 .. 1 : T[i] = "woe"
    BY <2>2, <2>3
  <2> HIDE DEF V, T
  <2>5. Len(V) \in Nat \ {0} /\ Len(T) \in Nat \ {0}
    BY <2>2
  <2> QED
    BY <1>1, <2>2, <2>4, <2>5 DEF V, T, Lineup
<1>2. CASE p = "production"
  <2>1. V = <<"woe", "gbm">> /\ T = <<"woe", "gbm">>
    BY <1>2 DEF Validated, Trained
  <2>2. /\ V \in Seq(Trainer) /\ T \in Seq(Trainer) /\ Len(V) = 2 /\ Len(T) = 2
        /\ V[1] = "woe" /\ V[2] = "gbm" /\ T[1] = "woe" /\ T[2] = "gbm"
    BY <2>1 DEF Trainer
  <2>3. \A i \in 1 .. 2 : i = 1 \/ i = 2
    OBVIOUS
  <2>4. \A i \in 1 .. 2 : T[i] \in First(V, 2) \cup {"stacking"}
    BY <2>2, <2>3 DEF First
  <2>5. \A i, j \in 1 .. 2 : V[i] = V[j] => i = j
    BY <2>2, <2>3
  <2>6. \A i, j \in 1 .. 2 : T[i] = T[j] => i = j
    BY <2>2, <2>3
  <2>7. Len(V) \in Nat \ {0} /\ Len(T) \in Nat \ {0}
    BY <2>2
  <2>8. Lineup(V) /\ Lineup(T)
    BY <2>2, <2>5, <2>6 DEF Lineup
  <2> QED
    BY <1>2, <2>2, <2>4, <2>7, <2>8
<1>3. CASE p = "benchmark"
  <2>1. V = <<"logistic", "woe", "gbm", "rf">> /\ T = Append(V, "stacking")
    BY <1>3 DEF Validated, Trained
  <2>2. /\ V \in Seq(Trainer) /\ Len(V) = 4
        /\ V[1] = "logistic" /\ V[2] = "woe" /\ V[3] = "gbm" /\ V[4] = "rf"
    BY <2>1 DEF Trainer
  <2>3. T \in Seq(Trainer) /\ Len(T) = 5 /\ T[5] = "stacking" /\ \A i \in 1 .. 4 : T[i] = V[i]
    BY <2>1, <2>2, AppendProperties DEF Trainer
  <2>4. \A i \in 1 .. 4 : i = 1 \/ i = 2 \/ i = 3 \/ i = 4
    OBVIOUS
  <2>5. \A i \in 1 .. 5 : i \in 1 .. 4 \/ i = 5
    OBVIOUS
  <2>6. \A i, j \in 1 .. 4 : V[i] = V[j] => i = j
    BY <2>2, <2>4
  <2>7. \A i \in 1 .. 4 : V[i] # "stacking"
    BY <2>2, <2>4
  <2>8. \A i, j \in 1 .. 5 : T[i] = T[j] => i = j
    BY <2>3, <2>5, <2>6, <2>7
  <2>9. \A i \in 1 .. 5 : T[i] \in First(V, 4) \cup {"stacking"}
    BY <2>3, <2>5 DEF First
  <2>10. Len(V) \in Nat \ {0} /\ Len(T) \in Nat \ {0}
    BY <2>2, <2>3
  <2>11. Lineup(V) /\ Lineup(T)
    BY <2>2, <2>3, <2>6, <2>8 DEF Lineup
  <2> QED
    BY <1>3, <2>2, <2>3, <2>9, <2>10, <2>11
<1>4. CASE p = "scorecard"
  <2>1. V = << >> /\ T = <<"plain">>
    BY <1>4 DEF Validated, Trained
  <2>2. /\ V \in Seq(Trainer) /\ T \in Seq(Trainer) /\ Len(V) = 0 /\ Len(T) = 1 /\ T[1] = "plain"
    BY <2>1 DEF Trainer
  <2>3. \A i \in 1 .. 1 : i = 1
    OBVIOUS
  <2>4. First(T, 1) = {"plain"}
    BY <2>2, <2>3 DEF First
  <2>5. /\ \A i, j \in 1 .. 0 : V[i] = V[j] => i = j
        /\ \A i, j \in 1 .. 1 : T[i] = T[j] => i = j
    BY <2>3
  <2>6. Len(T) \in Nat \ {0}
    BY <2>2
  <2>7. /\ \A i, j \in 1 .. Len(V) : V[i] = V[j] => i = j
        /\ \A i, j \in 1 .. Len(T) : T[i] = T[j] => i = j
        /\ First(T, Len(T)) = {"plain"}
    BY <2>2, <2>4, <2>5
  <2> QED
    BY <1>4, <2>2, <2>6, <2>7 DEF Lineup
<1> QED
  BY <1>1, <1>2, <1>3, <1>4 DEF Program

\* The first n of different trainers are n.
LEMMA FirstCounted ==
  ASSUME NEW ts, Lineup(ts),
         NEW n \in 0 .. Len(ts)
  PROVE  IsFiniteSet(First(ts, n)) /\ Cardinality(First(ts, n)) = n
<1> DEFINE f == [i \in 1 .. n |-> ts[i]]
<1>1. Len(ts) \in Nat
  BY LenProperties DEF Lineup
<1>2. f \in [1 .. n -> First(ts, n)]
  BY DEF First
<1>3. /\ \A i, j \in 1 .. n : f[i] = f[j] => i = j
      /\ \A t \in First(ts, n) : \E i \in 1 .. n : f[i] = t
  BY <1>1 DEF First, Lineup
<1> HIDE DEF f
<1>4. ExistsBijection(1 .. n, First(ts, n))
  BY <1>2, <1>3 DEF ExistsBijection, Bijection, Injection, Surjection, IsInjective
<1>5. IsFiniteSet(1 .. n) /\ Cardinality(1 .. n) = n
  BY <1>1, FS_Interval
<1> QED
  BY <1>4, <1>5, FS_Bijection

\* The trainer at work is the next in order, and entering it either leaves
\* the others to be done or is the end.
LEMMA Progress ==
  ASSUME NEW ts, Lineup(ts),
         NEW done, Reached(ts, done),
         NEW t, t = Upcoming(ts, done), NEW entry, NEW after, after = With(done, t, entry)
  PROVE  /\ t \in First(ts, Len(ts))
         /\ t \notin DOMAIN done
         /\ DOMAIN after = DOMAIN done \cup {t}
         /\ after[t] = entry
         /\ IsFinal(ts, done) => Finished(ts, after)
         /\ ~IsFinal(ts, done) => Reached(ts, after)
<1>1. PICK n \in 0 .. Len(ts) - 1 : DOMAIN done = First(ts, n)
  BY DEF Reached
<1>2. Len(ts) \in Nat
  BY LenProperties DEF Lineup
<1>3. Cardinality(DOMAIN done) = n
  BY <1>1, <1>2, FirstCounted
<1>4. t = ts[n + 1] /\ n + 1 \in 1 .. Len(ts)
  BY <1>2, <1>3 DEF Upcoming
<1>5. t \notin DOMAIN done
  BY <1>1, <1>2, <1>4 DEF First, Lineup
<1>6. DOMAIN after = DOMAIN done \cup {t} /\ after[t] = entry
  BY DEF With
<1>7. DOMAIN after = First(ts, n + 1)
  <2>1. 1 .. n + 1 = (1 .. n) \cup {n + 1}
    OBVIOUS
  <2> QED
    BY <1>1, <1>4, <1>6, <2>1 DEF First
<1>8. ASSUME IsFinal(ts, done) PROVE Finished(ts, after)
  BY <1>3, <1>7, <1>8 DEF IsFinal, Finished
<1>9. ASSUME ~IsFinal(ts, done) PROVE Reached(ts, after)
  <2>1. n + 1 \in 0 .. Len(ts) - 1
    BY <1>2, <1>3, <1>9 DEF IsFinal
  <2> QED
    BY <1>7, <2>1 DEF Reached
<1> QED
  BY <1>4, <1>5, <1>6, <1>8, <1>9 DEF First

\* A classifier rests on the rows it is given.
LEMMA FitsWithin ==
  ASSUME NEW t, NEW S
  PROVE  Fitted(t, S).fit \subseteq S /\ Fitted(t, S).tuned \subseteq S
BY DEF Fitted, FitOnPart, FitOnAll, FirstPart

\* The rows of one village are in one fold.
LEMMA OutOfFoldHeldOut ==
  ASSUME NEW t, NEW i \in DOMAIN OutOfFold(t)
  PROVE  HeldOut(i, OutOfFold(t)[i])
<1> SUFFICES ASSUME NEW j \in OutOfFold(t)[i].fit \cup OutOfFold(t)[i].tuned
             PROVE  cohort[j].village # cohort[i].village
  BY DEF HeldOut
<1>1. OutOfFold(t)[i] = Fitted(t, Others(i))
  BY DEF OutOfFold
<1>2. j \in Others(i)
  BY <1>1, FitsWithin
<1> QED
  BY <1>2 DEF Others, FoldOf

\* What a trainer is judged by has not learnt from the row it predicts.
LEMMA JudgedFairly ==
  ASSUME TrainingInv, stage = "fit", program # "scorecard",
         NEW n \in 1 .. Len(Trained(program))
  PROVE  Unseen(Trained(program)[n], Judged(Trained(program)[n]))
<1> DEFINE t == Trained(program)[n]
<1>1. CASE t = "stacking"
  BY <1>1 DEF Unseen
<1>2. CASE program = "retraining"
  <2>1. t = "woe"
    BY <1>2, Trainers DEF TrainingInv
  <2>2. Judged(t) = PartReport(Rows)
    BY <1>2, <2>1 DEF Judged, OwnReport, Splitting
  <2>3. \A i \in DOMAIN PartReport(Rows) : i \notin PartReport(Rows)[i].fit
    BY DEF PartReport, FitOnPart
  <2> QED
    BY <1>2, <2>2, <2>3 DEF Unseen
<1>3. CASE program \in {"production", "benchmark"} /\ t # "stacking"
  <2>1. t \in DOMAIN oof
    BY <1>3, Trainers DEF TrainingInv, OrderKept, Finished
  <2>2. Judged(t) = OutOfFold(t)
    BY <1>3, <2>1 DEF Judged, TrainingInv, FoldsKept
  <2>3. DOMAIN OutOfFold(t) = Rows /\ \A i \in Rows : i \notin OutOfFold(t)[i].fit
    BY FitsWithin DEF OutOfFold, Others
  <2>4. \A i \in Rows : HeldOut(i, OutOfFold(t)[i])
    BY OutOfFoldHeldOut DEF OutOfFold
  <2> QED
    BY <2>2, <2>3, <2>4 DEF Unseen
<1> QED
  BY <1>1, <1>2, <1>3 DEF TrainingInv, Program

LEMMA TrainingBegins == TrainingInit => TrainingInv
BY DEF TrainingInit, TrainingInv, ConsentKept, OrderKept, FoldsKept, ReportsKept

\* A step that moves the ledger alone, or takes a cohort.
LEMMA LedgerStep ==
  ASSUME TrainingInv, stage = "idle",
         UNCHANGED <<program, fold, oof, report, registered>>, ConsentKept',
         \/ stage' = "idle"
         \/ stage' = "fit" /\ program = "scorecard"
         \/ stage' = "validate" /\ program # "scorecard"
  PROVE  TrainingInv'
<1>1. /\ program \in Program /\ fold = << >> /\ DOMAIN oof = {} /\ DOMAIN report = {}
      /\ DOMAIN registered = {}
  BY DEF TrainingInv, OrderKept
<1>2. Len(Trained(program)) \in Nat \ {0} /\ (program # "scorecard" => Len(Validated(program)) \in Nat \ {0})
  BY <1>1, Trainers
<1>3. \A ts : First(ts, 0) = {}
  BY DEF First
<1>4. OrderKept'
  BY <1>1, <1>2, <1>3 DEF OrderKept, Reached
<1> QED
  BY <1>1, <1>4 DEF TrainingInv, FoldsKept, ReportsKept

\* Any other step leaves the ledger and the cohort alone.
LEMMA FailStep ==
  ASSUME TrainingInv, Fails
  PROVE  TrainingInv'
<1>1. OrderKept'
  BY DEF Fails, TrainingInv, OrderKept
<1> QED
  BY <1>1 DEF Fails, ledgerVars, TrainingInv, ConsentKept, FoldsKept, ReportsKept, Unseen, HeldOut, Rows,
     OutOfFold, Others, FoldOf

\* The ledger and the folds stay while trainers are fitted and registered.
LEMMA FoldsStay ==
  ASSUME TrainingInv, UNCHANGED <<ledgerVars, program, cohort, fold, oof>>
  PROVE  program' \in Program /\ ConsentKept' /\ FoldsKept'
<1>1. ConsentKept'
  BY DEF ledgerVars, TrainingInv, ConsentKept
<1>2. \A t : OutOfFold(t)' = OutOfFold(t)
  BY DEF OutOfFold, Others, FoldOf, Rows
<1> QED
  BY <1>1, <1>2 DEF TrainingInv, FoldsKept

\* The next trainer is validated on the folds.
LEMMA ValidateStep ==
  ASSUME TrainingInv, Validate
  PROVE  TrainingInv'
<1> DEFINE V == Validated(program)
           t == Upcoming(V, oof)
<1>1. CASE Fails
  BY <1>1, FailStep
<1>2. CASE /\ oof' = With(oof, t, OutOfFold(t))
           /\ stage' = IF IsFinal(V, oof) THEN "fit" ELSE stage
           /\ UNCHANGED <<ledgerVars, program, cohort, fold, report, registered>>
  <2>1. /\ stage = "validate" /\ fold # << >> /\ program # "scorecard" /\ Reached(V, oof)
        /\ program \in Program
    BY DEF Validate, TrainingInv, OrderKept
  <2>2. /\ t \notin DOMAIN oof
        /\ DOMAIN oof' = DOMAIN oof \cup {t}
        /\ oof'[t] = OutOfFold(t)
        /\ IsFinal(V, oof) => Finished(V, oof')
        /\ ~IsFinal(V, oof) => Reached(V, oof')
    <3>1. ASSUME NEW W, W = V, NEW u, u = t, NEW e, e = OutOfFold(t)
          PROVE  /\ u \in First(W, Len(W)) /\ u \notin DOMAIN oof
                 /\ DOMAIN oof' = DOMAIN oof \cup {u}
                 /\ oof'[u] = e
                 /\ IsFinal(W, oof) => Finished(W, oof')
                 /\ ~IsFinal(W, oof) => Reached(W, oof')
      <4>1. /\ Lineup(W) /\ Reached(W, oof) /\ u = Upcoming(W, oof)
            /\ oof' = With(oof, u, e)
        BY <1>2, <2>1, <3>1, Trainers
      <4> QED
        BY <4>1, Progress
    <3> QED
      BY <3>1
  <2>7. \A u \in DOMAIN oof : oof'[u] = oof[u]
    BY <1>2, <2>2 DEF With
  <2>3. FoldsKept'
    <3>1. \A u : OutOfFold(u)' = OutOfFold(u)
      BY <1>2 DEF OutOfFold, Others, FoldOf, Rows
    <3> QED
      BY <2>2, <2>7, <3>1 DEF TrainingInv, FoldsKept
  <2>4. Len(Trained(program)) \in Nat \ {0} /\ DOMAIN report = {} /\ DOMAIN registered = {}
    BY <2>1, Trainers DEF TrainingInv, OrderKept
  <2>5. Reached(Trained(program), report)
    BY <2>4 DEF Reached, First
  <2>6. OrderKept'
    BY <1>2, <2>1, <2>2, <2>4, <2>5 DEF OrderKept, Reached, Finished
  <2> QED
    BY <1>2, <2>1, <2>3, <2>4, <2>6 DEF ledgerVars, TrainingInv, ConsentKept, ReportsKept
<1> QED
  BY <1>1, <1>2 DEF Validate

\* The next trainer is fitted, and reported on by its predictions.
LEMMA FitStep ==
  ASSUME TrainingInv, Fit
  PROVE  TrainingInv'
<1> DEFINE T == Trained(program)
           t == Upcoming(T, report)
<1>1. /\ stage = "fit" /\ program # "scorecard" /\ program \in Program
      /\ Reached(T, report) /\ DOMAIN registered = {}
      /\ report' = With(report, t, Judged(t))
      /\ stage' = IF IsFinal(T, report) THEN "register" ELSE stage
      /\ UNCHANGED <<ledgerVars, program, cohort, fold, oof, registered>>
  BY DEF Fit, TrainingInv, OrderKept
<1>2. /\ t \in First(T, Len(T)) /\ t \notin DOMAIN report
      /\ DOMAIN report' = DOMAIN report \cup {t}
      /\ report'[t] = Judged(t)
      /\ IsFinal(T, report) => Finished(T, report')
      /\ ~IsFinal(T, report) => Reached(T, report')
  <2>1. ASSUME NEW W, W = T, NEW u, u = t, NEW e, e = Judged(t)
        PROVE  /\ u \in First(W, Len(W)) /\ u \notin DOMAIN report
               /\ DOMAIN report' = DOMAIN report \cup {u}
               /\ report'[u] = e
               /\ IsFinal(W, report) => Finished(W, report')
               /\ ~IsFinal(W, report) => Reached(W, report')
    <3>1. /\ Lineup(W) /\ Reached(W, report) /\ u = Upcoming(W, report)
          /\ report' = With(report, u, e)
      BY <1>1, <2>1, Trainers
    <3> QED
      BY <3>1, Progress
  <2> QED
    BY <2>1
<1>3. Unseen(t, Judged(t))
  BY <1>1, <1>2, JudgedFairly DEF First
<1>4. ReportsKept'
  <2>2. \A u \in DOMAIN report : report'[u] = report[u]
    BY <1>1, <1>2 DEF With
  <2>1. \A u, r : Unseen(u, r)' <=> Unseen(u, r)
    BY <1>1 DEF Unseen, HeldOut, Rows
  <2> QED
    BY <1>1, <1>2, <1>3, <2>1, <2>2 DEF TrainingInv, ReportsKept
<1>5. Len(T) \in Nat \ {0}
  BY <1>1, Trainers
<1>6. Reached(T, registered)
  BY <1>1, <1>5 DEF Reached, First
<1>7. OrderKept'
  BY <1>1, <1>2, <1>6 DEF TrainingInv, OrderKept, Reached, Finished
<1> QED
  BY <1>1, <1>4, <1>7, FoldsStay DEF TrainingInv

\* The scorecard script fits one trainer and holds rows out.
LEMMA ScorecardStep ==
  ASSUME TrainingInv, FitScorecard
  PROVE  TrainingInv'
<1>1. PICK held \in SUBSET Rows :
         report' = [u \in {"plain"} |-> [i \in held |-> [fit |-> Rows \ held, tuned |-> Rows]]]
  BY DEF FitScorecard
<1>2. /\ stage = "fit" /\ program = "scorecard" /\ program \in Program /\ stage' = "register"
      /\ DOMAIN registered = {} /\ UNCHANGED <<ledgerVars, program, cohort, fold, oof, registered>>
  BY DEF FitScorecard, TrainingInv, OrderKept
<1>3. Len(Trained(program)) \in Nat \ {0} /\ Finished(Trained(program), report')
  BY <1>1, <1>2, Trainers DEF Finished
<1>4. Reached(Trained(program), registered)
  BY <1>2, <1>3 DEF Reached, First
<1>5. OrderKept'
  BY <1>2, <1>3, <1>4 DEF TrainingInv, OrderKept, Reached, Finished
<1>6. ReportsKept'
  <2>1. DOMAIN report' = {"plain"} /\ \A i \in DOMAIN report'["plain"] : i \notin report'["plain"][i].fit
    BY <1>1
  <2> QED
    BY <1>2, <2>1 DEF ReportsKept, Unseen
<1> QED
  BY <1>2, <1>5, <1>6, FoldsStay DEF TrainingInv

\* The next report goes to the registry.
LEMMA RegisterStep ==
  ASSUME TrainingInv, Register
  PROVE  TrainingInv'
<1> DEFINE T == Trained(program)
           t == Upcoming(T, registered)
<1>1. /\ stage = "register" /\ program \in Program
      /\ Reached(T, registered) /\ Finished(T, report)
      /\ registered' = With(registered, t, report[t])
      /\ stage' = IF IsFinal(T, registered) THEN "done" ELSE stage
      /\ UNCHANGED <<ledgerVars, program, cohort, fold, oof, report>>
  BY DEF Register, TrainingInv, OrderKept
<1>2. /\ t \in First(T, Len(T)) /\ t \notin DOMAIN registered
      /\ DOMAIN registered' = DOMAIN registered \cup {t}
      /\ registered'[t] = report[t]
      /\ ~IsFinal(T, registered) => Reached(T, registered')
  <2>1. ASSUME NEW W, W = T, NEW u, u = t, NEW e, e = report[t]
        PROVE  /\ u \in First(W, Len(W)) /\ u \notin DOMAIN registered
               /\ DOMAIN registered' = DOMAIN registered \cup {u}
               /\ registered'[u] = e
               /\ IsFinal(W, registered) => Finished(W, registered')
               /\ ~IsFinal(W, registered) => Reached(W, registered')
    <3>1. /\ Lineup(W) /\ Reached(W, registered) /\ u = Upcoming(W, registered)
          /\ registered' = With(registered, u, e)
      BY <1>1, <2>1, Trainers
    <3> QED
      BY <3>1, Progress
  <2> QED
    BY <2>1
<1>3. t \in DOMAIN report
  BY <1>1, <1>2 DEF Finished
<1>4. ReportsKept'
  <2>2. \A u \in DOMAIN registered : registered'[u] = registered[u]
    BY <1>1, <1>2 DEF With
  <2>1. \A u, r : Unseen(u, r)' <=> Unseen(u, r)
    BY <1>1 DEF Unseen, HeldOut, Rows
  <2> QED
    BY <1>1, <1>2, <1>3, <2>1, <2>2 DEF TrainingInv, ReportsKept
<1>5. OrderKept'
  BY <1>1, <1>2 DEF TrainingInv, OrderKept, Reached, Finished
<1> QED
  BY <1>1, <1>4, <1>5, FoldsStay DEF TrainingInv

\* The villages are split into folds before anything is validated.
LEMMA SplitStep ==
  ASSUME TrainingInv, Split
  PROVE  TrainingInv'
<1>1. /\ stage = "validate" /\ fold = << >> /\ DOMAIN oof = {}
      /\ UNCHANGED <<ledgerVars, program, stage, cohort, oof, report, registered>>
  BY DEF Split, TrainingInv, OrderKept
<1>2. OrderKept'
  BY <1>1 DEF TrainingInv, OrderKept, Reached, Finished
<1> QED
  BY <1>1, <1>2 DEF ledgerVars, TrainingInv, ConsentKept, FoldsKept, ReportsKept, Unseen, HeldOut, Rows

\* One step for every action of the module.
LEMMA TrainingStep ==
  ASSUME TrainingInv, [TrainingNext]_trainingVars
  PROVE  TrainingInv'
<1>1. ASSUME NEW l \in Pilot, RecordRepayment(l) PROVE TrainingInv'
  <2>1. stage = "idle" /\ stage' = "idle" /\ UNCHANGED <<program, fold, oof, report, registered>>
    BY <1>1 DEF RecordRepayment, Awaited
  <2>2. /\ outcome[l] = Null /\ withdrawn' = withdrawn /\ flagged' \subseteq flagged \cup {l}
        /\ \E status \in {"settled", "between"} : outcome' = [outcome EXCEPT ![l] = status]
    BY <1>1 DEF RecordRepayment
  <2>3. /\ l \notin withdrawn
        /\ \A k \in Pilot : outcome[k] # Null => outcome'[k] # Null
    BY <2>2, TrainingAssumption DEF TrainingInv, ConsentKept
  <2>4. outcome' \in [Pilot -> {Null, "settled", "between"}] /\ outcome'[l] # Null
    BY <2>2, TrainingAssumption DEF TrainingInv, ConsentKept
  <2>5. ConsentKept'
    BY <2>2, <2>3, <2>4 DEF TrainingInv, ConsentKept
  <2> QED
    BY <2>1, <2>5, LedgerStep
<1>2. ASSUME NEW b \in Borrower, Withdraw(b) PROVE TrainingInv'
  <2>1. stage = "idle" /\ stage' = "idle" /\ UNCHANGED <<program, fold, oof, report, registered>>
    BY <1>2 DEF Withdraw, Awaited
  <2>2. ConsentKept'
    BY <1>2 DEF TrainingInv, ConsentKept, Withdraw, Cascaded
  <2> QED
    BY <2>1, <2>2, LedgerStep
<1>3. CASE LoadRetraining \/ LoadProduction \/ LoadBenchmark \/ LoadScorecard
  <2>1. stage = "idle" /\ \E rows : Takes(rows)
    BY <1>3 DEF LoadRetraining, LoadProduction, LoadBenchmark, LoadScorecard, Begins
  <2>2. ConsentKept'
    BY <2>1 DEF Takes, ledgerVars, TrainingInv, ConsentKept
  <2> QED
    BY <2>1, <2>2, LedgerStep DEF Takes
<1>4. CASE CannotSplit \/ Raise
  BY <1>4, FailStep DEF CannotSplit, Raise
<1>5. CASE UNCHANGED trainingVars
  BY <1>5 DEF trainingVars, ledgerVars, TrainingInv, ConsentKept, OrderKept, Reached, Finished,
     FoldsKept, OutOfFold, Others, FoldOf, Rows, ReportsKept, Unseen, HeldOut
<1> QED
  BY <1>1, <1>2, <1>3, <1>4, <1>5, SplitStep, ValidateStep, FitStep, ScorecardStep, RegisterStep
     DEF TrainingNext

LEMMA TrainingInvariant == TrainingSpec => []TrainingInv
BY TrainingBegins, TrainingStep, PTL DEF TrainingSpec

(***************************************************************************)
(* No out-of-fold prediction, by which trainers are compared, rests on a   *)
(* row of the village of the row it predicts (SpatiallyHeldOut): whatever  *)
(* the villages, the cohort and the number of folds.                       *)
(***************************************************************************)
THEOREM SpatiallyHeldOutCorrect == TrainingSpec => []SpatiallyHeldOut
<1>1. TrainingInv => SpatiallyHeldOut
  BY OutOfFoldHeldOut DEF TrainingInv, FoldsKept, SpatiallyHeldOut
<1> QED
  BY <1>1, TrainingInvariant, PTL

(***************************************************************************)
(* The metrics the production and benchmark scripts register, but the      *)
(* ensemble's, are of predictions by what rests on no row of the village   *)
(* of the row predicted, over the whole cohort; those of the other         *)
(* programs are by weights that have not learnt from the row               *)
(* (JudgedOutOfFold).                                                      *)
(***************************************************************************)
THEOREM JudgedOutOfFoldCorrect == TrainingSpec => []JudgedOutOfFold
<1>1. TrainingInv => JudgedOutOfFold
  BY DEF TrainingInv, ReportsKept, Unseen, JudgedOutOfFold
<1> QED
  BY <1>1, TrainingInvariant, PTL

\* Rows of the files and of the generator.
Foreign == [from : {"home", "gmsc", "synthetic"}, id : Nat, village : Village \cup {Null}]

LEMMA FilesListed ==
  ASSUME NEW name \in {"home", "gmsc", "synthetic"}, NEW n \in Nat
  PROVE  File(name, n) \in Seq({"home", "gmsc", "synthetic"} \X Nat)
BY DEF File

LEMMA DrawnForeign ==
  ASSUME NEW sources \in Seq({"home", "gmsc", "synthetic"} \X Nat), NEW rows \in Drawn(sources)
  PROVE  rows \in Seq(Foreign)
<1>1. Len(sources) \in Nat /\ \A i \in 1 .. Len(sources) : sources[i] \in {"home", "gmsc", "synthetic"} \X Nat
  BY LenProperties
<1>2. PICK v \in [1 .. Len(sources) -> Village] :
         rows = [i \in 1 .. Len(sources) |-> Row(sources[i][1], sources[i][2], v[i])]
  BY DEF Drawn
<1>3. \A i \in 1 .. Len(sources) : Row(sources[i][1], sources[i][2], v[i]) \in Foreign
  BY <1>1, <1>2 DEF Row, Foreign
<1> QED
  BY <1>1, <1>2, <1>3

\* Rows of the records with consent.
Given == [from : {"pilot"}, id : flagged, village : Village]

\* A retraining takes the rows of the flagged records, and may add others.
LEMMA ConsentedRows ==
  ASSUME TrainingInv, NEW order \in SetToSeqs(Consented)
  PROVE  Extracted(order) \in Seq(Given)
<1>1. Consented \subseteq flagged /\ flagged \subseteq Pilot
  BY DEF Consented, TrainingInv, ConsentKept
<1>2. IsFiniteSet(Consented)
  BY <1>1, TrainingAssumption, FS_Subset
<1>3. Cardinality(Consented) \in Nat
  BY <1>2, FS_CardinalityType
<1>4. order \in [1 .. Cardinality(Consented) -> Consented]
  BY DEF SetToSeqs
<1>5. order \in Seq(Consented) /\ Len(order) \in Nat /\ \A i \in 1 .. Len(order) : order[i] \in Consented
  BY <1>3, <1>4, SeqDef, LenProperties
<1>6. \A i \in 1 .. Len(order) : Row("pilot", order[i], HomeOf[order[i]]) \in Given
  BY <1>1, <1>5, TrainingAssumption DEF Row, Given
<1> QED
  BY <1>5, <1>6 DEF Extracted

(***************************************************************************)
(* No cohort that is loaded takes in an outcome that was recorded before   *)
(* its borrower revoked (WithdrawnStaysOut).                               *)
(***************************************************************************)
THEOREM WithdrawnStaysOutCorrect == TrainingSpec => WithdrawnStaysOut
<1> DEFINE Ok(rows) == \A i \in 1 .. Len(rows) : rows[i].from = "pilot" => rows[i].id \notin withdrawn
           A == cohort' # cohort =>
                   \A i \in 1 .. Len(cohort') :
                       cohort'[i].from = "pilot" => cohort'[i].id \notin withdrawn
<1>1. TrainingInv /\ [TrainingNext]_trainingVars => [A]_trainingVars
  <2> SUFFICES ASSUME TrainingInv, TrainingNext, cohort' # cohort PROVE Ok(cohort')
    OBVIOUS
  <2>1. \/ LoadRetraining \/ LoadProduction \/ LoadBenchmark \/ LoadScorecard
    BY DEF TrainingNext, RecordRepayment, Withdraw, Split, CannotSplit, Fails, Validate, Fit,
       FitScorecard, Register, Raise
  <2>2. \A rows \in Seq(Foreign) : Ok(rows)
    <3> SUFFICES ASSUME NEW rows \in Seq(Foreign), NEW i \in 1 .. Len(rows)
                 PROVE  rows[i].from # "pilot"
      OBVIOUS
    <3>1. rows[i] \in Foreign
      BY LenProperties
    <3> QED
      BY <3>1 DEF Foreign
  <2>3. Generated \in Nat /\ HomeRows \in Nat /\ GmscRows \in Nat
    BY TrainingAssumption
  <2>4. Synthetic \in Seq({"home", "gmsc", "synthetic"} \X Nat)
    BY <2>3, FilesListed DEF Synthetic
  <2>5. \A home \in {0, HomeRows} : Fused(home) \in Seq({"home", "gmsc", "synthetic"} \X Nat)
    BY <2>3, <2>4, FilesListed DEF Fused
  <2>6. CASE LoadRetraining
    <3>1. PICK order \in SetToSeqs(Consented) :
             LET real == Extracted(order)
             IN IF Len(real) < Enough
                THEN \E more \in Drawn(Synthetic) : Takes(real \o more)
                ELSE Takes(real)
      BY <2>6 DEF LoadRetraining
    <3> DEFINE real == Extracted(order)
               Either == Given \cup Foreign
    <3>2. real \in Seq(Given)
      BY ConsentedRows
    <3>3. real \in Seq(Either)
      BY <3>2, SeqMonotonic
    <3>4. \A row \in Either : row.from = "pilot" => row.id \notin withdrawn
      BY DEF Given, Foreign, TrainingInv, ConsentKept
    <3>5. cohort' \in Seq(Either)
      <4>1. CASE cohort' = real
        BY <3>3, <4>1
      <4>2. ASSUME NEW more \in Drawn(Synthetic), cohort' = real \o more PROVE cohort' \in Seq(Either)
        <5>1. more \in Seq(Foreign)
          BY <2>4, DrawnForeign
        <5>2. more \in Seq(Either)
          BY <5>1, SeqMonotonic
        <5> QED
          BY <3>3, <4>2, <5>2, ConcatProperties
      <4> QED
        BY <3>1, <4>1, <4>2 DEF Takes
    <3>6. \A i \in 1 .. Len(cohort') : cohort'[i] \in Either
      BY <3>5, LenProperties
    <3> QED
      BY <3>4, <3>6
  <2>7. CASE LoadProduction
    <3>1. PICK home \in {0, HomeRows} : \E rows \in Drawn(Fused(home)) : cohort' = rows
      BY <2>7 DEF LoadProduction, Takes
    <3> QED
      BY <2>2, <2>5, <3>1, DrawnForeign
  <2>8. CASE LoadBenchmark
    <3>1. PICK home \in {0, HomeRows}, gmsc \in {0, GmscRows} :
             \E rows \in Drawn(Complete(home, gmsc)) : cohort' = rows
      BY <2>8 DEF LoadBenchmark, Takes
    <3>2. home \in Nat /\ gmsc \in Nat
      BY <2>3
    <3>3. Complete(home, gmsc) \in Seq({"home", "gmsc", "synthetic"} \X Nat)
      <4>1. /\ File("home", home) \in Seq({"home", "gmsc", "synthetic"} \X Nat)
            /\ File("gmsc", gmsc) \in Seq({"home", "gmsc", "synthetic"} \X Nat)
        BY <3>2, FilesListed
      <4> QED
        BY <2>5, <4>1, ConcatProperties DEF Complete
    <3> QED
      BY <2>2, <3>1, <3>3, DrawnForeign
  <2>9. CASE LoadScorecard
    <3>1. PICK home \in {0, HomeRows}, rows \in Drawn(Synthetic) :
             cohort' = rows \o [i \in 1 .. home |-> Row("home", i, Null)]
      BY <2>9 DEF LoadScorecard, Takes
    <3>2. [i \in 1 .. home |-> Row("home", i, Null)] \in [1 .. home -> Foreign]
      BY <2>3 DEF Row, Foreign
    <3>3. [i \in 1 .. home |-> Row("home", i, Null)] \in Seq(Foreign)
      BY <2>3, <3>2, SeqDef
    <3>4. rows \in Seq(Foreign)
      BY <2>4, DrawnForeign
    <3>5. cohort' \in Seq(Foreign)
      BY <3>1, <3>3, <3>4, ConcatProperties
    <3> QED
      BY <2>2, <3>5
  <2> QED
    BY <2>1, <2>6, <2>7, <2>8, <2>9
<1> QED
  BY <1>1, TrainingInvariant, PTL DEF TrainingSpec, WithdrawnStaysOut

-----------------------------------------------------------------------------
(***************************************************************************)
(* Evaluation: extrema of finite sets of integers.                         *)
(***************************************************************************)

\* Every set of naturals that has an element has a least one.
LEMMA LeastNat ==
  ASSUME NEW T \in SUBSET Nat, T # {}
  PROVE  \E x \in T : \A y \in T : x <= y
<1>1. PICK x \in T : \A y \in T : ~(<<y, x>> \in OpToRel(<, Nat))
  BY NatLessThanWellFounded, WFMin
<1>2. \A y \in T : ~(y < x)
  BY <1>1 DEF OpToRel
<1> QED
  BY <1>2

\* The first k values of f are at most b from zero.
Bounded(f, k, b) == \A i \in 1 .. k : f[i] <= b /\ -b <= f[i]

\* A finite set of integers is bounded: were it not for the first n of its
\* elements, there would be a least such n.
LEMMA FiniteBounded ==
  ASSUME NEW S \in SUBSET Int, IsFiniteSet(S)
  PROVE  \E b \in Int : \A x \in S : x <= b /\ -b <= x
<1>1. PICK n \in Nat : ExistsBijection(1 .. n, S)
  BY FS_NatBijection
<1>2. PICK f : f \in [1 .. n -> S] /\ \A x \in S : \E i \in 1 .. n : f[i] = x
  BY <1>1, Zenon DEF ExistsBijection, Bijection, Surjection
<1>3. \A i \in 1 .. n : f[i] \in Int
  BY <1>2
<1> DEFINE Unbounded == {k \in 0 .. n : \A b \in Nat : ~Bounded(f, k, b)}
<1>4. Unbounded = {}
  <2> SUFFICES ASSUME Unbounded # {} PROVE FALSE
    OBVIOUS
  <2>1. Unbounded \in SUBSET Nat
    OBVIOUS
  <2>2. PICK k \in Unbounded : \A j \in Unbounded : k <= j
    BY <2>1, LeastNat
  <2>3. k \in 0 .. n /\ \A b \in Nat : ~Bounded(f, k, b)
    BY <2>2
  <2>4. k # 0
    <3>1. Bounded(f, 0, 0)
      BY DEF Bounded
    <3> QED
      BY <2>3, <3>1
  <2>5. k - 1 \in 0 .. n /\ k - 1 \notin Unbounded
    BY <2>2, <2>3, <2>4
  <2>6. PICK b \in Nat : Bounded(f, k - 1, b)
    BY <2>5
  <2>7. f[k] \in Int
    BY <1>3, <2>3, <2>4
  <2>8. PICK c \in Nat : b <= c /\ f[k] <= c /\ -c <= f[k]
    <3>1. CASE 0 <= f[k]
      <4>1. b + f[k] \in Nat
        BY <2>7, <3>1
      <4> QED
        BY <2>7, <3>1, <4>1
    <3>2. CASE f[k] < 0
      <4>1. b - f[k] \in Nat
        BY <2>7, <3>2
      <4> QED
        BY <2>7, <3>2, <4>1
    <3> QED
      BY <2>7, <3>1, <3>2
  <2>9. ASSUME NEW i \in 1 .. k PROVE f[i] <= c /\ -c <= f[i]
    <3>1. CASE i = k
      BY <2>8, <3>1
    <3>2. CASE i # k
      <4>1. i \in 1 .. k - 1 /\ f[i] \in Int
        BY <1>3, <2>3, <3>2
      <4>2. f[i] <= b /\ -b <= f[i]
        BY <2>6, <4>1 DEF Bounded
      <4> QED
        BY <2>8, <4>1, <4>2
    <3> QED
      BY <3>1, <3>2
  <2>10. Bounded(f, k, c)
    BY <2>9 DEF Bounded
  <2> QED
    BY <2>3, <2>10
<1>5. PICK b \in Nat : Bounded(f, n, b)
  BY <1>4
<1>6. \A x \in S : x <= b /\ -b <= x
  BY <1>2, <1>5 DEF Bounded
<1> QED
  BY <1>6

\* Max and Min of a finite set of integers are what their names say.
LEMMA MaxOfFinite ==
  ASSUME NEW S \in SUBSET Int, IsFiniteSet(S), S # {}
  PROVE  Max(S) \in S /\ \A x \in S : x <= Max(S)
<1>1. PICK b \in Int : \A x \in S : x <= b
  BY FiniteBounded
<1> DEFINE T == {b - x : x \in S}
<1>2. T \in SUBSET Nat /\ T # {}
  BY <1>1
<1>3. PICK t \in T : \A u \in T : t <= u
  BY <1>2, LeastNat
<1>4. PICK m \in S : t = b - m
  BY <1>3
<1>5. \A x \in S : m >= x
  <2> SUFFICES ASSUME NEW x \in S PROVE m >= x
    OBVIOUS
  <2>1. b - m <= b - x
    BY <1>3, <1>4
  <2> QED
    BY <2>1
<1>6. \E x \in S : \A y \in S : x >= y
  BY <1>5
<1>7. Max(S) \in S /\ \A y \in S : Max(S) >= y
  BY <1>6 DEF Max
<1> QED
  BY <1>7

LEMMA MinOfFinite ==
  ASSUME NEW S \in SUBSET Int, IsFiniteSet(S), S # {}
  PROVE  Min(S) \in S /\ \A x \in S : Min(S) <= x
<1>1. PICK b \in Int : \A x \in S : -b <= x
  BY FiniteBounded
<1> DEFINE T == {x + b : x \in S}
<1>2. T \in SUBSET Nat /\ T # {}
  BY <1>1
<1>3. PICK t \in T : \A u \in T : t <= u
  BY <1>2, LeastNat
<1>4. PICK m \in S : t = m + b
  BY <1>3
<1>5. \A x \in S : m <= x
  <2> SUFFICES ASSUME NEW x \in S PROVE m <= x
    OBVIOUS
  <2>1. m + b <= x + b
    BY <1>3, <1>4
  <2> QED
    BY <2>1
<1>6. \E x \in S : \A y \in S : x <= y
  BY <1>5
<1>7. Min(S) \in S /\ \A y \in S : Min(S) <= y
  BY <1>6 DEF Min
<1> QED
  BY <1>7

\* The values of a function on a finite set are finitely many.
LEMMA FiniteImage ==
  ASSUME NEW S, IsFiniteSet(S), NEW f, DOMAIN f = S, f = [x \in S |-> f[x]]
  PROVE  IsFiniteSet({f[x] : x \in S})
<1> DEFINE T == {f[x] : x \in S}
<1>1. f \in [S -> T]
  OBVIOUS
<1>2. f \in Surjection(S, T)
  BY <1>1 DEF Surjection
<1> QED
  BY <1>2, FS_Surjection

-----------------------------------------------------------------------------
(***************************************************************************)
(* The Kolmogorov-Smirnov statistics of a sample.                          *)
(***************************************************************************)
LEMMA SampleShape ==
  ASSUME NEW s \in Samples
  PROVE  \E n \in Nat \ {0} : /\ s \in [1 .. n -> Levels \X BOOLEAN]
                              /\ DOMAIN s = 1 .. n
                              /\ \A i \in 1 .. n - 1 : s[i][1] >= s[i + 1][1]
<1>1. PICK n \in 1 .. SampleSize : s \in [1 .. n -> Levels \X BOOLEAN]
  BY DEF Samples
<1>2. n \in Nat \ {0}
  BY <1>1, EvaluationAssumption
<1>3. Len(s) = n /\ DOMAIN s = 1 .. n
  BY <1>1, <1>2
<1>4. \A i \in 1 .. n - 1 : s[i][1] >= s[i + 1][1]
  BY <1>3 DEF Samples
<1> QED
  BY <1>1, <1>2, <1>3, <1>4

\* Rows are numbered, each has a probability and is a good or a bad.
LEMMA SampleRows ==
  ASSUME NEW s \in Samples
  PROVE  /\ IsFiniteSet(DOMAIN s) /\ DOMAIN s # {} /\ DOMAIN s \in SUBSET Int
         /\ \A i \in DOMAIN s : s[i][1] \in Levels /\ s[i][1] \in Nat /\ s[i][2] \in BOOLEAN
<1>1. PICK n \in Nat \ {0} : s \in [1 .. n -> Levels \X BOOLEAN] /\ DOMAIN s = 1 .. n
  BY SampleShape
<1>2. IsFiniteSet(1 .. n) /\ 1 \in 1 .. n
  BY FS_Interval
<1>3. \A i \in 1 .. n : s[i] \in Levels \X BOOLEAN
  BY <1>1
<1>4. \A i \in 1 .. n : s[i][1] \in Levels /\ s[i][2] \in BOOLEAN
  BY <1>3
<1>5. 1 .. n \in SUBSET Int /\ 1 .. n # {}
  BY <1>2
<1> QED
  BY <1>1, <1>2, <1>4, <1>5, EvaluationAssumption

\* The probabilities fall along the whole sample.
LEMMA SampleFalls ==
  ASSUME NEW s \in Samples, NEW i \in DOMAIN s, NEW j \in DOMAIN s, i <= j
  PROVE  s[j][1] <= s[i][1]
<1>1. PICK n \in Nat \ {0} : /\ DOMAIN s = 1 .. n
                             /\ \A k \in 1 .. n - 1 : s[k][1] >= s[k + 1][1]
  BY SampleShape
<1>2. \A k \in 1 .. n : s[k][1] \in Nat
  BY <1>1, SampleRows
<1> DEFINE Rising == {k \in 1 .. n : i <= k /\ s[i][1] < s[k][1]}
<1>3. Rising = {}
  <2> SUFFICES ASSUME Rising # {} PROVE FALSE
    OBVIOUS
  <2>1. Rising \in SUBSET Nat
    OBVIOUS
  <2>2. PICK k \in Rising : \A m \in Rising : k <= m
    BY <2>1, LeastNat
  <2>3. k \in 1 .. n /\ i \in 1 .. n /\ i < k /\ s[i][1] < s[k][1]
    BY <1>1, <1>2, <2>2
  <2>4. k - 1 \in 1 .. n - 1 /\ i <= k - 1 /\ k - 1 \in 1 .. n /\ (k - 1) + 1 = k
    BY <2>3
  <2>5. s[k - 1][1] >= s[k][1]
    BY <1>1, <2>4
  <2>6. k - 1 \in Rising
    BY <1>2, <2>3, <2>4, <2>5
  <2> QED
    BY <2>2, <2>3, <2>6
<1> QED
  BY <1>1, <1>2, <1>3

\* Goods and bads are counted apart.
LEMMA Counts ==
  ASSUME NEW s \in Samples, NEW I \in SUBSET DOMAIN s
  PROVE  /\ Goods(s, I) \in Nat
         /\ Bads(s, I) \in Nat
         /\ Bads(s, I) = Cardinality({i \in I : ~s[i][2]})
<1> DEFINE G == {i \in I : s[i][2]}
           B == {i \in I : ~s[i][2]}
<1>1. IsFiniteSet(I)
  BY SampleRows, FS_Subset
<1>2. IsFiniteSet(G) /\ IsFiniteSet(B)
  BY <1>1, FS_Subset
<1>3. G \cup B = I /\ G \cap B = {}
  OBVIOUS
<1>4. Cardinality(I) = Cardinality(G) + Cardinality(B) - Cardinality(G \cap B)
  BY <1>2, <1>3, FS_Union
<1>5. Cardinality(G) \in Nat /\ Cardinality(B) \in Nat /\ Cardinality(G \cap B) = 0
  BY <1>2, <1>3, FS_CardinalityType, FS_EmptySet
<1> QED
  BY <1>4, <1>5 DEF Goods, Bads

LEMMA Product ==
  ASSUME NEW a \in Nat, NEW b \in Nat, NEW c \in Nat, a <= b
  PROVE  a * c <= b * c
<1>1. (b - a) * c \in Nat
  OBVIOUS
<1>2. (b - a) * c = b * c - a * c
  OBVIOUS
<1> QED
  BY <1>1, <1>2

\* Goods added to a set of rows raise its gap, bads lower it.
LEMMA GapMoves ==
  ASSUME NEW s \in Samples, NEW J \in SUBSET DOMAIN s, NEW I \in SUBSET J
  PROVE  /\ (\A i \in J \ I : s[i][2]) => Gap(s, I) <= Gap(s, J)
         /\ (\A i \in J \ I : ~s[i][2]) => Gap(s, J) <= Gap(s, I)
<1> DEFINE g == Goods(s, DOMAIN s)
           b == Bads(s, DOMAIN s)
<1>1. /\ g \in Nat /\ b \in Nat
      /\ Goods(s, I) \in Nat /\ Bads(s, I) \in Nat /\ Goods(s, J) \in Nat /\ Bads(s, J) \in Nat
      /\ Bads(s, I) = Cardinality({i \in I : ~s[i][2]})
      /\ Bads(s, J) = Cardinality({i \in J : ~s[i][2]})
  BY Counts
<1>2. IsFiniteSet(J)
  BY SampleRows, FS_Subset
<1>3. IsFiniteSet({i \in J : s[i][2]}) /\ IsFiniteSet({i \in J : ~s[i][2]})
  BY <1>2, FS_Subset
<1>4. Goods(s, I) <= Goods(s, J)
  <2>1. {i \in I : s[i][2]} \in SUBSET {i \in J : s[i][2]}
    OBVIOUS
  <2> QED
    BY <1>3, <2>1, FS_Subset DEF Goods
<1>5. Bads(s, I) <= Bads(s, J)
  <2>1. {i \in I : ~s[i][2]} \in SUBSET {i \in J : ~s[i][2]}
    OBVIOUS
  <2> QED
    BY <1>1, <1>3, <2>1, FS_Subset
<1>6. Goods(s, I) * b <= Goods(s, J) * b /\ Bads(s, I) * g <= Bads(s, J) * g
  BY <1>1, <1>4, <1>5, Product
<1>7. /\ Goods(s, I) * b \in Int /\ Goods(s, J) * b \in Int
      /\ Bads(s, I) * g \in Int /\ Bads(s, J) * g \in Int
  BY <1>1
<1>8. ASSUME \A i \in J \ I : s[i][2] PROVE Gap(s, I) <= Gap(s, J)
  <2>1. {i \in I : ~s[i][2]} = {i \in J : ~s[i][2]}
    BY <1>8
  <2>2. Bads(s, I) = Bads(s, J)
    BY <1>1, <2>1
  <2> QED
    BY <1>6, <1>7, <2>2 DEF Gap
<1>9. ASSUME \A i \in J \ I : ~s[i][2] PROVE Gap(s, J) <= Gap(s, I)
  <2>1. {i \in I : s[i][2]} = {i \in J : s[i][2]}
    BY <1>9
  <2>2. Goods(s, I) = Goods(s, J)
    BY <2>1 DEF Goods
  <2> QED
    BY <1>6, <1>7, <2>2 DEF Gap
<1> QED
  BY <1>8, <1>9

LEMMA Removed ==
  ASSUME NEW S, IsFiniteSet(S), NEW T \in SUBSET S
  PROVE  Cardinality(S \ T) = Cardinality(S) - Cardinality(T)
<1>1. S \cap T = T
  OBVIOUS
<1> QED
  BY <1>1, FS_Difference

\* Below a threshold the rates are as far apart as above it.
LEMMA GapRest ==
  ASSUME NEW s \in Samples, NEW I \in SUBSET DOMAIN s
  PROVE  Gap(s, DOMAIN s \ I) = -Gap(s, I)
<1> DEFINE D == DOMAIN s
           g == Goods(s, D)
           b == Bads(s, D)
<1>1. /\ g \in Nat /\ b \in Nat /\ Goods(s, I) \in Nat /\ Bads(s, I) \in Nat
      /\ b = Cardinality({i \in D : ~s[i][2]})
      /\ Bads(s, I) = Cardinality({i \in I : ~s[i][2]})
      /\ Bads(s, D \ I) = Cardinality({i \in D \ I : ~s[i][2]})
  BY Counts
<1>2. IsFiniteSet(D)
  BY SampleRows
<1>3. IsFiniteSet({i \in D : s[i][2]}) /\ IsFiniteSet({i \in D : ~s[i][2]})
  BY <1>2, FS_Subset
<1>4. Goods(s, D \ I) = g - Goods(s, I)
  <2> DEFINE S == {i \in D : s[i][2]}
             T == {i \in I : s[i][2]}
  <2>1. {i \in D \ I : s[i][2]} = S \ T /\ T \in SUBSET S
    OBVIOUS
  <2>2. Cardinality(S \ T) = Cardinality(S) - Cardinality(T)
    BY <1>3, <2>1, Removed
  <2> QED
    BY <1>1, <2>1, <2>2 DEF Goods
<1>5. Bads(s, D \ I) = b - Bads(s, I)
  <2> DEFINE S == {i \in D : ~s[i][2]}
             T == {i \in I : ~s[i][2]}
  <2>1. {i \in D \ I : ~s[i][2]} = S \ T /\ T \in SUBSET S
    OBVIOUS
  <2>2. Cardinality(S \ T) = Cardinality(S) - Cardinality(T)
    BY <1>3, <2>1, Removed
  <2> QED
    BY <1>1, <2>1, <2>2
<1> HIDE DEF D, g, b
<1>6. /\ (g - Goods(s, I)) * b = g * b - Goods(s, I) * b
      /\ (b - Bads(s, I)) * g = b * g - Bads(s, I) * g
      /\ g * b = b * g
  BY <1>1
<1>7. g * b \in Int /\ Goods(s, I) * b \in Int /\ Bads(s, I) * g \in Int
  BY <1>1
<1>8. /\ Gap(s, D \ I) = Goods(s, D \ I) * b - Bads(s, D \ I) * g
      /\ Gap(s, I) = Goods(s, I) * b - Bads(s, I) * g
  BY DEF Gap, D, g, b
<1>9. Gap(s, D \ I) = -Gap(s, I)
  BY <1>4, <1>5, <1>6, <1>7, <1>8
<1> QED
  BY <1>9 DEF D

LEMMA GapType ==
  ASSUME NEW s \in Samples, NEW I \in SUBSET DOMAIN s
  PROVE  Gap(s, I) \in Int /\ Apart(s, I) \in Nat
<1>1. Goods(s, I) \in Nat /\ Bads(s, I) \in Nat
  BY Counts
<1>2. Goods(s, DOMAIN s) \in Nat /\ Bads(s, DOMAIN s) \in Nat
  BY Counts
<1>3. Gap(s, I) \in Int
  BY <1>1, <1>2 DEF Gap
<1> QED
  BY <1>3 DEF Apart

LEMMA GapEmpty ==
  ASSUME NEW s \in Samples
  PROVE  Apart(s, {}) = 0
<1>1. {i \in {} : s[i][2]} = {} /\ {i \in {} : ~s[i][2]} = {}
  OBVIOUS
<1>2. Goods(s, {}) = 0 /\ Bads(s, {}) = 0
  BY <1>1, FS_EmptySet, Counts DEF Goods
<1>3. Goods(s, DOMAIN s) \in Nat /\ Bads(s, DOMAIN s) \in Nat
  BY Counts
<1>4. Gap(s, {}) = 0
  BY <1>2, <1>3 DEF Gap
<1> QED
  BY <1>4 DEF Apart

\* The largest distance over the thresholds is one of them and bounds all.
LEMMA TrueLargest ==
  ASSUME NEW s \in Samples
  PROVE  /\ TrueKS(s) \in Nat
         /\ \E p \in Levels : TrueKS(s) = Apart(s, {i \in DOMAIN s : s[i][1] >= p})
         /\ \A p \in Levels : Apart(s, {i \in DOMAIN s : s[i][1] >= p}) <= TrueKS(s)
<1> DEFINE f == [p \in Levels |-> Apart(s, {i \in DOMAIN s : s[i][1] >= p})]
           S == {f[p] : p \in Levels}
<1>1. S = {Apart(s, {i \in DOMAIN s : s[i][1] >= p}) : p \in Levels}
  OBVIOUS
<1>2. IsFiniteSet(S)
  <2>1. DOMAIN f = Levels /\ f = [p \in Levels |-> f[p]]
    OBVIOUS
  <2> HIDE DEF f
  <2> QED
    BY <2>1, FiniteImage, EvaluationAssumption
<1>3. \A p \in Levels : f[p] \in Nat
  BY GapType
<1>4. Levels # {}
  BY SampleRows
<1>5. S \in SUBSET Int /\ S # {} /\ S \in SUBSET Nat
  <2> HIDE DEF f
  <2> QED
    BY <1>3, <1>4
<1>6. TrueKS(s) = Max(S)
  BY <1>1 DEF TrueKS
<1>7. Max(S) \in S /\ \A x \in S : x <= Max(S)
  BY <1>2, <1>5, MaxOfFinite
<1> QED
  BY <1>5, <1>6, <1>7

LEMMA ScanLargest ==
  ASSUME NEW s \in Samples
  PROVE  /\ ScanKS(s) \in Nat
         /\ \E k \in DOMAIN s : ScanKS(s) = Apart(s, 1 .. k)
         /\ \A k \in DOMAIN s : Apart(s, 1 .. k) <= ScanKS(s)
<1> DEFINE f == [k \in DOMAIN s |-> Apart(s, 1 .. k)]
           S == {f[k] : k \in DOMAIN s}
<1>1. S = {Apart(s, 1 .. k) : k \in DOMAIN s}
  OBVIOUS
<1>2. IsFiniteSet(S)
  <2>1. DOMAIN f = DOMAIN s /\ f = [k \in DOMAIN s |-> f[k]]
    OBVIOUS
  <2> HIDE DEF f
  <2> QED
    BY <2>1, FiniteImage, SampleRows
<1>3. \A k \in DOMAIN s : f[k] \in Nat
  <2>1. PICK n \in Nat \ {0} : DOMAIN s = 1 .. n
    BY SampleShape
  <2>2. \A k \in DOMAIN s : 1 .. k \in SUBSET DOMAIN s
    BY <2>1
  <2> QED
    BY <2>2, GapType
<1>4. DOMAIN s # {}
  BY SampleRows
<1>5. S \in SUBSET Int /\ S # {} /\ S \in SUBSET Nat
  <2> HIDE DEF f
  <2> QED
    BY <1>3, <1>4
<1>6. ScanKS(s) = Max(S)
  BY <1>1 DEF ScanKS
<1>7. Max(S) \in S /\ \A x \in S : x <= Max(S)
  BY <1>2, <1>5, MaxOfFinite
<1> QED
  BY <1>5, <1>6, <1>7

\* Also strictly above a value the rates are no further apart.
LEMMA StrictlyAbove ==
  ASSUME NEW s \in Samples, NEW p \in Nat
  PROVE  Apart(s, {i \in DOMAIN s : s[i][1] > p}) <= TrueKS(s)
<1> DEFINE H == {i \in DOMAIN s : s[i][1] > p}
           T == {s[i][1] : i \in H}
<1>1. CASE H = {}
  <2>1. Apart(s, H) = 0
    BY <1>1, GapEmpty
  <2> QED
    BY <2>1, TrueLargest
<1>2. CASE H # {}
  <2>1. T \in SUBSET Nat /\ T # {}
    BY <1>2, SampleRows
  <2>2. PICK q \in T : \A r \in T : q <= r
    BY <2>1, LeastNat
  <2>3. PICK j \in H : q = s[j][1]
    BY <2>2
  <2>4. q \in Levels /\ q > p /\ q \in Nat
    BY <2>3, SampleRows
  <2>5. H = {i \in DOMAIN s : s[i][1] >= q}
    <3>1. ASSUME NEW i \in H PROVE s[i][1] >= q
      <4>1. s[i][1] \in T /\ s[i][1] \in Nat
        BY SampleRows
      <4> QED
        BY <2>2, <2>4, <4>1
    <3>2. ASSUME NEW i \in DOMAIN s, s[i][1] >= q PROVE i \in H
      BY <2>4, <3>2, SampleRows
    <3> QED
      BY <3>1, <3>2
  <2> QED
    BY <2>4, <2>5, TrueLargest
<1> QED
  BY <1>1, <1>2

\* The grid shows no more separation than there is.
LEMMA GridBelow ==
  ASSUME NEW s \in Samples
  PROVE  GridKS(s) <= TrueKS(s)
<1> DEFINE f == [g \in Grid |-> Apart(s, {i \in DOMAIN s : s[i][1] <= g})]
           S == {0} \cup {f[g] : g \in Grid}
<1>1. GridKS(s) = Max(S)
  <2>1. S = {0} \cup {Apart(s, {i \in DOMAIN s : s[i][1] <= g}) : g \in Grid}
    OBVIOUS
  <2> QED
    BY <2>1 DEF GridKS
<1>2. \A g \in Grid : f[g] \in Nat /\ f[g] <= TrueKS(s)
  <2> SUFFICES ASSUME NEW g \in Grid
               PROVE  LET A == {i \in DOMAIN s : s[i][1] <= g}
                      IN Apart(s, A) \in Nat /\ Apart(s, A) <= TrueKS(s)
    OBVIOUS
  <2> DEFINE A == {i \in DOMAIN s : s[i][1] <= g}
             H == {i \in DOMAIN s : s[i][1] > g}
  <2>1. g \in Nat
    BY EvaluationAssumption
  <2>2. A = DOMAIN s \ H /\ A \in SUBSET DOMAIN s /\ H \in SUBSET DOMAIN s
    BY <2>1, SampleRows
  <2> HIDE DEF A, H
  <2>3. Gap(s, A) = -Gap(s, H) /\ Gap(s, H) \in Int /\ Apart(s, A) \in Nat
    BY <2>2, GapRest, GapType
  <2>4. Apart(s, A) = Apart(s, H)
    BY <2>3 DEF Apart
  <2>5. Apart(s, H) <= TrueKS(s)
    BY <2>1, StrictlyAbove DEF H
  <2> QED
    BY <2>3, <2>4, <2>5 DEF A
<1>3. IsFiniteSet(Grid)
  BY EvaluationAssumption, FS_Subset
<1>4. DOMAIN f = Grid /\ f = [g \in Grid |-> f[g]]
  OBVIOUS
<1> HIDE DEF f
<1>5. IsFiniteSet({f[g] : g \in Grid})
  BY <1>3, <1>4, FiniteImage
<1>6. IsFiniteSet(S) /\ S \in SUBSET Int /\ S # {}
  <2>1. IsFiniteSet({0})
    BY FS_Singleton
  <2>2. IsFiniteSet(S)
    BY <1>5, <2>1, FS_Union
  <2> QED
    BY <1>2, <2>2
<1>7. Max(S) \in S
  BY <1>6, MaxOfFinite
<1> QED
  BY <1>1, <1>2, <1>7, TrueLargest

\* The rows above a threshold are the first rows: the scan misses none.
LEMMA ScanAbove ==
  ASSUME NEW s \in Samples
  PROVE  TrueKS(s) <= ScanKS(s)
<1>1. PICK p \in Levels : TrueKS(s) = Apart(s, {i \in DOMAIN s : s[i][1] >= p})
  BY TrueLargest
<1> DEFINE P == {i \in DOMAIN s : s[i][1] >= p}
<1>2. CASE P = {}
  <2>1. Apart(s, P) = 0
    BY <1>2, GapEmpty
  <2> QED
    BY <1>1, <2>1, ScanLargest
<1>3. CASE P # {}
  <2>1. IsFiniteSet(P) /\ P \in SUBSET Int
    BY SampleRows, FS_Subset
  <2>2. Max(P) \in P /\ \A i \in P : i <= Max(P)
    BY <1>3, <2>1, MaxOfFinite
  <2>3. PICK k \in DOMAIN s : k = Max(P) /\ s[k][1] >= p
    BY <2>2
  <2>4. PICK n \in Nat \ {0} : DOMAIN s = 1 .. n
    BY SampleShape
  <2>5. P = 1 .. k
    <3>1. ASSUME NEW i \in P PROVE i \in 1 .. k
      BY <2>2, <2>3, <2>4
    <3>2. ASSUME NEW i \in 1 .. k PROVE i \in P
      <4>1. i \in DOMAIN s /\ i <= k
        BY <2>3, <2>4
      <4>2. s[k][1] <= s[i][1]
        BY <4>1, SampleFalls
      <4>3. s[k][1] \in Nat /\ s[i][1] \in Nat /\ p \in Nat
        BY <4>1, SampleRows, EvaluationAssumption
      <4> QED
        BY <2>3, <4>1, <4>2, <4>3
    <3> QED
      BY <3>1, <3>2
  <2> QED
    BY <1>1, <2>5, ScanLargest
<1> QED
  BY <1>2, <1>3

\* Inside a tie of one kind the gap moves one way only.
LEMMA ScanExact ==
  ASSUME NEW s \in Samples,
         \A i, j \in DOMAIN s : s[i][1] = s[j][1] => s[i][2] = s[j][2]
  PROVE  ScanKS(s) <= TrueKS(s)
<1>1. PICK k \in DOMAIN s : ScanKS(s) = Apart(s, 1 .. k)
  BY ScanLargest
<1>2. PICK n \in Nat \ {0} : DOMAIN s = 1 .. n
  BY SampleShape
<1> DEFINE p == s[k][1]
           H == {i \in DOMAIN s : s[i][1] > p}
           K == 1 .. k
           P == {i \in DOMAIN s : s[i][1] >= p}
<1>3. p \in Levels /\ p \in Nat /\ s[k][2] \in BOOLEAN /\ \A i \in DOMAIN s : s[i][1] \in Nat
  BY SampleRows
<1>4. H \subseteq K
  <2> SUFFICES ASSUME NEW i \in DOMAIN s, s[i][1] > p, i \notin 1 .. k PROVE FALSE
    OBVIOUS
  <2>1. k <= i
    BY <1>2
  <2>2. s[i][1] <= s[k][1]
    BY <2>1, SampleFalls
  <2> QED
    BY <1>3, <2>2
<1>5. K \subseteq P
  <2> SUFFICES ASSUME NEW i \in 1 .. k PROVE i \in DOMAIN s /\ s[i][1] >= p
    OBVIOUS
  <2>1. i \in DOMAIN s /\ i <= k
    BY <1>2
  <2>2. s[k][1] <= s[i][1]
    BY <2>1, SampleFalls
  <2> QED
    BY <1>3, <2>1, <2>2
<1>6. \A i \in P \ H : s[i][2] = s[k][2]
  <2> SUFFICES ASSUME NEW i \in DOMAIN s, s[i][1] >= p, ~(s[i][1] > p) PROVE s[i][2] = s[k][2]
    OBVIOUS
  <2>1. s[i][1] = s[k][1]
    BY <1>3
  <2> QED
    BY <2>1
<1>7. H \in SUBSET DOMAIN s /\ K \in SUBSET DOMAIN s /\ P \in SUBSET DOMAIN s
  BY <1>2
<1>8. Apart(s, H) <= TrueKS(s) /\ Apart(s, P) <= TrueKS(s)
  BY <1>3, StrictlyAbove, TrueLargest
<1> HIDE DEF H, K, P, p
<1>9. \/ Gap(s, H) <= Gap(s, K) /\ Gap(s, K) <= Gap(s, P)
      \/ Gap(s, P) <= Gap(s, K) /\ Gap(s, K) <= Gap(s, H)
  <2>1. CASE s[k][2] = TRUE
    <3>1. (\A i \in K \ H : s[i][2]) /\ (\A i \in P \ K : s[i][2])
      BY <1>4, <1>5, <1>6, <2>1
    <3> QED
      BY <1>4, <1>5, <1>7, <3>1, GapMoves
  <2>2. CASE s[k][2] = FALSE
    <3>1. (\A i \in K \ H : ~s[i][2]) /\ (\A i \in P \ K : ~s[i][2])
      BY <1>4, <1>5, <1>6, <2>2
    <3> QED
      BY <1>4, <1>5, <1>7, <3>1, GapMoves
  <2> QED
    BY <1>3, <2>1, <2>2
<1>10. Gap(s, H) \in Int /\ Gap(s, K) \in Int /\ Gap(s, P) \in Int /\ TrueKS(s) \in Nat
  BY <1>7, GapType, TrueLargest
<1>11. Apart(s, K) <= TrueKS(s)
  BY <1>8, <1>9, <1>10 DEF Apart
<1> QED
  BY <1>1, <1>11 DEF K

-----------------------------------------------------------------------------
\* The answer is what the three places compute from the sample.
KSInv == task = "ks" => /\ input \in Samples
                        /\ answer = [scan |-> ScanKS(input), grid |-> GridKS(input)]

\* What the lemmas say of a sample, said of the answer.
LEMMA Bracketed ==
  ASSUME KSInv
  PROVE  KSBracketed
<1> SUFFICES ASSUME task = "ks" PROVE KSBracketed
  BY DEF KSBracketed
<1>1. PICK s \in Samples : s = input /\ answer = [scan |-> ScanKS(s), grid |-> GridKS(s)]
  BY DEF KSInv
<1>2. GridKS(s) <= TrueKS(s) /\ TrueKS(s) <= ScanKS(s) /\ TrueKS(s) \in Nat /\ ScanKS(s) \in Nat
  BY GridBelow, ScanAbove, TrueLargest, ScanLargest
<1>3. \/ ScanKS(s) = TrueKS(s)
      \/ \E i, j \in DOMAIN s : s[i][1] = s[j][1] /\ s[i][2] # s[j][2]
  <2> SUFFICES ASSUME \A i, j \in DOMAIN s : s[i][1] = s[j][1] => s[i][2] = s[j][2]
               PROVE  ScanKS(s) = TrueKS(s)
    OBVIOUS
  <2>1. ScanKS(s) <= TrueKS(s)
    BY ScanExact
  <2> QED
    BY <1>2, <2>1
<1> QED
  BY <1>1, <1>2, <1>3 DEF KSBracketed

(***************************************************************************)
(* The Kolmogorov-Smirnov statistic of the score grid is never above the   *)
(* true one, and that of the row by row scan never below it and equal to   *)
(* it when no good shares a probability with a bad (KSBracketed): for      *)
(* every finite set of probabilities, every grid and samples of every      *)
(* size.                                                                   *)
(***************************************************************************)
THEOREM KSBracketedCorrect == EvaluationSpec => []KSBracketed
<1>1. EvaluationInit => KSInv
  BY EvaluationAssumption DEF EvaluationInit, KSInv
<1>2. KSInv /\ [EvaluationNext]_evaluationVars => KSInv'
  <2> SUFFICES ASSUME KSInv, [EvaluationNext]_evaluationVars PROVE KSInv'
    OBVIOUS
  <2>1. CASE FitFeature
    BY <2>1 DEF FitFeature, KSInv
  <2>2. CASE CalculatePsi
    BY <2>2 DEF CalculatePsi, KSInv
  <2>3. CASE Judge
    BY <2>3 DEF Judge, KSInv
  <2>4. CASE GenerateRecourse
    BY <2>4 DEF GenerateRecourse, KSInv
  <2>5. CASE task = "planning" /\ Consider
    BY <2>5 DEF Consider, KSInv
  <2>6. CASE task = "planning" /\ Offer
    BY <2>6 DEF Offer, KSInv
  <2>7. CASE UNCHANGED evaluationVars
    BY <2>7 DEF evaluationVars, KSInv
  <2> QED
    BY <2>1, <2>2, <2>3, <2>4, <2>5, <2>6, <2>7 DEF EvaluationNext
<1>3. KSInv => KSBracketed
  BY Bracketed
<1> QED
  BY <1>1, <1>2, <1>3, PTL DEF EvaluationSpec

-----------------------------------------------------------------------------
(***************************************************************************)
(* The bins between cut points.                                            *)
(***************************************************************************)
\* Finitely many cut points; those below a value, and those up to it.
CutSet(cuts) == cuts \in SUBSET Int /\ IsFiniteSet(cuts)
Below(cuts, c) == {d \in cuts : d < c}
UpTo(cuts, v) == {d \in cuts : d <= v}

LEMMA CutCounts ==
  ASSUME NEW cuts, CutSet(cuts), NEW v \in Int
  PROVE  /\ IsFiniteSet(Below(cuts, v)) /\ Cardinality(Below(cuts, v)) \in Nat
         /\ IsFiniteSet(UpTo(cuts, v)) /\ Cardinality(UpTo(cuts, v)) \in Nat
         /\ Cardinality(cuts) \in Nat
         /\ Cardinality(UpTo(cuts, v)) <= Cardinality(cuts)
<1>1. Below(cuts, v) \in SUBSET cuts /\ UpTo(cuts, v) \in SUBSET cuts
  BY DEF Below, UpTo
<1>2. IsFiniteSet(cuts)
  BY DEF CutSet
<1>3. IsFiniteSet(Below(cuts, v)) /\ IsFiniteSet(UpTo(cuts, v))
  BY <1>1, <1>2, FS_Subset
<1> QED
  BY <1>1, <1>2, <1>3, FS_Subset, FS_CardinalityType

\* The cut points below c and c itself are those up to c.
LEMMA OneMore ==
  ASSUME NEW cuts, CutSet(cuts), NEW c \in cuts
  PROVE  Cardinality(UpTo(cuts, c)) = Cardinality(Below(cuts, c)) + 1
<1>1. c \in Int /\ \A d \in cuts : d \in Int
  BY DEF CutSet
<1>2. UpTo(cuts, c) = Below(cuts, c) \cup {c} /\ c \notin Below(cuts, c)
  <2>1. \A d \in cuts : d <= c <=> (d < c \/ d = c)
    BY <1>1
  <2>2. ~(c < c)
    BY <1>1
  <2> QED
    BY <2>1, <2>2, Zenon DEF UpTo, Below
<1>3. IsFiniteSet(Below(cuts, c))
  BY <1>1, CutCounts
<1> QED
  BY <1>2, <1>3, FS_AddElement

\* The larger cut point has the larger rank.
LEMMA Ranked ==
  ASSUME NEW cuts, CutSet(cuts), NEW c \in cuts, NEW v \in Int
  PROVE  /\ c <= v => Cardinality(Below(cuts, c)) + 1 <= Cardinality(UpTo(cuts, v))
         /\ v < c => Cardinality(UpTo(cuts, v)) <= Cardinality(Below(cuts, c))
         /\ c < v => Cardinality(Below(cuts, c)) + 1 <= Cardinality(Below(cuts, v))
<1>1. c \in Int /\ \A d \in cuts : d \in Int
  BY DEF CutSet
<1>2. /\ IsFiniteSet(UpTo(cuts, v)) /\ IsFiniteSet(Below(cuts, c)) /\ IsFiniteSet(Below(cuts, v))
      /\ Cardinality(UpTo(cuts, c)) = Cardinality(Below(cuts, c)) + 1
  BY <1>1, CutCounts, OneMore
<1>3. ASSUME c <= v PROVE Cardinality(UpTo(cuts, c)) <= Cardinality(UpTo(cuts, v))
  <2>1. \A d \in cuts : d <= c => d <= v
    BY <1>1, <1>3
  <2>2. UpTo(cuts, c) \in SUBSET UpTo(cuts, v)
    BY <2>1, Zenon DEF UpTo
  <2> QED
    BY <1>2, <2>2, FS_Subset
<1>4. ASSUME v < c PROVE Cardinality(UpTo(cuts, v)) <= Cardinality(Below(cuts, c))
  <2>1. \A d \in cuts : d <= v => d < c
    BY <1>1, <1>4
  <2>2. UpTo(cuts, v) \in SUBSET Below(cuts, c)
    BY <2>1, Zenon DEF UpTo, Below
  <2> QED
    BY <1>2, <2>2, FS_Subset
<1>5. ASSUME c < v PROVE Cardinality(UpTo(cuts, c)) <= Cardinality(Below(cuts, v))
  <2>1. \A d \in cuts : d <= c => d < v
    BY <1>1, <1>5
  <2>2. UpTo(cuts, c) \in SUBSET Below(cuts, v)
    BY <2>1, Zenon DEF UpTo, Below
  <2> QED
    BY <1>2, <2>2, FS_Subset
<1> QED
  BY <1>2, <1>3, <1>4, <1>5

\* Every rank is taken: Cut names a cut point.
LEMMA CutIs ==
  ASSUME NEW cuts, CutSet(cuts), NEW k \in 1 .. Cardinality(cuts)
  PROVE  Cut(cuts, k) \in cuts /\ Cardinality(Below(cuts, Cut(cuts, k))) = k - 1
<1> DEFINE n == Cardinality(cuts)
           f == [c \in cuts |-> Cardinality(Below(cuts, c)) + 1]
<1>1. cuts \in SUBSET Int /\ IsFiniteSet(cuts) /\ n \in Nat
  BY FS_CardinalityType DEF CutSet
<1>2. \A c \in cuts : f[c] \in 1 .. n
  <2> SUFFICES ASSUME NEW c \in cuts PROVE Cardinality(Below(cuts, c)) + 1 \in 1 .. n
    OBVIOUS
  <2>1. c \in Int
    BY <1>1
  <2>2. Cardinality(Below(cuts, c)) \in Nat /\ Cardinality(UpTo(cuts, c)) <= n
    BY <2>1, CutCounts
  <2>3. Cardinality(UpTo(cuts, c)) = Cardinality(Below(cuts, c)) + 1
    BY OneMore
  <2> QED
    BY <1>1, <2>2, <2>3
<1>3. \A c, d \in cuts : f[c] = f[d] => c = d
  <2> SUFFICES ASSUME NEW c \in cuts, NEW d \in cuts, c < d PROVE f[c] < f[d]
    <3>1. \A c, d \in cuts : c < d => f[c] < f[d]
      OBVIOUS
    <3>2. \A c \in cuts : f[c] \in Int /\ c \in Int
      BY <1>1, <1>2
    <3> HIDE DEF f
    <3> QED
      BY <3>1, <3>2
  <2>1. c \in Int /\ d \in Int
    BY <1>1
  <2>2. Cardinality(Below(cuts, c)) + 1 <= Cardinality(Below(cuts, d))
    BY <2>1, Ranked
  <2>3. Cardinality(Below(cuts, c)) \in Nat /\ Cardinality(Below(cuts, d)) \in Nat
    BY <2>1, CutCounts
  <2> QED
    BY <2>2, <2>3
<1>4. f \in [cuts -> 1 .. n]
  BY <1>2
<1>5. DOMAIN f = cuts /\ \A c \in cuts : f[c] = Cardinality(Below(cuts, c)) + 1
  OBVIOUS
<1> HIDE DEF f
<1>6. f \in Injection(cuts, 1 .. n)
  BY <1>3, <1>4 DEF Injection, IsInjective
<1>7. IsFiniteSet(1 .. n) /\ Cardinality(1 .. n) = n
  BY <1>1, FS_Interval
<1>8. f \in Surjection(cuts, 1 .. n)
  BY <1>6, <1>7, FS_Injection
<1>9. PICK c \in cuts : f[c] = k
  BY <1>8 DEF Surjection
<1>10. c \in Int /\ Cardinality(Below(cuts, c)) \in Nat
  BY <1>1, CutCounts
<1>11. Cardinality({d \in cuts : d < c}) = k - 1
  BY <1>5, <1>9, <1>10 DEF Below
<1> QED
  BY <1>11 DEF Cut, Below

\* A value is in the bin after the cut points up to it, and in no other.
LEMMA OneBin ==
  ASSUME NEW cuts, CutSet(cuts), NEW v \in Int
  PROVE  MatchingBins(BinsOf(cuts), v) = {Cardinality(UpTo(cuts, v)) + 1}
<1> DEFINE n == Cardinality(cuts)
           r == Cardinality(UpTo(cuts, v))
           bins == BinsOf(cuts)
<1>1. n \in Nat /\ r \in Nat /\ r <= n
  BY CutCounts
<1>2. /\ DOMAIN bins = 1 .. n + 1 /\ Len(bins) = n + 1
      /\ \A i \in 1 .. n + 1 :
            bins[i] = [lo |-> IF i = 1 THEN Nothing ELSE Cut(cuts, i - 1),
                       hi |-> IF i = n + 1 THEN Nothing ELSE Cut(cuts, i)]
  BY <1>1 DEF BinsOf
<1>3. ASSUME NEW k \in 1 .. n
      PROVE  Cut(cuts, k) \in Int /\ Cut(cuts, k) # Nothing /\ (Cut(cuts, k) <= v <=> k <= r)
  <2>1. Cut(cuts, k) \in cuts /\ Cardinality(Below(cuts, Cut(cuts, k))) = k - 1
    BY CutIs
  <2>2. Cut(cuts, k) \in Int
    BY <2>1 DEF CutSet
  <2>3. Cut(cuts, k) <= v => k <= r
    BY <2>1, Ranked
  <2>4. v < Cut(cuts, k) => r <= k - 1
    BY <2>1, Ranked
  <2> QED
    BY <1>1, <2>2, <2>3, <2>4, EvaluationAssumption
<1> HIDE DEF n, r, bins
<1>4. ASSUME NEW i \in 1 .. n + 1 PROVE Matches(bins[i], v) <=> i = r + 1
  <2>1. bins[i].lo = IF i = 1 THEN Nothing ELSE Cut(cuts, i - 1)
    BY <1>2
  <2>2. bins[i].hi = IF i = n + 1 THEN Nothing ELSE Cut(cuts, i)
    BY <1>2
  <2>3. (bins[i].lo # Nothing => v >= bins[i].lo) <=> i - 1 <= r
    <3>1. CASE i = 1
      BY <1>1, <2>1, <3>1
    <3>2. CASE i # 1
      <4>1. i - 1 \in 1 .. n
        BY <1>1, <3>2
      <4>2. Cut(cuts, i - 1) \in Int /\ Cut(cuts, i - 1) # Nothing /\ (Cut(cuts, i - 1) <= v <=> i - 1 <= r)
        BY <1>3, <4>1
      <4> QED
        BY <2>1, <3>2, <4>2
    <3> QED
      BY <3>1, <3>2
  <2>4. (bins[i].hi # Nothing => v < bins[i].hi) <=> r < i
    <3>1. CASE i = n + 1
      BY <1>1, <2>2, <3>1
    <3>2. CASE i # n + 1
      <4>1. i \in 1 .. n
        BY <1>1, <3>2
      <4>2. Cut(cuts, i) \in Int /\ Cut(cuts, i) # Nothing /\ (Cut(cuts, i) <= v <=> i <= r)
        BY <1>3, <4>1
      <4> QED
        BY <1>1, <2>2, <3>2, <4>2
    <3> QED
      BY <3>1, <3>2
  <2> QED
    BY <1>1, <2>3, <2>4 DEF Matches
<1>5. MatchingBins(bins, v) = {r + 1}
  <2>1. MatchingBins(bins, v) = {i \in 1 .. n + 1 : Matches(bins[i], v)}
    BY <1>2 DEF MatchingBins
  <2>2. r + 1 \in 1 .. n + 1
    BY <1>1
  <2> QED
    BY <1>4, <2>1, <2>2
<1> QED
  BY <1>5 DEF bins, r

LEMMA OnlyOne ==
  ASSUME NEW k \in Int
  PROVE  Min({k}) = k /\ Max({k}) = k
<1>1. \E x \in {k} : \A y \in {k} : x <= y
  OBVIOUS
<1>2. \E x \in {k} : \A y \in {k} : x >= y
  OBVIOUS
<1> QED
  BY <1>1, <1>2 DEF Min, Max

LEMMA Transformed ==
  ASSUME NEW cuts, CutSet(cuts), NEW v \in Int
  PROVE  /\ MatchingBins(BinsOf(cuts), v) # {}
         /\ TransformedOne(BinsOf(cuts), v) = TransformedAll(BinsOf(cuts), v)
         /\ \A i \in 1 .. Len(BinsOf(cuts)) :
               Matches(BinsOf(cuts)[i], v) <=> TransformedOne(BinsOf(cuts), v) = i
<1> DEFINE r == Cardinality(UpTo(cuts, v)) + 1
           bins == BinsOf(cuts)
<1>1. r \in Int
  BY CutCounts
<1>2. MatchingBins(bins, v) = {r}
  BY OneBin
<1> HIDE DEF r, bins
<1>3. TransformedOne(bins, v) = r /\ TransformedAll(bins, v) = r
  BY <1>1, <1>2, OnlyOne DEF TransformedOne, TransformedAll
<1>4. \A i \in 1 .. Len(bins) : Matches(bins[i], v) <=> i \in {r}
  BY <1>2 DEF MatchingBins
<1> QED
  BY <1>2, <1>3, <1>4 DEF bins

\* What a series is made of.
LEMMA SeriesShape ==
  ASSUME NEW s \in Series
  PROVE  \E n \in Nat \ {0} : Len(s) = n /\ DOMAIN s = 1 .. n /\ \A i \in 1 .. n : s[i] \in Int
<1>1. PICK n \in 1 .. MaxCount : s \in [1 .. n -> Scaled]
  BY DEF Series
<1>2. n \in Nat \ {0}
  BY <1>1, EvaluationAssumption
<1>3. \A x \in Scaled : x \in Int
  <2>1. \A v \in Values : 2 * MaxBins * v \in Int
    BY EvaluationAssumption
  <2> QED
    BY <2>1 DEF Scaled
<1>4. Len(s) = n /\ DOMAIN s = 1 .. n
  BY <1>1, <1>2
<1>5. \A i \in 1 .. n : s[i] \in Int
  BY <1>1, <1>3
<1> QED
  BY <1>2, <1>4, <1>5

LEMMA SeriesSet ==
  ASSUME NEW s \in Series
  PROVE  ToSet(s) \in SUBSET Int /\ IsFiniteSet(ToSet(s)) /\ ToSet(s) # {}
<1>1. PICK n \in Nat \ {0} : DOMAIN s = 1 .. n /\ \A i \in 1 .. n : s[i] \in Int
  BY SeriesShape
<1>2. ToSet(s) = {s[i] : i \in 1 .. n}
  BY <1>1 DEF ToSet
<1>3. IsFiniteSet(1 .. n) /\ 1 \in 1 .. n
  BY FS_Interval
<1>4. PICK n1 \in 1 .. MaxCount : s \in [1 .. n1 -> Scaled]
  BY DEF Series
<1>5. s = [i \in 1 .. n |-> s[i]]
  BY <1>1, <1>4
<1>6. IsFiniteSet({s[i] : i \in 1 .. n})
  BY <1>1, <1>3, <1>5, FiniteImage
<1> QED
  BY <1>1, <1>2, <1>3, <1>6

\* Each rule by which the code cuts yields finitely many integers.
LEMMA MidpointsCut ==
  ASSUME NEW s \in Series
  PROVE  CutSet(Midpoints(s))
<1> DEFINE S == ToSet(s)
           f == [v \in S \ {Max(S)} |-> (v + Min({u \in S : u > v})) \div 2]
<1>1. S \in SUBSET Int /\ IsFiniteSet(S) /\ S # {}
  BY SeriesSet
<1>2. Midpoints(s) = {f[v] : v \in S \ {Max(S)}}
  BY DEF Midpoints
<1> HIDE DEF S
<1>3. ASSUME NEW v \in S \ {Max(S)} PROVE f[v] \in Int
  <2> DEFINE U == {u \in S : u > v}
  <2>1. Max(S) \in S /\ \A x \in S : x <= Max(S)
    BY <1>1, MaxOfFinite
  <2>2. v \in Int /\ Max(S) \in Int
    BY <1>1, <2>1
  <2>3. Max(S) \in U
    BY <2>1, <2>2
  <2>4. U \in SUBSET Int /\ U # {}
    BY <1>1, <2>3
  <2>5. IsFiniteSet(U)
    <3>1. U \in SUBSET S
      OBVIOUS
    <3> QED
      BY <1>1, <3>1, FS_Subset
  <2>6. Min(U) \in U
    BY <2>4, <2>5, MinOfFinite
  <2>7. Min(U) \in Int
    BY <2>4, <2>6
  <2> HIDE DEF U
  <2>8. (v + Min(U)) \div 2 \in Int
    BY <2>2, <2>7
  <2> QED
    BY <2>8 DEF U
<1>4. DOMAIN f = S \ {Max(S)} /\ f = [v \in S \ {Max(S)} |-> f[v]]
  OBVIOUS
<1>5. IsFiniteSet(S \ {Max(S)})
  BY <1>1, FS_RemoveElement
<1> HIDE DEF f
<1>6. IsFiniteSet({f[v] : v \in S \ {Max(S)}})
  BY <1>4, <1>5, FiniteImage
<1> QED
  BY <1>2, <1>3, <1>6 DEF CutSet

LEMMA MedianCut ==
  ASSUME NEW s \in Series
  PROVE  CutSet({Median(s)})
<1>1. PICK n \in Nat \ {0} : Len(s) = n /\ \A i \in 1 .. n : s[i] \in Int
  BY SeriesShape
<1> DEFINE m == n \div 2
<1>2. n % 2 = 1 => m + 1 \in 1 .. n
  BY <1>1
<1>3. n % 2 # 1 => m \in 1 .. n /\ m + 1 \in 1 .. n
  BY <1>1
<1>4. Median(s) = IF n % 2 = 1 THEN s[m + 1] ELSE (s[m] + s[m + 1]) \div 2
  BY <1>1 DEF Median
<1>5. Median(s) \in Int
  <2> HIDE DEF m
  <2>1. CASE n % 2 = 1
    BY <1>1, <1>2, <1>4, <2>1
  <2>2. CASE n % 2 # 1
    <3>1. s[m] \in Int /\ s[m + 1] \in Int
      BY <1>1, <1>3, <2>2
    <3>2. (s[m] + s[m + 1]) \div 2 \in Int
      BY <3>1
    <3> QED
      BY <1>4, <2>2, <3>2
  <2> QED
    BY <2>1, <2>2
<1> QED
  BY <1>5, FS_Singleton DEF CutSet

\* A quotient of at most c times the divisor is at most c.
LEMMA Quotient ==
  ASSUME NEW a \in Nat, NEW b \in Nat \ {0}, NEW c \in Nat, a <= c * b
  PROVE  a \div b \in 0 .. c
<1> DEFINE q == a \div b
<1>1. q \in Nat /\ a % b \in 0 .. b - 1 /\ a = b * q + (a % b)
  OBVIOUS
<1> HIDE DEF q
<1>2. q * b <= a
  BY <1>1
<1>3. ~(c + 1 <= q)
  <2> SUFFICES ASSUME c + 1 <= q PROVE FALSE
    OBVIOUS
  <2>1. (c + 1) * b <= q * b
    BY <1>1, Product
  <2>2. (c + 1) * b = c * b + b /\ c * b \in Nat /\ q * b \in Nat
    BY <1>1
  <2> QED
    BY <1>2, <2>1, <2>2
<1>4. q \in 0 .. c
  BY <1>1, <1>3
<1> QED
  BY <1>4 DEF q

LEMMA QuantileType ==
  ASSUME NEW s \in Series, NEW k \in 0 .. MaxBins
  PROVE  Quantile(s, k) \in Int
<1>1. PICK n \in Nat \ {0} : Len(s) = n /\ \A i \in 1 .. n : s[i] \in Int
  BY SeriesShape
<1> DEFINE at == (n - 1) * k
           i == at \div MaxBins + 1
<1>2. MaxBins \in Nat \ {0}
  BY EvaluationAssumption
<1>3. n - 1 \in Nat /\ k \in Nat /\ k <= MaxBins
  BY <1>1, <1>2
<1>4. at \in Nat /\ at <= (n - 1) * MaxBins
  <2>1. k * (n - 1) <= MaxBins * (n - 1)
    BY <1>2, <1>3, Product
  <2>2. k * (n - 1) = (n - 1) * k /\ MaxBins * (n - 1) = (n - 1) * MaxBins
    BY <1>2, <1>3
  <2>3. at \in Nat
    BY <1>3
  <2> QED
    BY <2>1, <2>2, <2>3
<1>5. Quantile(s, k) = IF i = n THEN s[i]
                      ELSE s[i] + ((s[i + 1] - s[i]) * (at % MaxBins)) \div MaxBins
  BY <1>1 DEF Quantile
<1> HIDE DEF at
<1>6. at \div MaxBins \in 0 .. n - 1
  BY <1>2, <1>3, <1>4, Quotient
<1>7. at % MaxBins \in Int
  BY <1>2, <1>4
<1>8. i \in 1 .. n
  BY <1>1, <1>6
<1> HIDE DEF i
<1>9. CASE i = n
  BY <1>1, <1>5, <1>8, <1>9
<1>10. CASE i # n
  <2>1. i \in 1 .. n /\ i + 1 \in 1 .. n
    BY <1>1, <1>8, <1>10
  <2>2. s[i] \in Int /\ s[i + 1] \in Int
    BY <1>1, <2>1
  <2> DEFINE z == (s[i + 1] - s[i]) * (at % MaxBins)
  <2>3. z \in Int
    BY <1>7, <2>2
  <2> HIDE DEF z
  <2>4. z \div MaxBins \in Int
    BY <1>2, <2>3
  <2> QED
    BY <1>5, <1>10, <2>2, <2>4 DEF z
<1> QED
  BY <1>9, <1>10

LEMMA QuantilesCut ==
  ASSUME NEW s \in Series
  PROVE  CutSet(QuantileCuts(s))
<1> DEFINE f == [k \in 0 .. MaxBins |-> Quantile(s, k)]
           S == {f[k] : k \in 0 .. MaxBins}
<1>1. S = {Quantile(s, k) : k \in 0 .. MaxBins}
  OBVIOUS
<1>2. \A k \in 0 .. MaxBins : f[k] \in Int
  BY QuantileType
<1>3. DOMAIN f = 0 .. MaxBins /\ f = [k \in 0 .. MaxBins |-> f[k]]
  OBVIOUS
<1>4. IsFiniteSet(0 .. MaxBins)
  BY FS_Interval, EvaluationAssumption
<1> HIDE DEF f
<1>5. S \in SUBSET Int /\ IsFiniteSet(S)
  BY <1>2, <1>3, <1>4, FiniteImage
<1> HIDE DEF S
<1>6. CutSet(S \ {Min(S), Max(S)})
  <2>1. S \ {Min(S), Max(S)} \in SUBSET S
    OBVIOUS
  <2> QED
    BY <1>5, <2>1, FS_Subset DEF CutSet
<1>7. QuantileCuts(s) = {Median(s)} \/ QuantileCuts(s) = S \ {Min(S), Max(S)}
  BY <1>1 DEF QuantileCuts
<1> QED
  BY <1>6, <1>7, MedianCut

LEMMA FeatureCut ==
  ASSUME NEW s \in Series
  PROVE  CutSet(FeatureCuts(s))
<1> QED
  BY MidpointsCut, QuantilesCut DEF FeatureCuts

-----------------------------------------------------------------------------
\* The answer's bins are cut at the given points, its counts from its input.
Binned(cuts) == answer = [bins |-> BinsOf(cuts), counts |-> Counted(BinsOf(cuts), input)]

BinsInv == task \in {"feature", "drift"} =>
    input \in Series /\ \E cuts : CutSet(cuts) /\ Binned(cuts)

\* Bins cut at any finite set of cut points keep the promise.
LEMMA Partitioned ==
  ASSUME BinsInv
  PROVE  BinsPartition
<1> SUFFICES ASSUME task \in {"feature", "drift"} PROVE BinsPartition
  BY DEF BinsPartition
<1>1. PICK cuts : CutSet(cuts) /\ Binned(cuts)
  BY DEF BinsInv
<1>2. input \in Series
  BY DEF BinsInv
<1> DEFINE bins == BinsOf(cuts)
<1>3. answer.bins = bins /\ answer.counts = Counted(bins, input)
  BY <1>1 DEF Binned
<1>4. PICK n \in Nat \ {0} : Len(input) = n /\ DOMAIN input = 1 .. n /\ \A i \in 1 .. n : input[i] \in Int
  BY <1>2, SeriesShape
<1>5. Len(bins) \in Nat /\ DOMAIN bins = 1 .. Len(bins)
  <2>1. Cardinality(cuts) \in Nat
    BY <1>1, FS_CardinalityType DEF CutSet
  <2> QED
    BY <2>1 DEF BinsOf
<1> HIDE DEF bins
<1>6. ASSUME NEW v \in -1 .. Max(Scaled) + 1
      PROVE  MatchingBins(bins, v) # {} /\ TransformedOne(bins, v) = TransformedAll(bins, v)
  <2>1. v \in Int
    OBVIOUS
  <2> QED
    BY <1>1, <2>1, Transformed DEF bins
<1>7. ASSUME NEW i \in DOMAIN bins
      PROVE  Counted(bins, input)[i] = Cardinality({j \in DOMAIN input : TransformedOne(bins, input[j]) = i})
  <2>1. i \in 1 .. Len(bins)
    BY <1>5
  <2>2. Counted(bins, input)[i] = Cardinality({j \in 1 .. n : Matches(bins[i], input[j])})
    BY <1>4, <2>1 DEF Counted
  <2>3. ASSUME NEW j \in 1 .. n
        PROVE  Matches(bins[i], input[j]) <=> TransformedOne(bins, input[j]) = i
    <3>1. input[j] \in Int
      BY <1>4
    <3> QED
      BY <1>1, <2>1, <3>1, Transformed DEF bins
  <2>4. {j \in 1 .. n : Matches(bins[i], input[j])} = {j \in DOMAIN input : TransformedOne(bins, input[j]) = i}
    BY <1>4, <2>3
  <2> QED
    BY <2>2, <2>4
<1> QED
  BY <1>3, <1>6, <1>7 DEF BinsPartition

(***************************************************************************)
(* The bins of a fitted feature, and those of the drift index, partition   *)
(* the line, and count every value of a series once (BinsPartition): for   *)
(* every finite set of values, every number of bins and series of every    *)
(* length.                                                                 *)
(***************************************************************************)
THEOREM BinsPartitionCorrect == EvaluationSpec => []BinsPartition
<1>1. EvaluationInit => BinsInv
  BY EvaluationAssumption DEF EvaluationInit, BinsInv
<1>2. BinsInv /\ [EvaluationNext]_evaluationVars => BinsInv'
  <2> SUFFICES ASSUME BinsInv, [EvaluationNext]_evaluationVars PROVE BinsInv'
    OBVIOUS
  <2>1. CASE FitFeature
    <3>1. PICK s \in Series : /\ task' = "feature" /\ input' = s
             /\ answer' = [bins |-> BinsOf(FeatureCuts(s)), counts |-> Counted(BinsOf(FeatureCuts(s)), s)]
      BY <2>1 DEF FitFeature
    <3>2. PICK cuts : cuts = FeatureCuts(s)
      OBVIOUS
    <3>3. CutSet(cuts) /\ Binned(cuts)'
      BY <3>1, <3>2, FeatureCut DEF Binned
    <3> QED
      BY <3>1, <3>3 DEF BinsInv
  <2>2. CASE CalculatePsi
    <3>1. PICK s \in Series, live \in Series : /\ task' = "drift" /\ input' = live
             /\ answer' = [bins |-> BinsOf(QuantileCuts(s)), counts |-> Counted(BinsOf(QuantileCuts(s)), live)]
      BY <2>2 DEF CalculatePsi
    <3>2. PICK cuts : cuts = QuantileCuts(s)
      OBVIOUS
    <3>3. CutSet(cuts) /\ Binned(cuts)'
      BY <3>1, <3>2, QuantilesCut DEF Binned
    <3> QED
      BY <3>1, <3>3 DEF BinsInv
  <2>3. CASE Judge
    BY <2>3 DEF Judge, BinsInv
  <2>4. CASE GenerateRecourse
    BY <2>4 DEF GenerateRecourse, BinsInv
  <2>5. CASE task = "planning" /\ Consider
    BY <2>5 DEF Consider, BinsInv
  <2>6. CASE task = "planning" /\ Offer
    BY <2>6 DEF Offer, BinsInv
  <2>7. CASE UNCHANGED evaluationVars
    BY <2>7 DEF evaluationVars, BinsInv, Binned
  <2> QED
    BY <2>1, <2>2, <2>3, <2>4, <2>5, <2>6, <2>7 DEF EvaluationNext
<1>3. BinsInv => BinsPartition
  BY Partitioned
<1> QED
  BY <1>1, <1>2, <1>3, PTL DEF EvaluationSpec

-----------------------------------------------------------------------------
(***************************************************************************)
(* Recourse.                                                               *)
(***************************************************************************)
\* A pathway, and features in thousandths of a percent.
Way == [feature : Features, target : 0 .. Full, impact : Int]
Percents == [Features -> 0 .. Full]

LEMMA FullType == Full \in Nat /\ Full >= 1000
BY SMT DEF Full

\* The seven candidates: each asks for clearly more than what makes it one, or
\* for everything.
LEMMA CandidateShape ==
  /\ DOMAIN Candidate = 1 .. 7
  /\ Features = {"attendance", "savings", "insurance", "utility", "repayment", "upi", "pm_kisan"}
  /\ \A i \in 1 .. 7 : /\ Candidate[i].feature \in Features
                       /\ Candidate[i].below \in 0 .. Full /\ Candidate[i].least \in 0 .. Full
                       /\ Candidate[i].by \in 0 .. Full /\ Candidate[i].unit \in {10, 1000}
                       /\ Candidate[i].by >= 1000 \/ Candidate[i].least = Full
<1>1. DOMAIN Candidate = 1 .. 7
  BY SMT DEF Candidate
<1>2. \A i \in 1 .. 7 : /\ Candidate[i].below \in 0 .. Full /\ Candidate[i].least \in 0 .. Full
                        /\ Candidate[i].by \in 0 .. Full /\ Candidate[i].unit \in {10, 1000}
                        /\ Candidate[i].by >= 1000 \/ Candidate[i].least = Full
  <2>1. \A i \in 1 .. 7 : Candidate[i].below \in Nat /\ Candidate[i].below <= Full
    BY SMT DEF Candidate, Full
  <2>2. \A i \in 1 .. 7 : Candidate[i].least \in Nat /\ Candidate[i].least <= Full
    BY SMT DEF Candidate, Full
  <2>3. \A i \in 1 .. 7 : Candidate[i].by \in Nat /\ Candidate[i].by <= Full
    BY SMT DEF Candidate, Full
  <2>4. \A i \in 1 .. 7 : /\ Candidate[i].unit \in {10, 1000}
                          /\ Candidate[i].by >= 1000 \/ Candidate[i].least = Full
    BY SMT DEF Candidate, Full
  <2> QED
    BY <2>1, <2>2, <2>3, <2>4, FullType, SMT
<1>3. /\ Candidate[1].feature = "attendance" /\ Candidate[2].feature = "savings"
      /\ Candidate[3].feature = "insurance" /\ Candidate[4].feature = "utility"
      /\ Candidate[5].feature = "repayment" /\ Candidate[6].feature = "upi"
      /\ Candidate[7].feature = "pm_kisan"
  BY DEF Candidate
<1>4. Features = {"attendance", "savings", "insurance", "utility", "repayment", "upi", "pm_kisan"}
  BY <1>1, <1>3 DEF Features
<1>5. \A i \in 1 .. 7 : Candidate[i].feature \in Features
  BY <1>1 DEF Features
<1> QED
  BY <1>1, <1>2, <1>4, <1>5

LEMMA CandidateFeature ==
  ASSUME NEW i \in 1 .. 7
  PROVE  Candidate[i].feature \in Features
BY CandidateShape

\* No two are about the same feature.
LEMMA CandidateDiffer ==
  ASSUME NEW i \in 1 .. 7, NEW j \in 1 .. 7, i # j
  PROVE  Candidate[i].feature # Candidate[j].feature
<1>1. /\ Candidate[1].feature = "attendance" /\ Candidate[2].feature = "savings"
      /\ Candidate[3].feature = "insurance" /\ Candidate[4].feature = "utility"
      /\ Candidate[5].feature = "repayment" /\ Candidate[6].feature = "upi"
      /\ Candidate[7].feature = "pm_kisan"
  BY DEF Candidate
<1>2. (i = 1 \/ i = 2 \/ i = 3 \/ i = 4 \/ i = 5 \/ i = 6 \/ i = 7)
      /\ (j = 1 \/ j = 2 \/ j = 3 \/ j = 4 \/ j = 5 \/ j = 6 \/ j = 7)
  OBVIOUS
<1> QED
  BY <1>1, <1>2

\* A value is in one of the bins of a card.
LEMMA BinType ==
  ASSUME NEW cuts, IsFiniteSet(cuts), NEW v
  PROVE  BinAt(cuts, v) \in 1 .. Cardinality(cuts) + 1
<1> DEFINE passed == {c \in cuts : c <= v}
<1>1. /\ Cardinality(passed) \in Nat /\ Cardinality(cuts) \in Nat
      /\ Cardinality(passed) <= Cardinality(cuts)
  <2>1. passed \subseteq cuts
    OBVIOUS
  <2> HIDE DEF passed
  <2> QED
    BY <2>1, FS_Subset, FS_CardinalityType
<1> QED
  BY <1>1 DEF BinAt

\* A score is a number.
LEMMA ScoreType ==
  ASSUME NEW card \in Cards, NEW x \in Percents
  PROVE  ScoreOf(card, x) \in Int
<1> DEFINE part(f) == (card.weight[f] * x[f]) \div Full + card.woe[f][BinAt(card.cuts[f], x[f])]
<1>1. /\ card.intercept \in Int /\ card.bound \in Int /\ card.step \in Nat \ {0}
      /\ \A f \in Features : card.weight[f] \in Int
  BY CardsAssumption
<1>2. \A f \in Features : x[f] \in Int
  BY DEF Percents
<1>3. ASSUME NEW f \in Features PROVE part(f) \in Int
  <2>1. card.weight[f] \in Int /\ x[f] \in Int
    BY <1>1, <1>2
  <2> DEFINE z == card.weight[f] * x[f]
  <2>2. z \in Int
    BY <2>1
  <2> HIDE DEF z
  <2>3. z \div Full \in Int
    BY <2>2, FullType, SMT
  <2>4. /\ IsFiniteSet(card.cuts[f])
        /\ card.woe[f] \in [1 .. Cardinality(card.cuts[f]) + 1 -> Int]
    BY CardsAssumption
  <2>5. BinAt(card.cuts[f], x[f]) \in 1 .. Cardinality(card.cuts[f]) + 1
    BY <2>4, BinType
  <2>6. card.woe[f][BinAt(card.cuts[f], x[f])] \in Int
    BY <2>4, <2>5
  <2> QED
    BY <2>3, <2>6 DEF z
<1>4. /\ part("attendance") \in Int /\ part("savings") \in Int /\ part("insurance") \in Int
      /\ part("utility") \in Int /\ part("repayment") \in Int /\ part("upi") \in Int
      /\ part("pm_kisan") \in Int
  BY <1>3, CandidateShape
<1>5. LogOdds(card, x) = card.intercept + part("attendance") + part("savings")
       + part("insurance") + part("utility") + part("repayment")
       + part("upi") + part("pm_kisan")
  BY DEF LogOdds
<1> HIDE DEF part
<1>6. PICK l \in Int : l = LogOdds(card, x)
  BY <1>1, <1>4, <1>5
<1>7. PICK q \in Int : q = l \div card.step
  BY <1>1, <1>6
<1>8. PICK r \in Int : r = q * card.step
  BY <1>1, <1>7
<1>9. PICK c \in Int : c = Calibrated(card, l)
  BY <1>1, <1>7, <1>8 DEF Calibrated, Within
<1>10. PICK d \in Int : d = (487123 + 2885 * c) \div 1000
  BY <1>9
<1>11. ScoreOf(card, x) = Within(d, 300, 900)
  BY <1>6, <1>9, <1>10 DEF ScoreOf
<1> QED
  BY <1>10, <1>11 DEF Within

\* An improvement raises a feature of a borrower who lacks it, by so much or to
\* so much that the rounding does not undo it.
LEMMA TargetType ==
  ASSUME NEW i \in 1 .. 7, NEW x \in Percents
  PROVE  /\ TargetOf(Candidate[i], x) \in 0 .. Full
         /\ x[Candidate[i].feature] < Candidate[i].below =>
                \/ TargetOf(Candidate[i], x) >= x[Candidate[i].feature] + 1000
                \/ TargetOf(Candidate[i], x) = Full
<1> DEFINE c == Candidate[i]
<1>1. /\ c.feature \in Features /\ c.below \in 0 .. Full /\ c.least \in 0 .. Full
      /\ c.by \in 0 .. Full /\ (c.by >= 1000 \/ c.least = Full)
  BY CandidateShape
<1> HIDE DEF c
<1>2. x[c.feature] \in 0 .. Full
  BY <1>1 DEF Percents
<1>3. PICK v \in 0 .. Full : v = x[c.feature]
  BY <1>2
<1>4. PICK below \in 0 .. Full, least \in 0 .. Full, by \in 0 .. Full :
         /\ below = c.below /\ least = c.least /\ by = c.by
         /\ by >= 1000 \/ least = Full
  BY <1>1
<1> DEFINE w == IF v + by < least THEN least ELSE v + by
<1>5. w \in Int /\ w >= 0
  BY FullType, SMT
<1>6. w >= v + 1000 \/ w >= Full
  BY <1>4, FullType, SMT
<1>7. TargetOf(c, x) = Within(w, 0, Full)
  BY <1>3, <1>4 DEF TargetOf
<1> HIDE DEF w
<1>8. TargetOf(c, x) = IF w > Full THEN Full ELSE w
  BY <1>5, <1>7, FullType, SMT DEF Within
<1>9. v \in Int /\ v <= Full
  BY FullType, SMT
<1>10. /\ TargetOf(c, x) \in 0 .. Full
       /\ TargetOf(c, x) >= v + 1000 \/ TargetOf(c, x) = Full
  BY <1>5, <1>6, <1>8, <1>9, FullType, SMT
<1> QED
  BY <1>3, <1>10 DEF c

\* What a value is rounded to is near it, and everything stays everything.
LEMMA RoundedNear ==
  ASSUME NEW u \in {10, 1000}, NEW c, c.unit = u, NEW v \in 0 .. Full, NEW r \in Rounded(c, v)
  PROVE  r \in 0 .. Full /\ r >= v - 500 /\ (v = Full => r = Full)
<1>1. v \in Int /\ 0 <= v /\ v <= Full
  BY FullType, SMT
<1>2. PICK q : q = v \div u
  OBVIOUS
<1>3. (r = q * u \/ r = q * u + u) /\ 2 * r <= 2 * v + u /\ 2 * v <= 2 * r + u
  BY <1>2, Zenon DEF Rounded
<1>4. CASE u = 10
  <2>1. q \in Int /\ 10 * q <= v /\ v < 10 * q + 10
    BY <1>1, <1>2, <1>4, SMT
  <2>2. (r = 10 * q \/ r = 10 * q + 10) /\ r <= v + 5 /\ v <= r + 5
    BY <1>1, <1>3, <1>4, <2>1, SMT
  <2>3. q <= 10000 /\ (r <= 10 * 10000 + 5 => r <= 10 * 10000)
    BY <1>1, <2>1, <2>2, SMT DEF Full
  <2>4. r \in Int /\ 0 <= r /\ r <= Full /\ r >= v - 500
    BY <1>1, <2>1, <2>2, <2>3, SMT DEF Full
  <2>5. v = Full => r = Full
    BY <1>1, <2>1, <2>2, <2>3, SMT DEF Full
  <2> QED
    BY <2>4, <2>5, FullType, SMT
<1>5. CASE u = 1000
  <2>1. q \in Int /\ 1000 * q <= v /\ v < 1000 * q + 1000
    BY <1>1, <1>2, <1>5, SMT
  <2>2. (r = 1000 * q \/ r = 1000 * q + 1000) /\ r <= v + 500 /\ v <= r + 500
    BY <1>1, <1>3, <1>5, <2>1, SMT
  <2>3. q <= 100 /\ (r <= 1000 * 100 + 500 => r <= 1000 * 100)
    BY <1>1, <2>1, <2>2, SMT DEF Full
  <2>4. r \in Int /\ 0 <= r /\ r <= Full /\ r >= v - 500
    BY <1>1, <2>1, <2>2, <2>3, SMT DEF Full
  <2>5. v = Full => r = Full
    BY <1>1, <2>1, <2>2, <2>3, SMT DEF Full
  <2> QED
    BY <2>4, <2>5, FullType, SMT
<1> QED
  BY <1>4, <1>5

\* So the target shown is more than what the borrower has.
LEMMA RoundedType ==
  ASSUME NEW i \in 1 .. 7, NEW x \in Percents,
         NEW target \in Rounded(Candidate[i], TargetOf(Candidate[i], x))
  PROVE  /\ target \in 0 .. Full
         /\ x[Candidate[i].feature] < Candidate[i].below => target > x[Candidate[i].feature]
<1> DEFINE c == Candidate[i]
           v == TargetOf(c, x)
           old == x[c.feature]
<1>1. c.unit \in {10, 1000} /\ c.feature \in Features /\ c.below \in 0 .. Full
  BY CandidateShape
<1>2. old \in 0 .. Full
  BY <1>1 DEF Percents
<1>3. v \in 0 .. Full /\ (old < c.below => v >= old + 1000 \/ v = Full)
  BY TargetType, SMT
<1> HIDE DEF c, v, old
<1>4. target \in 0 .. Full /\ target >= v - 500 /\ (v = Full => target = Full)
  <2>1. target \in Rounded(c, v)
    BY DEF c, v
  <2> QED
    BY <1>1, <1>3, <2>1, RoundedNear
<1>5. old < c.below => target > old
  BY <1>1, <1>2, <1>3, <1>4, FullType, SMT
<1> QED
  BY <1>4, <1>5 DEF c, old

LEMMA RaisedType ==
  ASSUME NEW i \in 1 .. 7, NEW features \in Percents, NEW target \in 0 .. Full
  PROVE  Raised(features, Candidate[i], target) \in Percents
BY CandidateShape DEF Raised, Percents

\* Pathways that name no feature twice.
NamedOnce(ways) == \A i, j \in DOMAIN ways : ways[i].feature = ways[j].feature => i = j

\* A followed pathway's feature is at its target, any other where it was.
LEMMA FollowedAt ==
  ASSUME NEW ways \in Seq(Way), NamedOnce(ways), NEW k \in 0 .. Len(ways), NEW x,
         NEW i \in 1 .. k
  PROVE  Followed(ways, k, x)[ways[i].feature] = ways[i].target
<1> DEFINE f == ways[i].feature
           h == CHOOSE j \in 1 .. k : ways[j].feature = f
<1>1. i \in DOMAIN ways /\ \A j \in 1 .. k : j \in DOMAIN ways
  OBVIOUS
<1>2. f \in Features
  <2>1. ways[i] \in Way
    BY <1>1
  <2> QED
    BY <2>1 DEF Way
<1>3. \E j \in 1 .. k : ways[j].feature = f
  OBVIOUS
<1>4. h \in 1 .. k /\ ways[h].feature = f
  BY <1>3
<1>5. h = i
  BY <1>1, <1>4 DEF NamedOnce
<1>6. Followed(ways, k, x)[f] = ways[h].target
  BY <1>2, <1>3 DEF Followed
<1> QED
  BY <1>5, <1>6

LEMMA FollowedElse ==
  ASSUME NEW ways, NEW k, NEW x, NEW f \in Features,
         \A i \in 1 .. k : ways[i].feature # f
  PROVE  Followed(ways, k, x)[f] = x[f]
BY DEF Followed

\* What comes after the first k pathways does not matter to them.
LEMMA FollowedAppend ==
  ASSUME NEW ways \in Seq(Way), NEW w \in Way, NamedOnce(Append(ways, w)),
         NEW k \in 0 .. Len(ways), NEW x
  PROVE  Followed(Append(ways, w), k, x) = Followed(ways, k, x)
<1> DEFINE more == Append(ways, w)
<1>1. /\ more \in Seq(Way) /\ Len(more) = Len(ways) + 1
      /\ \A i \in 1 .. Len(ways) : more[i] = ways[i]
  OBVIOUS
<1>2. DOMAIN ways = 1 .. Len(ways) /\ DOMAIN more = 1 .. Len(ways) + 1 /\ Len(ways) \in Nat
  BY <1>1
<1>3. NamedOnce(ways)
  BY <1>1, <1>2 DEF NamedOnce
<1> HIDE DEF more
<1>4. k \in 0 .. Len(more) /\ NamedOnce(more)
  BY <1>1, <1>2 DEF more
<1>5. ASSUME NEW f \in Features PROVE Followed(more, k, x)[f] = Followed(ways, k, x)[f]
  <2>1. CASE \E i \in 1 .. k : ways[i].feature = f
    <3>1. PICK i \in 1 .. k : ways[i].feature = f
      BY <2>1
    <3>2. i \in 1 .. Len(ways) /\ more[i] = ways[i]
      BY <1>1, <1>2
    <3>3. Followed(ways, k, x)[ways[i].feature] = ways[i].target
      BY <1>3, FollowedAt
    <3>4. Followed(more, k, x)[more[i].feature] = more[i].target
      BY <1>1, <1>4, FollowedAt
    <3> QED
      BY <3>1, <3>2, <3>3, <3>4
  <2>2. CASE \A i \in 1 .. k : ways[i].feature # f
    <3>1. \A i \in 1 .. k : more[i].feature # f
      BY <1>1, <1>2, <2>2
    <3> QED
      BY <2>2, <3>1, FollowedElse
  <2> QED
    BY <2>1, <2>2
<1>6. /\ Followed(more, k, x) = [f \in Features |-> Followed(more, k, x)[f]]
      /\ Followed(ways, k, x) = [f \in Features |-> Followed(ways, k, x)[f]]
  BY DEF Followed
<1>7. Followed(more, k, x) = Followed(ways, k, x)
  BY <1>5, <1>6
<1> QED
  BY <1>7 DEF more

\* The pathway appended is followed last.
LEMMA FollowedLast ==
  ASSUME NEW ways \in Seq(Way), NEW w \in Way, NamedOnce(Append(ways, w)), NEW x \in Percents
  PROVE  Followed(Append(ways, w), Len(ways) + 1, x)
            = [Followed(ways, Len(ways), x) EXCEPT ![w.feature] = w.target]
<1> DEFINE more == Append(ways, w)
           n == Len(ways)
<1>1. /\ more \in Seq(Way) /\ Len(more) = n + 1 /\ more[n + 1] = w
      /\ \A i \in 1 .. n : more[i] = ways[i]
  OBVIOUS
<1>2. DOMAIN ways = 1 .. n /\ DOMAIN more = 1 .. n + 1 /\ n \in Nat
  BY <1>1
<1>3. NamedOnce(ways)
  BY <1>1, <1>2 DEF NamedOnce
<1> HIDE DEF more, n
<1>4. n \in 0 .. Len(ways) /\ n + 1 \in 0 .. Len(more) /\ n + 1 \in 1 .. n + 1 /\ NamedOnce(more)
  BY <1>1, <1>2 DEF more, n
<1>5. Followed(more, n + 1, x)[w.feature] = w.target
  <2>1. Followed(more, n + 1, x)[more[n + 1].feature] = more[n + 1].target
    BY <1>1, <1>4, FollowedAt
  <2> QED
    BY <1>1, <2>1
<1>6. ASSUME NEW f \in Features, f # w.feature
      PROVE  Followed(more, n + 1, x)[f] = Followed(ways, n, x)[f]
  <2>1. CASE \E i \in 1 .. n : ways[i].feature = f
    <3>1. PICK i \in 1 .. n : ways[i].feature = f
      BY <2>1
    <3>2. i \in 1 .. n + 1 /\ more[i] = ways[i]
      BY <1>1, <1>2
    <3>3. Followed(ways, n, x)[ways[i].feature] = ways[i].target
      BY <1>3, <1>4, FollowedAt
    <3>4. Followed(more, n + 1, x)[more[i].feature] = more[i].target
      BY <1>1, <1>4, <3>2, FollowedAt
    <3> QED
      BY <3>1, <3>2, <3>3, <3>4
  <2>2. CASE \A i \in 1 .. n : ways[i].feature # f
    <3>1. \A i \in 1 .. n + 1 : more[i].feature # f
      BY <1>1, <1>2, <1>6, <2>2
    <3>2. Followed(more, n + 1, x)[f] = x[f]
      BY <3>1, FollowedElse
    <3>3. Followed(ways, n, x)[f] = x[f]
      BY <2>2, FollowedElse
    <3> QED
      BY <3>2, <3>3
  <2> QED
    BY <2>1, <2>2
<1>7. /\ Followed(more, n + 1, x) = [f \in Features |-> Followed(more, n + 1, x)[f]]
      /\ DOMAIN Followed(ways, n, x) = Features
      /\ Followed(ways, n, x) = [f \in Features |-> Followed(ways, n, x)[f]]
  BY DEF Followed
<1>8. Followed(more, n + 1, x) = [Followed(ways, n, x) EXCEPT ![w.feature] = w.target]
  BY <1>5, <1>6, <1>7
<1> QED
  BY <1>8 DEF more, n

LEMMA FollowedNone ==
  ASSUME NEW ways, NEW x \in Percents
  PROVE  Followed(ways, 0, x) = x
<1>1. x = [f \in Features |-> x[f]]
  BY DEF Percents
<1>2. Followed(ways, 0, x) = [f \in Features |-> x[f]]
  BY DEF Followed
<1> QED
  BY <1>1, <1>2

\* What the loop carries from round to round.
Plans == [eligible : BOOLEAN, current : Int, features : Percents, projected : Int,
          pathways : Seq(Way), left : SUBSET (1 .. 7)]

\* The i-th pathway is what the borrower gains by it, after those before it.
WayHonest(ways, i, card, x) ==
    /\ ways[i].impact > 0
    /\ ways[i].impact = ScoreOf(card, Followed(ways, i, x))
                        - ScoreOf(card, Followed(ways, i - 1, x))
    /\ ScoreOf(card, Followed(ways, i - 1, x)) < Target
    /\ ways[i].target > x[ways[i].feature]

\* A plan keeps its promise as far as it goes, and what is left to consider
\* would raise a feature that no pathway raises.
Honest(plan, card, x) ==
    /\ plan.current = ScoreOf(card, x) /\ plan.eligible = (plan.current < Target)
    /\ plan.features = Followed(plan.pathways, Len(plan.pathways), x)
    /\ plan.projected = ScoreOf(card, plan.features)
    /\ Len(plan.pathways) <= MaxPathways
    /\ NamedOnce(plan.pathways)
    /\ \A i \in DOMAIN plan.pathways : WayHonest(plan.pathways, i, card, x)
    /\ \A k \in plan.left :
          /\ x[Candidate[k].feature] < Candidate[k].below
          /\ \A i \in DOMAIN plan.pathways : plan.pathways[i].feature # Candidate[k].feature

\* The plan with one candidate less to consider.
Rest(plan, i) == [plan EXCEPT !.left = @ \ {i}]

\* To pass over a candidate keeps the plan honest.
LEMMA RestHonest ==
  ASSUME NEW plan \in Plans, NEW card, NEW x, Honest(plan, card, x), NEW i
  PROVE  /\ Rest(plan, i) \in Plans
         /\ Honest(Rest(plan, i), card, x)
         /\ Rest(plan, i).left = plan.left \ {i}
<1>1. /\ Rest(plan, i).eligible = plan.eligible /\ Rest(plan, i).current = plan.current
      /\ Rest(plan, i).features = plan.features /\ Rest(plan, i).projected = plan.projected
      /\ Rest(plan, i).pathways = plan.pathways /\ Rest(plan, i).left = plan.left \ {i}
      /\ Rest(plan, i) \in Plans
  BY DEF Plans, Rest
<1> QED
  BY <1>1 DEF Honest

\* So does to take one that gains, and whose feature no pathway has yet.
LEMMA TakenHonest ==
  ASSUME NEW plan \in Plans, NEW card \in Cards, NEW x \in Percents, Honest(plan, card, x),
         NEW i \in 1 .. 7, \A k \in plan.left : k # i,
         x[Candidate[i].feature] < Candidate[i].below,
         \A j \in DOMAIN plan.pathways : plan.pathways[j].feature # Candidate[i].feature,
         NEW target \in 0 .. Full, target > x[Candidate[i].feature],
         Len(plan.pathways) < MaxPathways, plan.projected < Target,
         ScoreOf(card, Raised(plan.features, Candidate[i], target)) > plan.projected
  PROVE  /\ Taken(card, Candidate[i], target, plan) \in Plans
         /\ Honest(Taken(card, Candidate[i], target, plan), card, x)
         /\ Taken(card, Candidate[i], target, plan).pathways # << >>
         /\ Taken(card, Candidate[i], target, plan).eligible = plan.eligible
<1> DEFINE c == Candidate[i]
           better == Raised(plan.features, c, target)
           w == [feature |-> c.feature, target |-> target,
                 impact |-> Impact(card, c, target, plan)]
           ways == plan.pathways
           more == Append(ways, w)
           n == Len(ways)
           new == Taken(card, c, target, plan)
<1>1. /\ plan.features \in Percents /\ plan.projected \in Int /\ ways \in Seq(Way)
      /\ plan.left \in SUBSET (1 .. 7) /\ plan.eligible \in BOOLEAN /\ plan.current \in Int
  BY DEF Plans
<1>2. better \in Percents
  BY <1>1, RaisedType
<1>3. ScoreOf(card, better) \in Int
  BY <1>2, ScoreType
<1>4. /\ target \in 0 .. Full /\ target > x[c.feature]
      /\ c.feature \in Features
  <2>1. Candidate[i].feature \in Features
    BY CandidateFeature, Zenon
  <2> QED
    BY <2>1
<1>5. w.impact = ScoreOf(card, better) - plan.projected
  BY DEF Impact
<1>6. w \in Way /\ w.impact > 0 /\ w.feature = c.feature /\ w.target = target
  <2>1. Impact(card, c, target, plan) \in Int
    BY <1>1, <1>3, <1>5
  <2>2. w.impact > 0
    BY <1>1, <1>3, <1>5
  <2> QED
    BY <1>4, <2>1, <2>2 DEF Way
<1>7. /\ new.eligible = plan.eligible /\ new.current = plan.current /\ new.left = plan.left
      /\ new.features = better /\ new.projected = ScoreOf(card, better) /\ new.pathways = more
      /\ new = [eligible |-> plan.eligible, current |-> plan.current, features |-> better,
                projected |-> ScoreOf(card, better), pathways |-> more, left |-> plan.left]
  <2>1. new = [plan EXCEPT !.features = better, !.projected = ScoreOf(card, better),
                           !.pathways = more]
    BY DEF Taken
  <2> HIDE DEF new, better, more
  <2> QED
    BY <2>1 DEF Plans
<1>8. better = [plan.features EXCEPT ![c.feature] = target]
  BY DEF Raised
<1>9. \A j \in DOMAIN ways : ways[j].feature # c.feature
  OBVIOUS
<1>10. n < MaxPathways /\ plan.projected < Target /\ (\A k \in plan.left : k # i)
       /\ i \in 1 .. 7 /\ c = Candidate[i]
  OBVIOUS
<1> HIDE DEF better, w, c, new
<1>11. /\ more \in Seq(Way) /\ Len(more) = n + 1 /\ more[n + 1] = w /\ n \in Nat
       /\ \A j \in 1 .. n : more[j] = ways[j]
       /\ DOMAIN more = 1 .. n + 1 /\ DOMAIN ways = 1 .. n
  BY <1>1, <1>6
<1> HIDE DEF more, n, ways
<1>12. NamedOnce(ways) /\ plan.features = Followed(ways, n, x) /\ plan.projected = ScoreOf(card, plan.features)
       /\ (\A j \in DOMAIN ways : WayHonest(ways, j, card, x)) /\ plan.eligible = (plan.current < Target)
       /\ plan.current = ScoreOf(card, x)
       /\ \A k \in plan.left : /\ x[Candidate[k].feature] < Candidate[k].below
                               /\ \A j \in DOMAIN ways : ways[j].feature # Candidate[k].feature
  BY DEF Honest, ways, n
<1>13. NamedOnce(more)
  <2> SUFFICES ASSUME NEW j \in 1 .. n + 1, NEW k \in 1 .. n + 1, more[j].feature = more[k].feature
               PROVE  j = k
    BY <1>11 DEF NamedOnce
  <2>1. CASE j \in 1 .. n /\ k \in 1 .. n
    BY <1>11, <1>12, <2>1 DEF NamedOnce
  <2>2. CASE j = n + 1 /\ k \in 1 .. n
    BY <1>6, <1>9, <1>11, <2>2
  <2>3. CASE k = n + 1 /\ j \in 1 .. n
    BY <1>6, <1>9, <1>11, <2>3
  <2> QED
    BY <1>11, <2>1, <2>2, <2>3
<1>14. ASSUME NEW k \in 0 .. n PROVE Followed(more, k, x) = Followed(ways, k, x)
  BY <1>1, <1>6, <1>13, FollowedAppend DEF more, n, ways
<1>15. Followed(more, n + 1, x) = better
  <2>1. Followed(more, n + 1, x) = [Followed(ways, n, x) EXCEPT ![w.feature] = w.target]
    BY <1>1, <1>6, <1>13, FollowedLast DEF more, n, ways
  <2> QED
    BY <1>6, <1>8, <1>12, <2>1
<1>16. ASSUME NEW j \in 1 .. n + 1 PROVE WayHonest(more, j, card, x)
  <2>1. CASE j \in 1 .. n
    <3>1. WayHonest(ways, j, card, x) /\ more[j] = ways[j] /\ j \in 0 .. n /\ j - 1 \in 0 .. n
      BY <1>11, <1>12, <2>1
    <3>2. Followed(more, j, x) = Followed(ways, j, x) /\ Followed(more, j - 1, x) = Followed(ways, j - 1, x)
      BY <1>14, <3>1
    <3> QED
      BY <3>1, <3>2 DEF WayHonest
  <2>2. CASE j = n + 1
    <3>1. n \in 0 .. n /\ j - 1 = n
      BY <1>11, <2>2
    <3>2. Followed(more, j - 1, x) = plan.features
      BY <1>12, <1>14, <3>1
    <3>3. Followed(more, j, x) = better
      BY <1>15, <2>2
    <3>4. more[j] = w
      BY <1>11, <2>2
    <3> QED
      BY <1>4, <1>5, <1>6, <1>10, <1>12, <3>2, <3>3, <3>4 DEF WayHonest
  <2> QED
    BY <1>11, <2>1, <2>2
<1>17. ASSUME NEW k \in plan.left, NEW j \in 1 .. n + 1
       PROVE  more[j].feature # Candidate[k].feature
  <2>1. CASE j \in 1 .. n
    BY <1>11, <1>12, <2>1
  <2>2. CASE j = n + 1
    <3>1. k \in 1 .. 7 /\ k # i
      BY <1>1, <1>10
    <3>2. Candidate[k].feature # Candidate[i].feature
      BY <1>10, <3>1, CandidateDiffer
    <3> QED
      BY <1>6, <1>10, <1>11, <2>2, <3>2
  <2> QED
    BY <1>11, <2>1, <2>2
<1>18. n + 1 <= MaxPathways
  BY <1>10, <1>11, EvaluationAssumption
<1>19. new \in Plans
  BY <1>1, <1>2, <1>3, <1>7, <1>11 DEF Plans
<1>20. Honest(new, card, x)
  <2>1. new.eligible = (new.current < Target) /\ new.current = ScoreOf(card, x)
    BY <1>7, <1>12
  <2>2. new.features = Followed(new.pathways, Len(new.pathways), x)
    BY <1>7, <1>11, <1>15
  <2>3. new.projected = ScoreOf(card, new.features) /\ Len(new.pathways) <= MaxPathways /\ NamedOnce(new.pathways)
    BY <1>7, <1>11, <1>13, <1>18
  <2>4. \A j \in DOMAIN new.pathways : WayHonest(new.pathways, j, card, x)
    BY <1>7, <1>11, <1>16
  <2>5. \A k \in new.left :
          /\ x[Candidate[k].feature] < Candidate[k].below
          /\ \A j \in DOMAIN new.pathways : new.pathways[j].feature # Candidate[k].feature
    BY <1>7, <1>11, <1>12, <1>17
  <2> QED
    BY <2>1, <2>2, <2>3, <2>4, <2>5 DEF Honest
<1>21. more # << >>
  BY <1>11
<1> QED
  BY <1>7, <1>19, <1>20, <1>21 DEF c, new

(***************************************************************************)
(* The inductive invariant. The greedy loop scores features it has         *)
(* accumulated, the promise is about the borrower's own with the targets   *)
(* of the pathways: the two agree (Honest) only because no candidate that  *)
(* is left has the feature of a pathway. Until the first pathway is        *)
(* chosen, what has been considered in vain has lost its gain to the       *)
(* rounding: a candidate gains first what it gains alone.                  *)
(***************************************************************************)
RecourseInv ==
    task \in {"planning", "recourse"} =>
        /\ input.card \in Cards /\ input.x \in Percents
        /\ answer \in Plans /\ Honest(answer, input.card, input.x)
        /\ answer.pathways = << >> /\ answer.eligible =>
              \A k \in Able(input.card, input.x) :
                 \/ task = "planning" /\ k \in answer.left
                 \/ RoundedAway(input.card, Candidate[k], input.x)
        /\ answer.pathways = << >> => answer.features = input.x
        /\ task = "planning" => answer.eligible

\* The plan the loop starts from.
LEMMA RecourseStart ==
  ASSUME NEW card \in Cards, NEW x \in Percents
  PROVE  /\ NoPlan(card, x) \in Plans
         /\ Honest(NoPlan(card, x), card, x)
         /\ NoPlan(card, x).pathways = << >> /\ NoPlan(card, x).features = x
         /\ NoPlan(card, x).eligible = (ScoreOf(card, x) < Target)
         /\ NoPlan(card, x).eligible => NoPlan(card, x).left = Able(card, x)
<1> DEFINE p == NoPlan(card, x)
<1>1. ScoreOf(card, x) \in Int /\ Target \in Int /\ MaxPathways \in Nat \ {0}
  BY ScoreType, EvaluationAssumption
<1>2. /\ p.eligible = (ScoreOf(card, x) < Target) /\ p.current = ScoreOf(card, x)
      /\ p.features = x /\ p.projected = ScoreOf(card, x) /\ p.pathways = << >>
      /\ p.left = IF ScoreOf(card, x) < Target THEN Able(card, x) ELSE {}
      /\ p = [eligible |-> p.eligible, current |-> p.current, features |-> p.features,
              projected |-> p.projected, pathways |-> p.pathways, left |-> p.left]
  BY DEF NoPlan
<1>3. Able(card, x) \in SUBSET (1 .. 7)
      /\ \A k \in Able(card, x) : x[Candidate[k].feature] < Candidate[k].below
  BY CandidateShape DEF Able
<1> HIDE DEF p
<1>4. /\ << >> \in Seq(Way) /\ Len(<< >>) = 0 /\ DOMAIN << >> = {}
  BY EmptySeq
<1>5. p \in Plans
  <2>1. p.eligible \in BOOLEAN
    <3>1. CASE ScoreOf(card, x) < Target
      BY <1>2, <3>1
    <3>2. CASE ~(ScoreOf(card, x) < Target)
      BY <1>2, <3>2
    <3> QED
      BY <3>1, <3>2
  <2>2. p.left \in SUBSET (1 .. 7)
    BY <1>2, <1>3
  <2>3. p.current \in Int /\ p.projected \in Int /\ p.features \in Percents /\ p.pathways \in Seq(Way)
    BY <1>1, <1>2, <1>4
  <2> QED
    BY <1>2, <2>1, <2>2, <2>3 DEF Plans
<1>6. Followed(<< >>, 0, x) = x
  BY FollowedNone
<1>7. NamedOnce(<< >>)
  BY <1>4 DEF NamedOnce
<1>8. Honest(p, card, x)
  BY <1>1, <1>2, <1>3, <1>4, <1>6, <1>7 DEF Honest
<1> QED
  BY <1>2, <1>5, <1>8 DEF p

\* A round of the loop.
LEMMA ConsiderStep ==
  ASSUME RecourseInv, task = "planning", Consider
  PROVE  RecourseInv'
<1> DEFINE card == input.card
           x == input.x
<1>1. /\ card \in Cards /\ x \in Percents /\ answer \in Plans /\ Honest(answer, card, x)
      /\ answer.eligible
      /\ answer.pathways = << >> =>
            \A k \in Able(card, x) : k \in answer.left \/ RoundedAway(card, Candidate[k], x)
      /\ (answer.pathways = << >> => answer.features = x)
  BY DEF RecourseInv
<1>2. input' = input /\ task' = task
  BY DEF Consider
<1>11. PICK i \in answer.left : \E target \in Rounded(Candidate[i], TargetOf(Candidate[i], x)) :
         answer' = IF ScoreOf(card, Raised(answer.features, Candidate[i], target)) > answer.projected
                   THEN Taken(card, Candidate[i], target, Rest(answer, i))
                   ELSE Rest(answer, i)
  BY DEF Consider, Rest
<1>3. PICK target \in Rounded(Candidate[i], TargetOf(Candidate[i], x)) :
         answer' = IF ScoreOf(card, Raised(answer.features, Candidate[i], target)) > answer.projected
                   THEN Taken(card, Candidate[i], target, Rest(answer, i))
                   ELSE Rest(answer, i)
  BY <1>11
<1>4. Len(answer.pathways) < MaxPathways /\ answer.projected < Target
  BY DEF Consider, Going
<1>5. PICK r : r = Rest(answer, i)
  OBVIOUS
<1>6. /\ r \in Plans /\ Honest(r, card, x) /\ r.left = answer.left \ {i}
      /\ r.features = answer.features /\ r.projected = answer.projected
      /\ r.pathways = answer.pathways /\ r.eligible = answer.eligible
  <2>1. r.left = answer.left \ {i} /\ r \in Plans /\ Honest(r, card, x)
    BY <1>1, <1>5, RestHonest
  <2> QED
    BY <1>1, <1>5, <2>1 DEF Rest, Plans
<1>7. /\ i \in 1 .. 7 /\ x[Candidate[i].feature] < Candidate[i].below
      /\ \A j \in DOMAIN answer.pathways : answer.pathways[j].feature # Candidate[i].feature
  BY <1>1 DEF Honest, Plans
<1> HIDE DEF card, x
<1>10. target \in 0 .. Full /\ target > x[Candidate[i].feature]
  BY <1>1, <1>7, RoundedType
<1>8. CASE ScoreOf(card, Raised(answer.features, Candidate[i], target)) > answer.projected
  <2>1. answer' = Taken(card, Candidate[i], target, r)
    BY <1>3, <1>5, <1>8
  <2>2. PICK t : t = Taken(card, Candidate[i], target, r)
    OBVIOUS
  <2>3. \A k \in r.left : k # i
    BY <1>6
  <2>4. t \in Plans /\ Honest(t, card, x) /\ t.pathways # << >> /\ t.eligible = r.eligible
    <3>1. /\ \A j \in DOMAIN r.pathways : r.pathways[j].feature # Candidate[i].feature
          /\ Len(r.pathways) < MaxPathways /\ r.projected < Target
          /\ ScoreOf(card, Raised(r.features, Candidate[i], target)) > r.projected
      BY <1>4, <1>6, <1>7, <1>8
    <3> QED
      BY <1>1, <1>6, <1>7, <1>10, <2>2, <2>3, <3>1, TakenHonest
  <2>5. answer' = t
    BY <2>1, <2>2
  <2> QED
    BY <1>1, <1>2, <1>6, <2>4, <2>5 DEF RecourseInv, card, x
<1>9. CASE ~(ScoreOf(card, Raised(answer.features, Candidate[i], target)) > answer.projected)
  <2>1. answer' = r
    BY <1>3, <1>5, <1>9
  <2>2. ASSUME answer.pathways = << >> PROVE RoundedAway(card, Candidate[i], x)
    <3>1. answer.features = x /\ Raised(x, Candidate[i], target) \in Percents
      BY <1>1, <1>7, <1>10, <2>2, RaisedType
    <3>2. /\ answer.projected = ScoreOf(card, x) /\ ScoreOf(card, x) \in Int
          /\ ScoreOf(card, Raised(x, Candidate[i], target)) \in Int
      BY <1>1, <3>1, ScoreType DEF Honest
    <3>3. ScoreOf(card, Raised(x, Candidate[i], target)) <= ScoreOf(card, x)
      BY <1>9, <3>1, <3>2
    <3> QED
      BY <3>3 DEF RoundedAway
  <2>3. ASSUME answer.pathways = << >>, NEW k \in Able(card, x)
        PROVE  k \in r.left \/ RoundedAway(card, Candidate[k], x)
    BY <1>1, <1>6, <2>2, <2>3
  <2> QED
    BY <1>1, <1>2, <1>6, <2>1, <2>3 DEF RecourseInv, card, x
<1> QED
  BY <1>8, <1>9

\* The end of the loop.
LEMMA OfferStep ==
  ASSUME RecourseInv, task = "planning", Offer
  PROVE  RecourseInv'
<1> DEFINE card == input.card
           x == input.x
<1>1. /\ card \in Cards /\ x \in Percents /\ answer \in Plans /\ Honest(answer, card, x)
      /\ answer.eligible
      /\ answer.pathways = << >> =>
            \A k \in Able(card, x) : k \in answer.left \/ RoundedAway(card, Candidate[k], x)
      /\ (answer.pathways = << >> => answer.features = x)
  BY DEF RecourseInv
<1>2. input' = input /\ task' = "recourse" /\ answer' = answer /\ ~Going(answer)
  BY DEF Offer
<1>3. ASSUME answer.pathways = << >> PROVE \A k \in Able(card, x) : RoundedAway(card, Candidate[k], x)
  <2>1. answer.projected = answer.current /\ answer.current < Target /\ Len(answer.pathways) = 0
    BY <1>1, <1>3 DEF Honest
  <2>2. answer.projected < Target
    BY <2>1, <1>1, <1>3
  <2>3. 0 < MaxPathways
    BY EvaluationAssumption
  <2> QED
    BY <1>1, <1>2, <1>3, <2>1, <2>2, <2>3 DEF Going
<1> QED
  BY <1>1, <1>2, <1>3 DEF RecourseInv

\* An honest plan is what the borrower is told.
LEMMA RecoursePromise ==
  ASSUME RecourseInv
  PROVE  RecourseHonest
<1> SUFFICES ASSUME task = "recourse" PROVE RecourseHonest
  BY DEF RecourseHonest
<1> DEFINE card == input.card
           x == input.x
           ways == answer.pathways
<1>1. /\ card \in Cards /\ x \in Percents /\ answer \in Plans /\ Honest(answer, card, x)
      /\ answer.pathways = << >> /\ answer.eligible =>
            \A k \in Able(card, x) : RoundedAway(card, Candidate[k], x)
  BY DEF RecourseInv
<1>2. /\ answer.eligible = (answer.current < Target)
      /\ answer.projected = ScoreOf(card, Followed(ways, Len(ways), x))
      /\ Len(ways) <= MaxPathways
      /\ \A i \in DOMAIN ways : WayHonest(ways, i, card, x)
      /\ \A i, j \in DOMAIN ways : ways[i].feature = ways[j].feature => i = j
  BY <1>1 DEF Honest, NamedOnce
<1>3. ASSUME answer.eligible, ways = << >>, NEW i \in DOMAIN Candidate
      PROVE  \/ x[Candidate[i].feature] >= Candidate[i].below
             \/ Gain(card, Candidate[i], x) <= 0
             \/ RoundedAway(card, Candidate[i], x)
  <2>7. DOMAIN Candidate = 1 .. 7
    BY CandidateShape
  <2>1. i \in 1 .. 7 /\ (i \in Able(card, x) => RoundedAway(card, Candidate[i], x))
    BY <1>1, <1>3, <2>7
  <2>2. \/ ~(x[Candidate[i].feature] < Candidate[i].below)
        \/ ~(Gain(card, Candidate[i], x) > 0)
        \/ RoundedAway(card, Candidate[i], x)
    BY <1>3, <2>1 DEF Able
  <2>3. Candidate[i].feature \in Features /\ Candidate[i].below \in Int
    BY <2>1, CandidateShape
  <2>4. x[Candidate[i].feature] \in Int
    BY <1>1, <2>3 DEF Percents
  <2>5. Raised(x, Candidate[i], TargetOf(Candidate[i], x)) \in Percents
    <3>1. TargetOf(Candidate[i], x) \in 0 .. Full
      BY <1>1, <2>1, TargetType
    <3> QED
      BY <1>1, <2>1, <3>1, RaisedType
  <2>6. Gain(card, Candidate[i], x) \in Int
    BY <1>1, <2>5, ScoreType DEF Gain
  <2> QED
    BY <2>2, <2>3, <2>4, <2>6
<1> QED
  BY <1>2, <1>3 DEF RecourseHonest, WayHonest

(***************************************************************************)
(* The recourse keeps its promise (RecourseHonest): for every set of       *)
(* additive cards, every borrower, target and number of pathways, and      *)
(* whichever way a target half-way between two is rounded.                 *)
(***************************************************************************)
THEOREM RecourseHonestCorrect == EvaluationSpec => []RecourseHonest
<1>1. EvaluationInit => RecourseInv
  BY EvaluationAssumption DEF EvaluationInit, RecourseInv
<1>2. RecourseInv /\ [EvaluationNext]_evaluationVars => RecourseInv'
  <2> SUFFICES ASSUME RecourseInv, [EvaluationNext]_evaluationVars PROVE RecourseInv'
    OBVIOUS
  <2>1. CASE FitFeature
    BY <2>1 DEF FitFeature, RecourseInv
  <2>2. CASE CalculatePsi
    BY <2>2 DEF CalculatePsi, RecourseInv
  <2>3. CASE Judge
    BY <2>3 DEF Judge, RecourseInv
  <2>4. CASE GenerateRecourse
    <3>1. PICK card \in Cards, x \in Borrowers :
             /\ task' = IF ScoreOf(card, x) < Target THEN "planning" ELSE "recourse"
             /\ input' = [card |-> card, x |-> x]
             /\ answer' = NoPlan(card, x)
      BY <2>4 DEF GenerateRecourse
    <3>2. x \in Percents
      <4>1. x \in [Features -> Amounts] /\ Amounts \subseteq 0 .. Full
        BY EvaluationAssumption DEF Borrowers
      <4> QED
        BY <4>1 DEF Percents
    <3>3. PICK p : p = NoPlan(card, x)
      OBVIOUS
    <3>4. /\ p \in Plans /\ Honest(p, card, x) /\ p.pathways = << >> /\ p.features = x
          /\ p.eligible = (ScoreOf(card, x) < Target)
          /\ (p.eligible => p.left = Able(card, x))
      BY <3>2, <3>3, RecourseStart
    <3>5. input'.card = card /\ input'.x = x /\ answer' = p
      BY <3>1, <3>3
    <3>6. CASE ScoreOf(card, x) < Target
      BY <3>1, <3>2, <3>4, <3>5, <3>6 DEF RecourseInv
    <3>7. CASE ~(ScoreOf(card, x) < Target)
      BY <3>1, <3>2, <3>4, <3>5, <3>7 DEF RecourseInv
    <3> QED
      BY <3>6, <3>7
  <2>5. CASE task = "planning" /\ Consider
    BY <2>5, ConsiderStep
  <2>6. CASE task = "planning" /\ Offer
    BY <2>6, OfferStep
  <2>7. CASE UNCHANGED evaluationVars
    BY <2>7 DEF evaluationVars, RecourseInv
  <2> QED
    BY <2>1, <2>2, <2>3, <2>4, <2>5, <2>6, <2>7 DEF EvaluationNext
<1>3. RecourseInv => RecourseHonest
  BY RecoursePromise
<1> QED
  BY <1>1, <1>2, <1>3, PTL DEF EvaluationSpec
=============================================================================

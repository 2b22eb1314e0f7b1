------------------------------ MODULE Database ------------------------------
(***************************************************************************)
(* The SQLite file (credittech.db, the default of config.py) and the       *)
(* programs that create, fill, drop, copy and replace it: Alembic's        *)
(* baseline migration, init_db (database.py, audit_triggers.py), which API *)
(* processes call when they start, the seeding scripts, and the scripts    *)
(* that back up and restore (ops/dr.py).                                   *)
(*                                                                         *)
(* SQLite commits every CREATE and DROP by itself, and the driver begins a *)
(* transaction only at the first INSERT and then holds the write lock: a   *)
(* schema change is one step per table, a seeder's inserts are one step.   *)
(* create_all and drop_all look once which tables are there, and fail when *)
(* a table has come or gone by the time its statement runs.                *)
(*                                                                         *)
(* A program is a sequence of phases.  Rows are kept as pairs of a dataset *)
(* and a table: the rows a seeder puts in a table come and go together.    *)
(***************************************************************************)
EXTENDS Naturals, Sequences, FiniteSets

CONSTANTS
    Api,            \* starts of an API process
    Script,         \* runs of a script by the operator, one at a time
    Program,        \* the phases each of them goes through
    TableOrder,     \* the tables of the ORM in the order of sorted_tables
    MaxScripts,     \* bound on the scripts the operator runs
    Null            \* no value

ORMTable == {
    "villages", "borrowers", "fairness_audit_log", "consent_records",
    "data_pulls", "feature_snapshots", "consent_audit_log", "scores",
    "loan_applications", "reason_codes", "grievances", "officer_decision_log",
    "repayment_records", "grievance_audit_log"}

Table == {TableOrder[i] : i \in DOMAIN TableOrder}

Parents == [t \in ORMTable |->
    CASE t \in {"villages", "fairness_audit_log"} -> {}
      [] t = "borrowers" -> {"villages"}
      [] t \in {"consent_records", "data_pulls", "feature_snapshots"} -> {"borrowers"}
      [] t = "consent_audit_log" -> {"consent_records"}
      [] t = "scores" -> {"borrowers", "feature_snapshots"}
      [] t = "loan_applications" -> {"borrowers", "scores"}
      [] t = "reason_codes" -> {"scores"}
      [] t = "grievances" -> {"borrowers", "scores", "loan_applications"}
      [] t = "officer_decision_log" -> {"scores", "loan_applications"}
      [] t = "repayment_records" -> {"loan_applications"}
      [] OTHER -> {"grievances"}]

APPEND_ONLY_TABLES == Table \cap {"officer_decision_log", "grievance_audit_log"}

\* The migration is older than the audit logs of officers and grievances and
\* than the status column of the fairness log.
Migrated == Table \ (APPEND_ONLY_TABLES \cup {"grievances"})

Form(t) == IF t = "fairness_audit_log" THEN "outdated" ELSE "current"

GoldenPeople == {"villages", "borrowers"}
GoldenConsents == {"consent_records", "consent_audit_log"}
GoldenScores == {"feature_snapshots", "scores", "reason_codes"}
GoldenCases == {"loan_applications", "officer_decision_log", "grievances",
                "grievance_audit_log", "fairness_audit_log"}

LocalPeople == {"villages", "borrowers"}
LocalScores == {"consent_records", "feature_snapshots", "scores", "reason_codes"}
LocalCases == {"loan_applications", "officer_decision_log", "grievances",
               "grievance_audit_log", "fairness_audit_log"}

\* The tables a dataset puts rows into.
Content ==
    [golden |-> Table \cap (GoldenPeople \cup GoldenConsents \cup GoldenScores \cup GoldenCases),
     local  |-> Table \cap (LocalPeople \cup LocalScores \cup LocalCases)]

Dataset == {"golden", "local"}

Phase == {"drop", "create", "guard", "migrate", "golden", "local", "early",
          "backup", "restore", "serve"}

Process == Api \cup Script

File == [schema: [Table -> {"absent", "outdated", "current"}],
         guarded: SUBSET Table,
         rows: SUBSET (Dataset \X Table),
         stamped: BOOLEAN]

\* init_db installs the triggers after it has created the tables.
Initialises(program) ==
    \A i \in 1..Len(program) : program[i] = "create" =>
        i < Len(program) /\ program[i + 1] = "guard"

ASSUME DatabaseAssumption ==
    /\ Api \cap Script = {}
    /\ \A p \in Api : Program[p] \in Seq({"migrate", "create", "guard", "serve"})
    /\ IsFiniteSet(Script) /\ MaxScripts \in Nat
    /\ \A S \in SUBSET Table : S # Null
    /\ TableOrder \in Seq(ORMTable)
    /\ \A i, j \in DOMAIN TableOrder :
        /\ TableOrder[i] = TableOrder[j] => i = j
        /\ TableOrder[i] \in Parents[TableOrder[j]] => i < j
    /\ {"villages", "borrowers"} \subseteq Table
    /\ Program \in [Process -> Seq(Phase)]
    /\ \A p \in Process : Program[p] # <<>> /\ Initialises(Program[p])

VARIABLES
    file,           \* credittech.db, Null while it is being overwritten
    backup,         \* the last backup
    left,           \* the phases a process still has to go through
    todo,           \* the tables its phase still has to handle, Null before it looked
    ended,          \* how a process has ended
    interrupted     \* auxiliary: an initialisation was cut short, copied half-way or
                    \* met a reset, a restore or a migration

vars == <<file, backup, left, todo, ended, interrupted>>

TypeOK ==
    /\ file \in {Null} \cup File
    /\ backup \in {Null} \cup File
    /\ left \in [Process -> Seq(Phase)]
    /\ todo \in [Process -> {Null} \cup SUBSET Table]
    /\ ended \in [Process -> {"no", "done", "failed", "crashed"}]
    /\ interrupted \in BOOLEAN

Empty == [schema |-> [t \in Table |-> "absent"], guarded |-> {}, rows |-> {}, stamped |-> FALSE]

Init ==
    /\ file = Empty
    /\ backup = Null
    /\ left = Program
    /\ todo = [p \in Process |-> Null]
    /\ ended = [p \in Process |-> "no"]
    /\ interrupted = FALSE

-----------------------------------------------------------------------------
Exists(db, t) == db.schema[t] # "absent"

Started(p) == left[p] # Program[p] \/ todo[p] # Null \/ ended[p] # "no"

Running(p) == Started(p) /\ ended[p] = "no"

\* The operator starts a script when the one before has ended.
May(p) ==
    /\ ended[p] = "no"
    /\ p \in Script =>
        /\ \A q \in Script \ {p} : ~Running(q)
        /\ Cardinality({q \in Script \ {p} : Started(q)}) < MaxScripts

Created(db, t, form) == [db EXCEPT !.schema[t] = form]

\* A table goes with its rows and its triggers.
Dropped(db, t) ==
    [db EXCEPT !.schema[t] = "absent",
               !.guarded = @ \ {t},
               !.rows = {r \in @ : r[2] # t}]

\* Seeded fault for Guarded: both tables use one trigger name.
GuardedOnce(db, t) ==
    [db EXCEPT !.guarded = IF @ = {} THEN {t} ELSE @]

Guarded(db, t) == [db EXCEPT !.guarded = @ \cup {t}]

Filled(db, d) == [db EXCEPT !.rows = @ \cup ({d} \X Content[d])]

\* The inserts of a dataset name columns the outdated form does not have.
Fits(db, d) == \A t \in Content[d] : db.schema[t] = "current"

IsFirst(t, S) == t \in S /\ \E i \in DOMAIN TableOrder :
    TableOrder[i] = t /\ \A j \in DOMAIN TableOrder : TableOrder[j] \in S => i <= j

\* Seeded fault for IsLast: drop_all goes through the tables as create_all does.
IsLastForward(t, S) == IsFirst(t, S)

IsLast(t, S) == t \in S /\ \E i \in DOMAIN TableOrder :
    TableOrder[i] = t /\ \A j \in DOMAIN TableOrder : TableOrder[j] \in S => j <= i

\* An initialisation that is under way.
Initialising(p) == Running(p) /\ \E i \in 1..Len(left[p]) : left[p][i] = "guard"

Enters(p, phase) ==
    /\ May(p)
    /\ file # Null
    /\ Head(left[p]) = phase

\* The phase goes on with the tables S, or the next one begins.
Continues(p, S) ==
    IF S # {}
    THEN /\ todo' = [todo EXCEPT ![p] = S]
         /\ UNCHANGED <<left, ended>>
    ELSE /\ todo' = [todo EXCEPT ![p] = Null]
         /\ left' = [left EXCEPT ![p] = Tail(left[p])]
         /\ ended' = [ended EXCEPT ![p] = IF Len(left[p]) = 1 THEN "done" ELSE "no"]

Fails(p) ==
    /\ ended' = [ended EXCEPT ![p] = "failed"]
    /\ UNCHANGED <<left, todo>>

-----------------------------------------------------------------------------
\* reset_database and init_db, looking: which tables are there?  Only the
\* reset removes tables, so its statements find what it has seen.
DropScan(p) ==
    /\ Enters(p, "drop") /\ todo[p] = Null
    /\ Continues(p, {t \in Table : Exists(file, t)})
    /\ UNCHANGED <<file, backup, interrupted>>

CreateScan(p) ==
    /\ Enters(p, "create") /\ todo[p] = Null
    /\ Continues(p, {t \in Table : ~Exists(file, t)})
    /\ UNCHANGED <<file, backup, interrupted>>

GuardScan(p) ==
    /\ Enters(p, "guard") /\ todo[p] = Null
    /\ Continues(p, APPEND_ONLY_TABLES)
    /\ UNCHANGED <<file, backup, interrupted>>

\* A database with Alembic's stamp is left alone; drop_all does not remove the
\* stamp, whose table it does not know.
MigrateScan(p) ==
    /\ Enters(p, "migrate") /\ todo[p] = Null
    /\ Continues(p, IF file.stamped THEN {} ELSE Migrated)
    /\ UNCHANGED <<file, backup, interrupted>>

DropNext(p) ==
    /\ Enters(p, "drop") /\ todo[p] # Null
    /\ \E t \in todo[p] :
        /\ IsLast(t, todo[p])
        /\ file' = Dropped(file, t)
        /\ Continues(p, todo[p] \ {t})
    /\ interrupted' = (interrupted \/ \E q \in Process \ {p} : Initialising(q))
    /\ UNCHANGED backup

CreateNext(p) ==
    /\ Enters(p, "create") /\ todo[p] # Null
    /\ \E t \in todo[p] :
        /\ IsFirst(t, todo[p])
        /\ \/ /\ ~Exists(file, t)
              /\ file' = Created(file, t, "current")
              /\ Continues(p, todo[p] \ {t})
           \/ /\ Exists(file, t)
              /\ Fails(p)
              /\ UNCHANGED file
    /\ UNCHANGED <<backup, interrupted>>

\* install_append_only_triggers: CREATE TRIGGER IF NOT EXISTS on each table.
GuardNext(p) ==
    /\ Enters(p, "guard") /\ todo[p] # Null
    /\ \E t \in todo[p] :
        /\ IsFirst(t, todo[p])
        /\ \/ /\ Exists(file, t)
              /\ file' = Guarded(file, t)
              /\ Continues(p, todo[p] \ {t})
           \/ /\ ~Exists(file, t)
              /\ Fails(p)
              /\ UNCHANGED file
    /\ UNCHANGED <<backup, interrupted>>

\* The stamp follows the last table.
MigrateNext(p) ==
    /\ Enters(p, "migrate") /\ todo[p] # Null
    /\ \E t \in todo[p] :
        /\ IsFirst(t, todo[p])
        /\ \/ /\ ~Exists(file, t)
              /\ file' = [Created(file, t, Form(t)) EXCEPT !.stamped = (todo[p] = {t})]
              /\ Continues(p, todo[p] \ {t})
           \/ /\ Exists(file, t)
              /\ Fails(p)
              /\ UNCHANGED file
    /\ interrupted' = (interrupted \/ \E q \in Process \ {p} : Initialising(q))
    /\ UNCHANGED backup

\* seed_golden_dataset has fixed keys: a second run fails, as does one on a
\* schema its inserts do not fit, and nothing of it stays.
GoldenSeed(p) ==
    /\ Enters(p, "golden")
    /\ \/ /\ Fits(file, "golden")
          /\ \A t \in Content["golden"] : <<"golden", t>> \notin file.rows
          /\ file' = Filled(file, "golden")
          /\ Continues(p, {})
       \/ /\ ~Fits(file, "golden")
             \/ \E t \in Content["golden"] : <<"golden", t>> \in file.rows
          /\ Fails(p)
          /\ UNCHANGED file
    /\ UNCHANGED <<backup, interrupted>>

\* seed_local_db looks for any village and skips everything when there is one.
LocalLook(p) ==
    /\ Enters(p, "local") /\ todo[p] = Null
    /\ \/ /\ \E d \in Dataset : <<d, "villages">> \in file.rows
          /\ Continues(p, {})
       \/ /\ \A d \in Dataset : <<d, "villages">> \notin file.rows
          /\ Continues(p, Content["local"])
    /\ UNCHANGED <<file, backup, interrupted>>

\* Its keys are random, but not the Aadhaar hashes of its borrowers.
LocalSeed(p) ==
    /\ Enters(p, "local") /\ todo[p] # Null
    /\ \/ /\ Fits(file, "local")
          /\ <<"local", "borrowers">> \notin file.rows
          /\ file' = Filled(file, "local")
          /\ Continues(p, {})
       \/ /\ ~Fits(file, "local") \/ <<"local", "borrowers">> \in file.rows
          /\ Fails(p)
          /\ UNCHANGED file
    /\ UNCHANGED <<backup, interrupted>>

\* seed_early_adopters reads calibrated_score, which is bound nowhere, for its
\* first profile: its transaction, villages included, is rolled back.
EarlySeed(p) ==
    /\ Enters(p, "early")
    /\ Fails(p)
    /\ UNCHANGED <<file, backup, interrupted>>

Bare(db) == {t \in APPEND_ONLY_TABLES : Exists(db, t)} \ db.guarded

\* The copy is taken at one moment, whatever is being written.
Backup(p) ==
    /\ Enters(p, "backup")
    /\ backup' = file
    /\ Continues(p, {})
    /\ interrupted' = (interrupted \/ Bare(file) # {})
    /\ UNCHANGED file

\* shutil.copy truncates the file and fills it; nobody's lock is asked for.
RestoreOpen(p) ==
    /\ May(p) /\ Head(left[p]) = "restore" /\ todo[p] = Null
    /\ \/ /\ backup # Null
          /\ file' = Null
          /\ todo' = [todo EXCEPT ![p] = {}]
          /\ UNCHANGED <<left, ended>>
       \/ /\ backup = Null
          /\ Fails(p)
          /\ UNCHANGED file
    /\ UNCHANGED <<backup, interrupted>>

RestoreEnd(p) ==
    /\ May(p) /\ Head(left[p]) = "restore" /\ todo[p] # Null
    /\ file' = backup
    /\ Continues(p, {})
    /\ interrupted' = (interrupted \/ \E q \in Process \ {p} : Initialising(q))
    /\ UNCHANGED backup

\* A program that meets a file in the middle of a copy cannot read it.
Unreadable(p) ==
    /\ May(p) /\ file = Null
    /\ Head(left[p]) \notin {"restore", "serve"}
    /\ Fails(p)
    /\ UNCHANGED <<file, backup, interrupted>>

\* A program is killed, or finds the database locked for too long.
Crash(p) ==
    /\ Running(p)
    /\ ended' = [ended EXCEPT ![p] = "crashed"]
    /\ interrupted' = (interrupted \/ Initialising(p))
    /\ UNCHANGED <<file, backup, left, todo>>

Initialise(p) ==
    \/ DropScan(p) \/ DropNext(p) \/ CreateScan(p) \/ CreateNext(p)
    \/ GuardScan(p) \/ GuardNext(p) \/ MigrateScan(p) \/ MigrateNext(p)

Seed(p) == GoldenSeed(p) \/ LocalLook(p) \/ LocalSeed(p) \/ EarlySeed(p)

Operate(p) == Backup(p) \/ RestoreOpen(p) \/ RestoreEnd(p) \/ Unreadable(p) \/ Crash(p)

Next == \E p \in Process : Initialise(p) \/ Seed(p) \/ Operate(p)

Spec == Init /\ [][Next]_vars

-----------------------------------------------------------------------------
\* Every row a seeder left has its parents, whatever was dropped, restored,
\* killed or run twice, although SQLite checks no foreign key here: seeders
\* insert in one transaction, and drop_all drops children first.
ParentsPresent ==
    \A db \in {file, backup} \ {Null} : \A r \in db.rows :
        \A q \in Parents[r[2]] \cap Content[r[1]] : <<r[1], q>> \in db.rows

\* An audit table without its triggers is one that a running program is about
\* to guard.  API processes and scripts may create tables under each other and
\* fail on what the other created: one of them always gets to the triggers,
\* because they create in one order, unless it is killed, the file is copied
\* or replaced half-way, or a migration runs beside it: the migration leaves
\* out some tables, and each of two initialisations may fail on a table that
\* it, or the other, has put behind the one left without triggers.
AuditGuarded ==
    ~interrupted /\ file # Null /\ Bare(file) # {} => \E p \in Process : Initialising(p)
=============================================================================

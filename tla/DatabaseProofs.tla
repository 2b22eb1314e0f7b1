--------------------------- MODULE DatabaseProofs ---------------------------
(***************************************************************************)
(* Theorems of Database: for any programs of the scripts, any order of the *)
(* tables that puts parents first, and any number of API processes.        *)
(***************************************************************************)
EXTENDS Database, SequenceTheorems, TLAPS

ApiPhase == {"migrate", "create", "guard", "serve"}

\* A process that has not ended has a phase to go through, and API processes
\* only initialise and serve.
LeftInv ==
    /\ \A p \in Process : ended[p] = "no" => left[p] # <<>>
    /\ \A p \in Api : left[p] \in Seq(ApiPhase)

\* At most one script runs.
Alone == \A p, q \in Script : Running(p) /\ Running(q) => p = q

\* Rows are in tables that exist.
RowsThere(db) == \A r \in db.rows : Exists(db, r[2])

\* The rows of a database have their parents.
Sound(db) == \A r \in db.rows :
    \A q \in Parents[r[2]] \cap Content[r[1]] : <<r[1], q>> \in db.rows

FileInv == file # Null => RowsThere(file) /\ Sound(file)

BackupInv == backup # Null => RowsThere(backup) /\ Sound(backup)

\* A reset has yet to drop every table that has rows: the scripts that could
\* fill a table do not run beside it.
DropInv == \A p \in Process :
    /\ ended[p] = "no" /\ Head(left[p]) = "drop" /\ todo[p] # Null /\ file # Null
    => \A r \in file.rows : r[2] \in todo[p]

DatabaseInv ==
    TypeOK /\ LeftInv /\ Alone /\ FileInv /\ BackupInv /\ DropInv

-----------------------------------------------------------------------------
LEMMA Names ==
    /\ Table \subseteq ORMTable
    /\ \A d \in Dataset : Content[d] \subseteq Table
    /\ APPEND_ONLY_TABLES \subseteq Table
    /\ Migrated \subseteq Table
<1>1. Table \subseteq ORMTable
  BY DatabaseAssumption DEF Table
<1>2. \A d \in Dataset : Content[d] \subseteq Table
  BY DEF Dataset, Content
<1> QED
  BY <1>1, <1>2 DEF APPEND_ONLY_TABLES, Migrated

\* What a phase does to a process keeps its variables typed.
LEMMA Moves ==
  ASSUME TypeOK, LeftInv, NEW p \in Process, ended[p] = "no",
         NEW S \in SUBSET Table, Continues(p, S) \/ Fails(p)
  PROVE  /\ left' \in [Process -> Seq(Phase)]
         /\ todo' \in [Process -> {Null} \cup SUBSET Table]
         /\ ended' \in [Process -> {"no", "done", "failed", "crashed"}]
         /\ LeftInv'
         /\ \A q \in Process \ {p} :
                left'[q] = left[q] /\ todo'[q] = todo[q] /\ ended'[q] = ended[q]
<1>1. left[p] \in Seq(Phase) /\ left[p] # <<>>
  BY DEF TypeOK, LeftInv
<1>2. CASE Fails(p)
  BY <1>2 DEF Fails, TypeOK, LeftInv
<1>3. CASE Continues(p, S) /\ S # {}
  BY <1>3 DEF Continues, TypeOK, LeftInv
<1>4. CASE Continues(p, S) /\ S = {}
  <2>1. /\ todo' = [todo EXCEPT ![p] = Null]
        /\ left' = [left EXCEPT ![p] = Tail(left[p])]
        /\ ended' = [ended EXCEPT ![p] = IF Len(left[p]) = 1 THEN "done" ELSE "no"]
    BY <1>4 DEF Continues
  <2>2. Tail(left[p]) \in Seq(Phase)
    BY <1>1
  <2>3. p \in Api => Tail(left[p]) \in Seq(ApiPhase)
    BY <1>1 DEF LeftInv
  <2>4. Len(left[p]) # 1 => Tail(left[p]) # <<>>
    <3>1. Len(left[p]) \in Nat \ {0} /\ Len(Tail(left[p])) = Len(left[p]) - 1
      BY <1>1, EmptySeq, HeadTailProperties
    <3>2. Len(<<>>) = 0
      BY EmptySeq
    <3>3. Len(left[p]) # 1 => Len(Tail(left[p])) # Len(<<>>)
      BY <3>1, <3>2
    <3> QED
      BY <3>3, Zenon
  <2>5. left' \in [Process -> Seq(Phase)] /\ \A q \in Process \ {p} : left'[q] = left[q]
    BY <2>1, <2>2 DEF TypeOK
  <2>6. left'[p] = Tail(left[p])
    BY <2>1 DEF TypeOK
  <2>7. LeftInv'
    <3>1. \A q \in Process : ended'[q] = "no" => left'[q] # <<>>
      BY <2>1, <2>4, <2>5, <2>6 DEF LeftInv, TypeOK
    <3>2. \A q \in Api : left'[q] \in Seq(ApiPhase)
      BY <2>3, <2>5, <2>6 DEF LeftInv, Process
    <3> QED
      BY <3>1, <3>2 DEF LeftInv
  <2> QED
    BY <2>1, <2>5, <2>7 DEF TypeOK
<1> QED
  BY <1>2, <1>3, <1>4

\* A step of p that keeps to Moves is alone if p was free to act.
LEMMA StaysAlone ==
  ASSUME TypeOK, Alone, NEW p \in Process, May(p),
         \A q \in Process \ {p} :
             left'[q] = left[q] /\ todo'[q] = todo[q] /\ ended'[q] = ended[q]
  PROVE  Alone'
<1>1. \A q \in Process \ {p} : Running(q)' <=> Running(q)
  BY DEF Running, Started
<1>2. p \in Script => \A q \in Script \ {p} : ~Running(q)
  BY DEF May
<1>3. Script \subseteq Process
  BY DEF Process
<1> QED
  BY <1>1, <1>2, <1>3 DEF Alone

\* Every step keeps the variables typed and the scripts apart.
LEMMA Frame ==
  ASSUME TypeOK, LeftInv, Alone, [Next]_vars
  PROVE  TypeOK' /\ LeftInv' /\ Alone'
<1> USE Names
<1>1. CASE UNCHANGED vars
  BY <1>1 DEF vars, TypeOK, LeftInv, Alone, Running, Started
<1>2. ASSUME NEW p \in Process, Initialise(p) \/ Seed(p) \/ Operate(p)
      PROVE  TypeOK' /\ LeftInv' /\ Alone'
  <2>1. ASSUME NEW S \in SUBSET Table, Continues(p, S) \/ Fails(p), May(p),
               file' \in {Null} \cup File, backup' \in {Null} \cup File,
               interrupted' \in BOOLEAN
        PROVE  TypeOK' /\ LeftInv' /\ Alone'
    <3>1. ended[p] = "no"
      BY <2>1 DEF May
    <3> QED
      BY <2>1, <3>1, Moves, StaysAlone DEF TypeOK
  <2>2. file # Null => file \in File
    BY DEF TypeOK
  <2>3. CASE DropScan(p) \/ CreateScan(p) \/ GuardScan(p) \/ MigrateScan(p)
    <3>1. PICK S \in SUBSET Table : Continues(p, S)
      BY <2>3 DEF DropScan, CreateScan, GuardScan, MigrateScan
    <3>2. May(p) /\ UNCHANGED <<file, backup, interrupted>>
      BY <2>3 DEF DropScan, CreateScan, GuardScan, MigrateScan, Enters
    <3> QED
      BY <2>1, <3>1, <3>2 DEF TypeOK
  <2>4. CASE DropNext(p)
    <3>1. PICK t \in todo[p] : file' = Dropped(file, t) /\ Continues(p, todo[p] \ {t})
      BY <2>4 DEF DropNext
    <3>2. May(p) /\ file \in File /\ todo[p] \in SUBSET Table
      BY <2>2, <2>4 DEF DropNext, Enters, TypeOK
    <3>3. Dropped(file, t) \in File
      BY <3>1, <3>2 DEF Dropped, File
    <3>4. interrupted' \in BOOLEAN /\ backup' = backup
      BY <2>4 DEF DropNext, TypeOK
    <3> QED
      BY <2>1, <3>1, <3>2, <3>3, <3>4 DEF TypeOK
  <2>5. ASSUME NEW t \in Table, file \in File
        PROVE  /\ Created(file, t, "current") \in File
               /\ Guarded(file, t) \in File
               /\ [Created(file, t, Form(t)) EXCEPT !.stamped = (todo[p] = {t})] \in File
    BY <2>5 DEF Created, Guarded, File, Form
  <2>6. CASE CreateNext(p) \/ GuardNext(p) \/ MigrateNext(p)
    <3>1. May(p) /\ file \in File /\ todo[p] \in SUBSET Table
      BY <2>2, <2>6 DEF CreateNext, GuardNext, MigrateNext, Enters, TypeOK
    <3>2. interrupted' \in BOOLEAN /\ backup' = backup
      BY <2>6 DEF CreateNext, GuardNext, MigrateNext, TypeOK
    <3>3. PICK t \in todo[p] :
             /\ \/ file' = file
                \/ file' = Created(file, t, "current")
                \/ file' = Guarded(file, t)
                \/ file' = [Created(file, t, Form(t)) EXCEPT !.stamped = (todo[p] = {t})]
             /\ Continues(p, todo[p] \ {t}) \/ Fails(p)
      BY <2>6 DEF CreateNext, GuardNext, MigrateNext
    <3>4. t \in Table
      BY <3>1, <3>3
    <3>5. file' \in File
      <4>1. /\ Created(file, t, "current") \in File
            /\ Guarded(file, t) \in File
            /\ [Created(file, t, Form(t)) EXCEPT !.stamped = (todo[p] = {t})] \in File
        BY <2>5, <3>1, <3>4
      <4> QED
        BY <3>1, <3>3, <4>1
    <3>6. PICK S \in SUBSET Table : Continues(p, S) \/ Fails(p)
      BY <3>1, <3>3
    <3> QED
      BY <2>1, <3>1, <3>2, <3>5, <3>6 DEF TypeOK
  <2>7. CASE Seed(p)
    <3>1. May(p) /\ interrupted' = interrupted /\ backup' = backup
      BY <2>7 DEF Seed, GoldenSeed, LocalLook, LocalSeed, EarlySeed, Enters
    <3>2. PICK S \in SUBSET Table : Continues(p, S) \/ Fails(p)
      BY <2>7 DEF Seed, GoldenSeed, LocalLook, LocalSeed, EarlySeed, Dataset
    <3>3. file \in File /\ (file' = file \/ \E d \in Dataset : file' = Filled(file, d))
      BY <2>2, <2>7 DEF Seed, GoldenSeed, LocalLook, LocalSeed, EarlySeed, Dataset, Enters
    <3>4. \A d \in Dataset : Filled(file, d) \in File
      BY <3>3 DEF Filled, File
    <3> QED
      BY <2>1, <3>1, <3>2, <3>3, <3>4 DEF TypeOK
  <2>8. CASE Backup(p)
    <3>1. May(p) /\ file' = file /\ backup' = file /\ interrupted' \in BOOLEAN /\ Continues(p, {})
      BY <2>8 DEF Backup, Enters, TypeOK
    <3> QED
      BY <2>1, <3>1 DEF TypeOK
  <2>9. CASE RestoreOpen(p)
    <3>1. May(p) /\ backup' = backup /\ interrupted' = interrupted
      BY <2>9 DEF RestoreOpen
    <3>2. CASE Fails(p) /\ file' = file
      BY <2>1, <3>1, <3>2 DEF TypeOK
    <3>3. CASE file' = Null /\ todo' = [todo EXCEPT ![p] = {}] /\ UNCHANGED <<left, ended>>
      <4>1. TypeOK' /\ LeftInv'
        BY <3>1, <3>3 DEF TypeOK, LeftInv
      <4>2. \A q \in Process \ {p} :
               left'[q] = left[q] /\ todo'[q] = todo[q] /\ ended'[q] = ended[q]
        BY <3>3 DEF TypeOK
      <4> QED
        BY <3>1, <4>1, <4>2, StaysAlone
    <3> QED
      BY <2>9, <3>2, <3>3 DEF RestoreOpen
  <2>10. CASE RestoreEnd(p)
    <3>1. May(p) /\ file' = backup /\ backup' = backup /\ interrupted' \in BOOLEAN /\ Continues(p, {})
      BY <2>10 DEF RestoreEnd, TypeOK
    <3> QED
      BY <2>1, <3>1 DEF TypeOK
  <2>11. CASE Unreadable(p)
    <3>1. May(p) /\ UNCHANGED <<file, backup, interrupted>> /\ Fails(p)
      BY <2>11 DEF Unreadable
    <3> QED
      BY <2>1, <3>1 DEF TypeOK
  <2>12. CASE Crash(p)
    <3>1. /\ UNCHANGED <<file, backup, left, todo>>
          /\ ended' = [ended EXCEPT ![p] = "crashed"]
          /\ interrupted' \in BOOLEAN
      BY <2>12 DEF Crash, TypeOK
    <3>2. TypeOK' /\ LeftInv'
      BY <3>1 DEF TypeOK, LeftInv
    <3>3. \A q \in Process : Running(q)' => Running(q)
      BY <3>1 DEF Running, Started, TypeOK
    <3>4. Alone'
      BY <3>3 DEF Alone, Process
    <3> QED
      BY <3>2, <3>4
  <2> QED
    BY <1>2, <2>3, <2>4, <2>6, <2>7, <2>8, <2>9, <2>10, <2>11, <2>12 DEF Initialise, Operate
<1> QED
  BY <1>1, <1>2 DEF Next

-----------------------------------------------------------------------------
\* What a step makes of a database keeps its rows in tables and their parents.
LEMMA Grows ==
  ASSUME NEW db \in File, RowsThere(db), Sound(db), NEW t \in Table,
         NEW form \in {"outdated", "current"}, NEW b \in BOOLEAN
  PROVE  /\ RowsThere(Created(db, t, form)) /\ Sound(Created(db, t, form))
         /\ RowsThere(Guarded(db, t)) /\ Sound(Guarded(db, t))
         /\ RowsThere([Created(db, t, form) EXCEPT !.stamped = b])
         /\ Sound([Created(db, t, form) EXCEPT !.stamped = b])
<1>1. \A r \in db.rows : r[2] \in Table
  BY DEF File
<1>2. RowsThere(Created(db, t, form)) /\ Sound(Created(db, t, form))
  <2>1. /\ Created(db, t, form).rows = db.rows
        /\ \A u \in Table : Created(db, t, form).schema[u] = IF u = t THEN form ELSE db.schema[u]
    BY DEF Created, File
  <2> QED
    BY <1>1, <2>1 DEF RowsThere, Sound, Exists
<1>3. RowsThere(Guarded(db, t)) /\ Sound(Guarded(db, t))
  <2>1. Guarded(db, t).rows = db.rows /\ Guarded(db, t).schema = db.schema
    BY DEF Guarded, File
  <2> QED
    BY <2>1 DEF RowsThere, Sound, Exists
<1>4. /\ RowsThere([Created(db, t, form) EXCEPT !.stamped = b])
      /\ Sound([Created(db, t, form) EXCEPT !.stamped = b])
  <2> DEFINE c == Created(db, t, form)
  <2>1. [c EXCEPT !.stamped = b].rows = c.rows /\ [c EXCEPT !.stamped = b].schema = c.schema
    BY DEF Created, File
  <2> QED
    BY <1>2, <2>1 DEF RowsThere, Sound, Exists
<1> QED
  BY <1>2, <1>3, <1>4

LEMMA Fills ==
  ASSUME NEW db \in File, RowsThere(db), Sound(db), NEW d \in Dataset, Fits(db, d)
  PROVE  RowsThere(Filled(db, d)) /\ Sound(Filled(db, d))
<1>1. Filled(db, d).rows = db.rows \cup ({d} \X Content[d]) /\ Filled(db, d).schema = db.schema
  BY DEF Filled, File
<1>2. \A r \in {d} \X Content[d] : r[1] = d /\ r[2] \in Content[d]
  OBVIOUS
<1>3. \A q \in Content[d] : <<d, q>> \in {d} \X Content[d]
  OBVIOUS
<1>4. RowsThere(Filled(db, d))
  BY <1>1, <1>2 DEF RowsThere, Exists, Fits
<1>5. Sound(Filled(db, d))
  BY <1>1, <1>2, <1>3 DEF Sound
<1> QED
  BY <1>4, <1>5

\* Dropping the last of the tables that hold rows leaves no child behind.
LEMMA Drops ==
  ASSUME NEW db \in File, RowsThere(db), Sound(db), NEW S \in SUBSET Table,
         \A r \in db.rows : r[2] \in S, NEW t \in S, IsLast(t, S)
  PROVE  /\ RowsThere(Dropped(db, t)) /\ Sound(Dropped(db, t))
         /\ \A r \in Dropped(db, t).rows : r[2] \in S \ {t}
<1> DEFINE c == Dropped(db, t)
<1>1. /\ c.rows = {r \in db.rows : r[2] # t}
      /\ \A u \in Table \ {t} : c.schema[u] = db.schema[u]
  BY DEF Dropped, File
<1>2. \A r \in db.rows : r[2] \in Table /\ r = <<r[1], r[2]>>
  BY DEF File
<1>3. RowsThere(c)
  BY <1>1, <1>2 DEF RowsThere, Exists
<1>4. \A u \in S : t \notin Parents[u]
  <2>1. PICK i \in DOMAIN TableOrder :
           TableOrder[i] = t /\ \A j \in DOMAIN TableOrder : TableOrder[j] \in S => j <= i
    BY DEF IsLast
  <2>2. ASSUME NEW u \in S, t \in Parents[u] PROVE FALSE
    <3>1. PICK j \in DOMAIN TableOrder : TableOrder[j] = u
      BY DEF Table
    <3>2. i < j /\ j <= i
      BY <2>1, <2>2, <3>1, DatabaseAssumption
    <3>3. i \in Nat /\ j \in Nat
      BY DatabaseAssumption, LenProperties
    <3> QED
      BY <3>2, <3>3
  <2> QED
    BY <2>2
<1>5. Sound(c)
  <2>1. ASSUME NEW r \in c.rows, NEW q \in Parents[r[2]] \cap Content[r[1]]
        PROVE  <<r[1], q>> \in c.rows
    <3>1. r \in db.rows /\ <<r[1], q>> \in db.rows
      BY <1>1, <2>1 DEF Sound
    <3>2. q # t
      BY <1>4, <3>1, <2>1
    <3> QED
      BY <1>1, <3>1, <3>2
  <2> QED
    BY <2>1 DEF Sound
<1> QED
  BY <1>1, <1>3, <1>5

\* An API process creates tables and triggers, and touches no row.
LEMMA ApiKeepsRows ==
  ASSUME TypeOK, LeftInv, NEW p \in Api, Initialise(p) \/ Seed(p) \/ Operate(p)
  PROVE  /\ file' = file \/ (file # Null /\ file'.rows = file.rows)
         /\ backup' = backup
<1>1. ended[p] = "no" => Head(left[p]) \in ApiPhase
  BY HeadTailProperties DEF LeftInv, Process
<1>2. CASE DropNext(p) \/ DropScan(p) \/ Seed(p) \/ Backup(p) \/ RestoreOpen(p) \/ RestoreEnd(p)
  BY <1>1, <1>2 DEF DropNext, DropScan, Seed, GoldenSeed, LocalLook, LocalSeed, EarlySeed,
                    Backup, RestoreOpen, RestoreEnd, Enters, May, ApiPhase
<1>3. CASE CreateNext(p) \/ GuardNext(p) \/ MigrateNext(p)
  <2>1. file # Null /\ file \in File /\ backup' = backup
    BY <1>3 DEF CreateNext, GuardNext, MigrateNext, Enters, TypeOK
  <2>2. PICK t : \/ file' = file
                 \/ file' = Created(file, t, "current")
                 \/ file' = Guarded(file, t)
                 \/ file' = [Created(file, t, Form(t)) EXCEPT !.stamped = (todo[p] = {t})]
    BY <1>3 DEF CreateNext, GuardNext, MigrateNext
  <2>3. /\ Created(file, t, "current").rows = file.rows
        /\ Guarded(file, t).rows = file.rows
        /\ [Created(file, t, Form(t)) EXCEPT !.stamped = (todo[p] = {t})].rows = file.rows
    BY <2>1 DEF Created, Guarded, File
  <2> QED
    BY <2>1, <2>2, <2>3
<1>4. CASE CreateScan(p) \/ GuardScan(p) \/ MigrateScan(p) \/ Unreadable(p) \/ Crash(p)
  BY <1>4 DEF CreateScan, GuardScan, MigrateScan, Unreadable, Crash
<1> QED
  BY <1>2, <1>3, <1>4 DEF Initialise, Operate

\* A script that acts is the only one under way.
LEMMA ScriptsApart ==
  ASSUME Alone, NEW p \in Script, NEW q \in Process \ {p}, LeftInv, TypeOK,
         Initialise(p) \/ Seed(p) \/ Operate(p),
         ended[q] = "no", todo[q] # Null
  PROVE  q \in Api
<1>1. Running(q)
  BY DEF Running, Started
<1>2. CASE May(p)
  BY <1>1, <1>2 DEF May, Process
<1>3. CASE Crash(p)
  BY <1>1, <1>3 DEF Crash, Alone, Process
<1> QED
  BY <1>2, <1>3 DEF Initialise, Seed, Operate, DropScan, DropNext, CreateScan, CreateNext,
     GuardScan, GuardNext, MigrateScan, MigrateNext, GoldenSeed, LocalLook, LocalSeed,
     EarlySeed, Backup, RestoreOpen, RestoreEnd, Unreadable, Enters

\* A step of one process moves no other.
LEMMA OthersStay ==
  ASSUME TypeOK, NEW p \in Process, Initialise(p) \/ Seed(p) \/ Operate(p)
  PROVE  \A q \in Process \ {p} :
             left'[q] = left[q] /\ todo'[q] = todo[q] /\ ended'[q] = ended[q]
<1>1. \/ \E S : Continues(p, S)
      \/ Fails(p)
      \/ todo' = [todo EXCEPT ![p] = {}] /\ UNCHANGED <<left, ended>>
      \/ ended' = [ended EXCEPT ![p] = "crashed"] /\ UNCHANGED <<left, todo>>
  BY DEF Initialise, Seed, Operate, DropScan, DropNext, CreateScan, CreateNext,
     GuardScan, GuardNext, MigrateScan, MigrateNext, GoldenSeed, LocalLook, LocalSeed,
     EarlySeed, Backup, RestoreOpen, RestoreEnd, Unreadable, Crash
<1> QED
  BY <1>1 DEF Continues, Fails, TypeOK

LEMMA FilesStep ==
  ASSUME DatabaseInv, [Next]_vars
  PROVE  FileInv' /\ BackupInv' /\ DropInv'
<1> USE Names
<1>0. TypeOK /\ LeftInv /\ Alone /\ FileInv /\ BackupInv /\ DropInv
  BY DEF DatabaseInv
<1>1. CASE UNCHANGED vars
  BY <1>0, <1>1 DEF vars, FileInv, BackupInv, DropInv, RowsThere, Sound, Exists
<1>2. ASSUME NEW p \in Process, Initialise(p) \/ Seed(p) \/ Operate(p)
      PROVE  FileInv' /\ BackupInv' /\ DropInv'
  <2>1. file # Null => file \in File
    BY <1>0 DEF TypeOK
  <2>2. \A q \in Process \ {p} :
           left'[q] = left[q] /\ todo'[q] = todo[q] /\ ended'[q] = ended[q]
    BY <1>0, <1>2, OthersStay
  \* the drops of the other processes
  <2>3. ASSUME NEW q \in Process \ {p}, ended'[q] = "no", Head(left'[q]) = "drop",
               todo'[q] # Null, file' # Null
        PROVE  \A r \in file'.rows : r[2] \in todo'[q]
    <3>1. ended[q] = "no" /\ Head(left[q]) = "drop" /\ todo[q] # Null
      BY <2>2, <2>3
    <3>2. q \notin Api
      <4>1. q \in Api => Head(left[q]) \in ApiPhase
        BY <1>0, <3>1, HeadTailProperties DEF LeftInv
      <4> QED
        BY <3>1, <4>1 DEF ApiPhase
    <3>3. p \in Api
      BY <1>0, <1>2, <2>3, <3>1, <3>2, ScriptsApart DEF Process
    <3>4. file' = file \/ (file # Null /\ file'.rows = file.rows)
      BY <1>0, <1>2, <3>3, ApiKeepsRows
    <3> QED
      BY <1>0, <2>2, <2>3, <3>1, <3>4 DEF DropInv
  <2> DEFINE Own == ended'[p] = "no" /\ Head(left'[p]) = "drop" /\ todo'[p] # Null /\ file' # Null
                   => \A r \in file'.rows : r[2] \in todo'[p]
  <2>4. ASSUME Own PROVE DropInv'
    BY <2>3, <2>4 DEF DropInv
  <2>5. ASSUME NEW S, Continues(p, S) \/ Fails(p), Head(left[p]) # "drop"
        PROVE  Own
    BY <1>0, <2>5 DEF Continues, Fails, TypeOK
  <2>6. CASE DropScan(p)
    <3>1. file # Null /\ UNCHANGED <<file, backup>> /\ Continues(p, {t \in Table : Exists(file, t)})
      BY <2>6 DEF DropScan, Enters
    <3>2. \A r \in file.rows : r[2] \in {t \in Table : Exists(file, t)}
      BY <1>0, <2>1, <3>1 DEF FileInv, RowsThere, File
    <3>3. Own
      BY <1>0, <3>1, <3>2 DEF Continues, TypeOK
    <3> QED
      BY <1>0, <2>4, <3>1, <3>3 DEF FileInv, BackupInv, RowsThere, Sound, Exists
  <2>7. CASE DropNext(p)
    <3>1. PICK t \in todo[p] :
             IsLast(t, todo[p]) /\ file' = Dropped(file, t) /\ Continues(p, todo[p] \ {t})
      BY <2>7 DEF DropNext
    <3>2. /\ file # Null /\ file \in File /\ backup' = backup /\ todo[p] \in SUBSET Table
          /\ ended[p] = "no" /\ Head(left[p]) = "drop" /\ todo[p] # Null
      BY <1>0, <2>1, <2>7 DEF DropNext, Enters, May, TypeOK
    <3>3. \A r \in file.rows : r[2] \in todo[p]
      BY <1>0, <3>2 DEF DropInv
    <3>4. /\ RowsThere(file') /\ Sound(file')
          /\ \A r \in file'.rows : r[2] \in todo[p] \ {t}
      BY <1>0, <3>1, <3>2, <3>3, Drops DEF FileInv
    <3>5. Own
      BY <1>0, <3>1, <3>4 DEF Continues, TypeOK
    <3> QED
      BY <1>0, <2>4, <3>2, <3>4, <3>5 DEF FileInv, BackupInv, RowsThere, Sound, Exists
  <2>8. CASE CreateScan(p) \/ GuardScan(p) \/ MigrateScan(p) \/ LocalLook(p) \/ EarlySeed(p) \/ Unreadable(p)
    <3>1. UNCHANGED <<file, backup>> /\ Own
      <4>1. (\E S : Continues(p, S)) \/ Fails(p)
        BY <2>8 DEF CreateScan, GuardScan, MigrateScan, LocalLook, EarlySeed, Unreadable
      <4>2. file # Null => Head(left[p]) # "drop"
        BY <2>8 DEF CreateScan, GuardScan, MigrateScan, LocalLook, EarlySeed, Unreadable, Enters
      <4>3. UNCHANGED <<file, backup>>
        BY <2>8 DEF CreateScan, GuardScan, MigrateScan, LocalLook, EarlySeed, Unreadable
      <4> QED
        BY <2>5, <4>1, <4>2, <4>3
    <3> QED
      BY <1>0, <2>4, <3>1 DEF FileInv, BackupInv, RowsThere, Sound, Exists
  <2>9. CASE CreateNext(p) \/ GuardNext(p) \/ MigrateNext(p)
    <3>1. file # Null /\ file \in File /\ backup' = backup /\ todo[p] \in SUBSET Table
      BY <1>0, <2>1, <2>9 DEF CreateNext, GuardNext, MigrateNext, Enters, TypeOK
    <3>2. PICK t \in todo[p] :
             /\ \/ file' = file
                \/ file' = Created(file, t, "current")
                \/ file' = Guarded(file, t)
                \/ file' = [Created(file, t, Form(t)) EXCEPT !.stamped = (todo[p] = {t})]
             /\ Continues(p, todo[p] \ {t}) \/ Fails(p)
      BY <2>9 DEF CreateNext, GuardNext, MigrateNext
    <3>3. t \in Table /\ Form(t) \in {"outdated", "current"} /\ (todo[p] = {t}) \in BOOLEAN
      BY <3>1 DEF Form
    <3>4. RowsThere(file) /\ Sound(file)
      BY <1>0, <3>1 DEF FileInv
    <3>5. /\ RowsThere(Created(file, t, "current")) /\ Sound(Created(file, t, "current"))
          /\ RowsThere(Guarded(file, t)) /\ Sound(Guarded(file, t))
      BY <3>1, <3>3, <3>4, Grows
    <3>6. /\ RowsThere([Created(file, t, Form(t)) EXCEPT !.stamped = (todo[p] = {t})])
          /\ Sound([Created(file, t, Form(t)) EXCEPT !.stamped = (todo[p] = {t})])
      BY <3>1, <3>3, <3>4, Grows
    <3>7. RowsThere(file') /\ Sound(file')
      BY <3>2, <3>4, <3>5, <3>6
    <3>8. Head(left[p]) # "drop"
      BY <2>9 DEF CreateNext, GuardNext, MigrateNext, Enters
    <3> QED
      BY <1>0, <2>4, <2>5, <3>1, <3>2, <3>7, <3>8 DEF FileInv, BackupInv, RowsThere, Sound, Exists
  <2>10. CASE GoldenSeed(p) \/ LocalSeed(p)
    <3>1. file # Null /\ file \in File /\ backup' = backup /\ Head(left[p]) # "drop"
      BY <2>1, <2>10 DEF GoldenSeed, LocalSeed, Enters
    <3>2. file' = file \/ \E d \in Dataset : Fits(file, d) /\ file' = Filled(file, d)
      BY <2>10 DEF GoldenSeed, LocalSeed, Dataset
    <3>3. Continues(p, {}) \/ Fails(p)
      BY <2>10 DEF GoldenSeed, LocalSeed
    <3>4. RowsThere(file') /\ Sound(file')
      BY <1>0, <3>1, <3>2, Fills DEF FileInv
    <3> QED
      BY <1>0, <2>4, <2>5, <3>1, <3>3, <3>4 DEF FileInv, BackupInv, RowsThere, Sound, Exists
  <2>11. CASE Backup(p)
    <3>1. file' = file /\ backup' = file /\ file # Null /\ Continues(p, {}) /\ Head(left[p]) # "drop"
      BY <2>11 DEF Backup, Enters
    <3> QED
      BY <1>0, <2>4, <2>5, <3>1 DEF FileInv, BackupInv, RowsThere, Sound, Exists
  <2>12. CASE RestoreOpen(p)
    <3>1. /\ file' = file \/ file' = Null
          /\ backup' = backup
          /\ Head(left[p]) = "restore"
          /\ Fails(p) \/ file' = Null
      BY <2>12 DEF RestoreOpen
    <3>2. Own
      BY <2>5, <3>1
    <3> QED
      BY <1>0, <2>4, <3>1, <3>2 DEF FileInv, BackupInv, RowsThere, Sound, Exists
  <2>13. CASE RestoreEnd(p)
    <3>1. file' = backup /\ backup' = backup /\ Continues(p, {}) /\ Head(left[p]) # "drop"
      BY <2>13 DEF RestoreEnd
    <3> QED
      BY <1>0, <2>4, <2>5, <3>1 DEF FileInv, BackupInv, RowsThere, Sound, Exists
  <2>14. CASE Crash(p)
    <3>1. UNCHANGED <<file, backup>> /\ ended'[p] = "crashed"
      BY <1>0, <2>14 DEF Crash, TypeOK
    <3> QED
      BY <1>0, <2>4, <3>1 DEF FileInv, BackupInv, RowsThere, Sound, Exists
  <2> QED
    BY <1>2, <2>6, <2>7, <2>8, <2>9, <2>10, <2>11, <2>12, <2>13, <2>14 DEF Initialise, Seed, Operate
<1> QED
  BY <1>1, <1>2 DEF Next

-----------------------------------------------------------------------------
(***************************************************************************)
(* The append-only triggers.  Tables are created in one order, so of the   *)
(* initialisations under way the one that creates a table has none of its  *)
(* tables in its way, and will install the triggers.                       *)
(***************************************************************************)
Absent == {t \in Table : ~Exists(file, t)}

Before(t, u) ==
    \A i, j \in DOMAIN TableOrder : TableOrder[i] = t /\ TableOrder[j] = u => i < j

Creating(p) == ended[p] = "no" /\ Head(left[p]) = "create" /\ todo[p] # Null

\* What is left of a program still has its triggers after its tables, and a
\* migration handles its own tables only.
ProgramInv == \A p \in Process :
    /\ Initialises(left[p])
    /\ Len(left[p]) <= Len(Program[p])
    /\ ended[p] = "no" /\ Head(left[p]) = "migrate" /\ todo[p] # Null => todo[p] \subseteq Migrated

\* An initialisation that is creating has all absent tables before it, and
\* those of its tables that others have created come before the absent ones.
OrderInv == file # Null /\ ~interrupted => \A p \in Process : Creating(p) =>
    /\ Absent \subseteq todo[p]
    /\ \A t \in todo[p] \ Absent, u \in Absent : Before(t, u)

\* Nothing keeps p from installing the triggers of t.
Guarding(p, t) ==
    /\ Running(p)
    /\ \/ Creating(p) /\ todo[p] \subseteq Absent
       \/ Head(left[p]) = "guard" /\ Absent = {} /\ (todo[p] # Null => t \in todo[p])

GuardInv == file # Null /\ ~interrupted =>
    \A t \in Bare(file) : \E p \in Process : Guarding(p, t)

BackupGuarded == backup # Null /\ ~interrupted => Bare(backup) = {}

TriggerInv == ProgramInv /\ OrderInv /\ GuardInv /\ BackupGuarded

LEMMA LeftHead ==
  ASSUME TypeOK, LeftInv, NEW p \in Process, ended[p] = "no"
  PROVE  /\ left[p] \in Seq(Phase) /\ left[p] # <<>>
         /\ Len(left[p]) \in Nat \ {0}
         /\ Head(left[p]) = left[p][1]
         /\ Tail(left[p]) \in Seq(Phase)
         /\ Len(Tail(left[p])) = Len(left[p]) - 1
         /\ \A i \in 1 .. Len(left[p]) - 1 : Tail(left[p])[i] = left[p][i + 1]
<1>1. left[p] \in Seq(Phase) /\ left[p] # <<>>
  BY DEF TypeOK, LeftInv
<1> QED
  BY <1>1, EmptySeq, HeadTailProperties

\* The phase after the creation of tables installs the triggers.
LEMMA GuardFollows ==
  ASSUME TypeOK, LeftInv, ProgramInv, NEW p \in Process, ended[p] = "no",
         Head(left[p]) = "create"
  PROVE  /\ Len(left[p]) > 1
         /\ left[p][2] = "guard"
         /\ Head(Tail(left[p])) = "guard"
<1>1. 1 < Len(left[p]) /\ left[p][1 + 1] = "guard"
  BY LeftHead DEF ProgramInv, Initialises
<1>2. Len(Tail(left[p])) \in Nat \ {0} /\ Tail(left[p])[1] = left[p][1 + 1]
  BY <1>1, LeftHead
<1>3. Tail(left[p]) # <<>>
  BY <1>2, EmptySeq
<1>4. Head(Tail(left[p])) = Tail(left[p])[1]
  BY <1>3, LeftHead, HeadTailProperties
<1> QED
  BY <1>1, <1>2, <1>4

LEMMA GuardingInitialises ==
  ASSUME TypeOK, LeftInv, ProgramInv, NEW p \in Process
  PROVE  /\ Creating(p) => Initialising(p)
         /\ \A t : Guarding(p, t) => Initialising(p)
<1>1. ASSUME Running(p), Head(left[p]) = "guard" PROVE Initialising(p)
  <2>1. left[p][1] = "guard" /\ 1 \in 1 .. Len(left[p])
    BY <1>1, LeftHead DEF Running
  <2> QED
    BY <1>1, <2>1 DEF Initialising
<1>2. ASSUME Creating(p) PROVE Initialising(p)
  <2>1. Running(p)
    BY <1>2 DEF Creating, Running, Started
  <2>2. left[p][2] = "guard" /\ 2 \in 1 .. Len(left[p])
    BY <1>2, GuardFollows, LeftHead DEF Creating
  <2> QED
    BY <2>1, <2>2 DEF Initialising
<1> QED
  BY <1>1, <1>2 DEF Guarding

LEMMA ProgramStep ==
  ASSUME TypeOK, LeftInv, ProgramInv, [Next]_vars
  PROVE  ProgramInv'
<1>1. CASE UNCHANGED vars
  BY <1>1 DEF vars, ProgramInv
<1>2. ASSUME NEW p \in Process, Initialise(p) \/ Seed(p) \/ Operate(p)
      PROVE  ProgramInv'
  <2>1. \A q \in Process \ {p} :
           left'[q] = left[q] /\ todo'[q] = todo[q] /\ ended'[q] = ended[q]
    BY <1>2, OthersStay
  <2> DEFINE Own == /\ Initialises(left'[p])
                    /\ Len(left'[p]) <= Len(Program[p])
                    /\ ended'[p] = "no" /\ Head(left'[p]) = "migrate" /\ todo'[p] # Null
                           => todo'[p] \subseteq Migrated
  <2>2. ASSUME Own PROVE ProgramInv'
    BY <2>1, <2>2 DEF ProgramInv
  <2>3. CASE Fails(p) \/ (ended' = [ended EXCEPT ![p] = "crashed"] /\ UNCHANGED <<left, todo>>)
    BY <2>2, <2>3 DEF Fails, ProgramInv, TypeOK
  <2>4. ASSUME NEW S, Continues(p, S), ended[p] = "no",
               Head(left[p]) = "migrate" => S \subseteq Migrated
        PROVE  ProgramInv'
    <3>1. CASE S # {}
      <4>1. left' = left /\ todo'[p] = S /\ ended' = ended
        BY <2>4, <3>1 DEF Continues, TypeOK
      <4> QED
        BY <2>2, <2>4, <4>1 DEF ProgramInv
    <3>2. CASE S = {}
      <4>1. left'[p] = Tail(left[p]) /\ todo'[p] = Null
        BY <2>4, <3>2 DEF Continues, TypeOK
      <4>2. Initialises(left[p]) /\ Len(left[p]) <= Len(Program[p])
        BY DEF ProgramInv
      <4>3. Initialises(Tail(left[p]))
        <5> SUFFICES ASSUME NEW i \in 1 .. Len(Tail(left[p])), Tail(left[p])[i] = "create"
                     PROVE  i < Len(Tail(left[p])) /\ Tail(left[p])[i + 1] = "guard"
          BY DEF Initialises
        <5>1. /\ Len(left[p]) \in Nat /\ Len(Tail(left[p])) = Len(left[p]) - 1
              /\ left[p][i + 1] = "create" /\ i + 1 \in 1 .. Len(left[p])
          BY <2>4, LeftHead
        <5>2. i + 1 < Len(left[p]) /\ left[p][i + 1 + 1] = "guard"
          BY <4>2, <5>1 DEF Initialises
        <5>3. i + 1 \in 1 .. Len(left[p]) - 1
          BY <5>1, <5>2
        <5>4. Tail(left[p])[i + 1] = left[p][i + 1 + 1]
          BY <2>4, <5>3, LeftHead
        <5> QED
          BY <5>1, <5>2, <5>4
      <4>4. Len(Program[p]) \in Nat
        BY LenProperties, DatabaseAssumption
      <4>5. Len(Tail(left[p])) <= Len(Program[p])
        BY <2>4, <4>2, <4>4, LeftHead
      <4> QED
        BY <2>2, <4>1, <4>3, <4>5
    <3> QED
      BY <3>1, <3>2
  <2>5. CASE DropScan(p) \/ CreateScan(p) \/ GuardScan(p) \/ MigrateScan(p)
    <3>1. PICK S : Continues(p, S) /\ (Head(left[p]) = "migrate" => S \subseteq Migrated)
      BY <2>5 DEF DropScan, CreateScan, GuardScan, MigrateScan, Enters
    <3> QED
      BY <2>4, <2>5, <3>1 DEF DropScan, CreateScan, GuardScan, MigrateScan, Enters, May
  <2>6. CASE DropNext(p) \/ CreateNext(p) \/ GuardNext(p) \/ MigrateNext(p)
    <3>1. PICK t : Continues(p, todo[p] \ {t}) \/ Fails(p)
      BY <2>6 DEF DropNext, CreateNext, GuardNext, MigrateNext
    <3>2. ended[p] = "no" /\ todo[p] # Null
      BY <2>6 DEF DropNext, CreateNext, GuardNext, MigrateNext, Enters, May
    <3>3. Head(left[p]) = "migrate" => todo[p] \ {t} \subseteq Migrated
      BY <3>2 DEF ProgramInv
    <3> QED
      BY <2>3, <2>4, <3>1, <3>2, <3>3
  <2>7. CASE Seed(p)
    <3>1. /\ (\E S : Continues(p, S)) \/ Fails(p)
          /\ ended[p] = "no" /\ Head(left[p]) # "migrate"
      BY <2>7 DEF Seed, GoldenSeed, LocalLook, LocalSeed, EarlySeed, Enters, May
    <3> QED
      BY <2>3, <2>4, <3>1
  <2>8. CASE Backup(p) \/ RestoreEnd(p)
    <3>1. Continues(p, {}) /\ ended[p] = "no"
      BY <2>8 DEF Backup, RestoreEnd, Enters, May
    <3> QED
      BY <2>4, <3>1
  <2>9. CASE RestoreOpen(p)
    <3>1. CASE Fails(p)
      BY <2>3, <3>1
    <3>2. CASE UNCHANGED <<left, ended>>
      BY <2>2, <2>9, <3>2 DEF RestoreOpen, ProgramInv
    <3> QED
      BY <2>9, <3>1, <3>2 DEF RestoreOpen
  <2>10. CASE Unreadable(p) \/ Crash(p)
    BY <2>3, <2>10 DEF Unreadable, Crash
  <2> QED
    BY <1>2, <2>5, <2>6, <2>7, <2>8, <2>9, <2>10 DEF Initialise, Operate
<1> QED
  BY <1>1, <1>2 DEF Next

\* A step of p that leaves tables and triggers alone, while p is no guard.
LEMMA SameTables ==
  ASSUME TypeOK, OrderInv, GuardInv, NEW p \in Process,
         \A q \in Process \ {p} :
             left'[q] = left[q] /\ todo'[q] = todo[q] /\ ended'[q] = ended[q],
         file # Null, file'.schema = file.schema, file'.guarded = file.guarded,
         ~interrupted, ~Creating(p)', \A t : ~Guarding(p, t)
  PROVE  OrderInv' /\ GuardInv'
<1>1. Absent' = Absent /\ Bare(file') = Bare(file)
  BY DEF Absent, Exists, Bare
<1>2. \A q \in Process \ {p} : Creating(q)' <=> Creating(q)
  BY DEF Creating
<1>3. \A q \in Process \ {p} : Running(q)' <=> Running(q)
  BY DEF Running, Started
<1>4. OrderInv'
  BY <1>1, <1>2 DEF OrderInv, Before
<1>5. \A q \in Process \ {p} : \A t : Guarding(q, t)' <=> Guarding(q, t)
  BY <1>1, <1>2, <1>3 DEF Guarding
<1>6. GuardInv'
  BY <1>1, <1>5 DEF GuardInv
<1> QED
  BY <1>4, <1>6

\* A process whose phase is over is not creating.
LEMMA NotCreating ==
  ASSUME TypeOK, NEW p \in Process, NEW S,
         \/ Fails(p)
         \/ Continues(p, S) /\ (S = {} \/ Head(left[p]) # "create")
  PROVE  ~Creating(p)'
BY DEF Fails, Continues, Creating, TypeOK

\* Nothing interrupts an initialisation and is then forgotten.
LEMMA StaysInterrupted ==
  ASSUME TypeOK, [Next]_vars, ~interrupted'
  PROVE  ~interrupted
BY DEF Next, Initialise, Seed, Operate, DropScan, DropNext, CreateScan, CreateNext,
   GuardScan, GuardNext, MigrateScan, MigrateNext, GoldenSeed, LocalLook, LocalSeed,
   EarlySeed, Backup, RestoreOpen, RestoreEnd, Unreadable, Crash, vars, TypeOK

\* Creating a table: the process that does is not held up by the others.
LEMMA CreateStep ==
  ASSUME TypeOK, LeftInv, TriggerInv, ~interrupted, NEW p \in Process, CreateNext(p)
  PROVE  OrderInv' /\ GuardInv'
<1>0. /\ file # Null /\ file \in File /\ todo[p] \in SUBSET Table /\ Creating(p)
      /\ ended[p] = "no" /\ Head(left[p]) = "create" /\ todo[p] # Null
      /\ UNCHANGED <<backup, interrupted>>
  BY DEF CreateNext, Enters, May, Creating, TypeOK
<1>1. \A q \in Process \ {p} :
         left'[q] = left[q] /\ todo'[q] = todo[q] /\ ended'[q] = ended[q]
  BY OthersStay DEF Initialise
<1>2. PICK t \in todo[p] :
         /\ IsFirst(t, todo[p])
         /\ \/ /\ ~Exists(file, t)
               /\ file' = Created(file, t, "current")
               /\ Continues(p, todo[p] \ {t})
            \/ /\ Exists(file, t)
               /\ Fails(p)
               /\ UNCHANGED file
  BY DEF CreateNext
<1>3. /\ Absent \subseteq todo[p]
      /\ \A v \in todo[p] \ Absent, u \in Absent : Before(v, u)
  BY <1>0 DEF TriggerInv, OrderInv
<1>4. \A q \in Process \ {p} : Creating(q)' <=> Creating(q)
  BY <1>1 DEF Creating
<1>5. CASE Exists(file, t) /\ Fails(p) /\ UNCHANGED file
  <2>1. \A u : ~Guarding(p, u)
    BY <1>0, <1>2, <1>5 DEF Guarding, Absent
  <2>2. ~Creating(p)'
    BY <1>5, NotCreating
  <2> QED
    BY <1>0, <1>1, <1>5, <2>1, <2>2, SameTables DEF TriggerInv
<1>6. CASE ~Exists(file, t) /\ file' = Created(file, t, "current") /\ Continues(p, todo[p] \ {t})
  <2>1. /\ \A u \in Table : file'.schema[u] = IF u = t THEN "current" ELSE file.schema[u]
        /\ t \in Absent
    BY <1>0, <1>2, <1>6 DEF Created, File, Absent
  <2>2. Absent' = Absent \ {t}
    BY <2>1 DEF Absent, Exists
  <2>3. PICK i \in DOMAIN TableOrder : /\ TableOrder[i] = t
                                       /\ \A j \in DOMAIN TableOrder : TableOrder[j] \in todo[p] => i <= j
    BY <1>2 DEF IsFirst
  \* nothing the process still has to create is there
  <2>4. todo[p] \subseteq Absent
    <3> SUFFICES ASSUME NEW v \in todo[p], v \notin Absent PROVE FALSE
      OBVIOUS
    <3>1. Before(v, t)
      BY <1>3, <2>1
    <3>2. PICK j \in DOMAIN TableOrder : TableOrder[j] = v
      BY <1>0 DEF Table
    <3>3. i <= j /\ j < i
      BY <2>3, <3>1, <3>2 DEF Before
    <3>4. i \in Nat /\ j \in Nat
      BY DatabaseAssumption, LenProperties
    <3> QED
      BY <3>3, <3>4
  <2>5. \A u \in Absent' : Before(t, u)
    <3> SUFFICES ASSUME NEW u \in Absent \ {t}, NEW k \in DOMAIN TableOrder, NEW j \in DOMAIN TableOrder,
                        TableOrder[k] = t, TableOrder[j] = u
                 PROVE  k < j
      BY <2>2 DEF Before
    <3>1. k = i
      BY <2>3, DatabaseAssumption
    <3>2. k <= j /\ k # j
      BY <1>3, <2>3, <3>1
    <3>3. k \in Nat /\ j \in Nat
      BY DatabaseAssumption, LenProperties
    <3> QED
      BY <3>2, <3>3
  <2>6. ASSUME NEW q \in Process, Creating(q)'
        PROVE  /\ Absent' \subseteq todo'[q]
               /\ \A v \in todo'[q] \ Absent', u \in Absent' : Before(v, u)
    <3>1. CASE q = p
      <4>1. todo'[p] = todo[p] \ {t}
        BY <1>0, <1>6, <2>6, <3>1 DEF Continues, Creating, TypeOK
      <4> QED
        BY <1>3, <2>2, <2>4, <3>1, <4>1
    <3>2. CASE q # p
      <4>1. Creating(q) /\ todo'[q] = todo[q]
        BY <1>1, <1>4, <2>6, <3>2
      <4>2. /\ Absent \subseteq todo[q]
            /\ \A v \in todo[q] \ Absent, u \in Absent : Before(v, u)
        BY <1>0, <4>1 DEF TriggerInv, OrderInv
      <4> QED
        BY <2>2, <2>5, <4>1, <4>2
    <3> QED
      BY <3>1, <3>2
  <2>7. OrderInv'
    BY <2>6 DEF OrderInv, Before
  <2>8. \A u \in Bare(file') : Guarding(p, u)'
    <3>1. CASE todo[p] \ {t} # {}
      <4>1. /\ todo'[p] = todo[p] \ {t} /\ left' = left /\ ended' = ended
        BY <1>0, <1>6, <3>1 DEF Continues, TypeOK
      <4>2. Creating(p)' /\ Running(p)'
        BY <1>0, <4>1, DatabaseAssumption DEF Creating, Running, Started
      <4> QED
        BY <2>2, <2>4, <4>1, <4>2 DEF Guarding
    <3>2. CASE todo[p] \ {t} = {}
      <4>1. /\ todo'[p] = Null /\ left'[p] = Tail(left[p])
            /\ ended'[p] = IF Len(left[p]) = 1 THEN "done" ELSE "no"
        BY <1>0, <1>6, <3>2 DEF Continues, TypeOK
      <4>2. Len(left[p]) > 1 /\ Head(Tail(left[p])) = "guard"
        BY <1>0, GuardFollows DEF TriggerInv
      <4>3. ended'[p] = "no" /\ Head(left'[p]) = "guard"
        BY <1>0, <4>1, <4>2, LeftHead
      <4>4. left'[p] # Program[p]
        <5>1. Len(left[p]) <= Len(Program[p])
          BY DEF TriggerInv, ProgramInv
        <5>2. Len(left[p]) \in Nat /\ Len(left'[p]) = Len(left[p]) - 1
          BY <1>0, <4>1, LeftHead
        <5>3. Len(Program[p]) \in Nat
          BY LenProperties, DatabaseAssumption
        <5>4. Len(left'[p]) # Len(Program[p])
          BY <5>1, <5>2, <5>3
        <5> QED
          BY <5>4, Zenon
      <4>5. Running(p)'
        BY <4>3, <4>4 DEF Running, Started
      <4>6. Absent' = {}
        BY <1>3, <2>2, <3>2
      <4> QED
        BY <4>1, <4>3, <4>5, <4>6 DEF Guarding
    <3> QED
      BY <3>1, <3>2
  <2>9. GuardInv'
    BY <2>8 DEF GuardInv
  <2> QED
    BY <2>7, <2>9
<1> QED
  BY <1>2, <1>5, <1>6

\* Installing the triggers of a table: p is a guard of those it has left.
LEMMA GuardStep ==
  ASSUME TypeOK, LeftInv, TriggerInv, ~interrupted, NEW p \in Process,
         GuardScan(p) \/ GuardNext(p)
  PROVE  OrderInv' /\ GuardInv'
<1>0. /\ file # Null /\ file \in File /\ Head(left[p]) = "guard" /\ ended[p] = "no"
      /\ UNCHANGED <<backup, interrupted>> /\ todo[p] \in {Null} \cup SUBSET Table
  BY DEF GuardScan, GuardNext, Enters, May, TypeOK
<1>1. \A q \in Process \ {p} :
         left'[q] = left[q] /\ todo'[q] = todo[q] /\ ended'[q] = ended[q]
  BY OthersStay DEF Initialise
<1>2. \A q \in Process \ {p} : Creating(q)' <=> Creating(q)
  BY <1>1 DEF Creating
<1>3. \A q \in Process \ {p} : Running(q)' <=> Running(q)
  BY <1>1 DEF Running, Started
\* the tables stay, none loses its triggers, and the guard that p is it remains
<1>4. ASSUME file'.schema = file.schema, Bare(file') \subseteq Bare(file), file' # Null,
             ~Creating(p)',
             \A t \in Bare(file') : Guarding(p, t) => Guarding(p, t)'
      PROVE  OrderInv' /\ GuardInv'
  <2>1. Absent' = Absent
    BY <1>4 DEF Absent, Exists
  <2>2. OrderInv'
    BY <1>0, <1>1, <1>2, <1>4, <2>1 DEF TriggerInv, OrderInv, Before
  <2>3. \A q \in Process \ {p} : \A t : Guarding(q, t)' <=> Guarding(q, t)
    BY <1>1, <1>2, <1>3, <2>1 DEF Guarding
  <2>4. \A t \in Bare(file) : \E q \in Process : Guarding(q, t)
    BY <1>0 DEF TriggerInv, GuardInv
  <2>5. GuardInv'
    BY <1>4, <2>3, <2>4 DEF GuardInv
  <2> QED
    BY <2>2, <2>5
<1>5. CASE GuardScan(p)
  <2>1. file' = file /\ Continues(p, APPEND_ONLY_TABLES) /\ todo[p] = Null
    BY <1>5 DEF GuardScan
  <2>2. ~Creating(p)'
    BY <1>0, <2>1, NotCreating
  <2>3. \A t \in Bare(file) : Guarding(p, t) => Guarding(p, t)'
    <3> SUFFICES ASSUME NEW t \in Bare(file), Guarding(p, t) PROVE Guarding(p, t)'
      OBVIOUS
    <3>1. t \in APPEND_ONLY_TABLES
      BY DEF Bare
    <3>2. /\ todo'[p] = APPEND_ONLY_TABLES /\ left' = left /\ ended' = ended
      BY <2>1, <3>1 DEF Continues, TypeOK
    <3>3. Running(p)'
      BY <1>0, <3>2, DatabaseAssumption DEF Running, Started, APPEND_ONLY_TABLES
    <3>4. Absent = {} /\ Absent' = Absent
      BY <1>0, <2>1 DEF Guarding, Creating, Absent, Exists
    <3> QED
      BY <1>0, <3>1, <3>2, <3>3, <3>4 DEF Guarding
  <2> QED
    BY <1>0, <1>4, <2>1, <2>2, <2>3
<1>6. CASE GuardNext(p)
  <2>0. todo[p] # Null
    BY <1>6 DEF GuardNext
  <2>1. PICK t \in todo[p] :
           \/ /\ Exists(file, t)
              /\ file' = Guarded(file, t)
              /\ Continues(p, todo[p] \ {t})
           \/ /\ ~Exists(file, t)
              /\ Fails(p)
              /\ UNCHANGED file
    BY <1>6 DEF GuardNext
  <2>2. CASE ~Exists(file, t) /\ Fails(p) /\ UNCHANGED file
    <3>1. \A u : ~Guarding(p, u)
      BY <1>0, <2>0, <2>1, <2>2 DEF Guarding, Creating, Absent
    <3>2. ~Creating(p)'
      BY <2>2, NotCreating
    <3> QED
      BY <1>0, <1>1, <2>2, <3>1, <3>2, SameTables DEF TriggerInv
  <2>3. CASE Exists(file, t) /\ file' = Guarded(file, t) /\ Continues(p, todo[p] \ {t})
    <3>1. file'.schema = file.schema /\ file'.guarded = file.guarded \cup {t} /\ file' \in File
      BY <1>0, <2>0, <2>1, <2>3 DEF Guarded, File
    <3>2. Bare(file') = Bare(file) \ {t}
      BY <3>1 DEF Bare, Exists
    <3>3. ~Creating(p)'
      BY <1>0, <2>3, NotCreating
    <3>4. \A u \in Bare(file') : Guarding(p, u) => Guarding(p, u)'
      <4> SUFFICES ASSUME NEW u \in Bare(file'), Guarding(p, u) PROVE Guarding(p, u)'
        OBVIOUS
      <4>1. u \in todo[p] \ {t} /\ Absent = {}
        BY <1>0, <2>0, <3>2 DEF Guarding, Creating
      <4>2. todo'[p] = todo[p] \ {t} /\ left' = left /\ ended' = ended
        BY <2>3, <4>1 DEF Continues, TypeOK
      <4>3. Running(p)'
        BY <1>0, <4>2, <2>0, DatabaseAssumption DEF Running, Started
      <4>4. Absent' = {}
        BY <3>1, <4>1 DEF Absent, Exists
      <4> QED
        BY <1>0, <4>1, <4>2, <4>3, <4>4 DEF Guarding
    <3>5. CASE file' # Null
      BY <1>4, <3>1, <3>2, <3>3, <3>4, <3>5
    <3>6. CASE file' = Null
      BY <3>6 DEF OrderInv, GuardInv
    <3> QED
      BY <3>5, <3>6
  <2> QED
    BY <2>1, <2>2, <2>3
<1> QED
  BY <1>5, <1>6

\* A created table has the form it is given, and no triggers come or go.
LEMMA CreatedFile ==
  ASSUME NEW db \in File, NEW t \in Table, NEW form \in {"outdated", "current"}
  PROVE  /\ Created(db, t, form) \in File
         /\ Created(db, t, form).guarded = db.guarded
         /\ \A u \in Table \ {t} : Created(db, t, form).schema[u] = db.schema[u]
<1>1. [db.schema EXCEPT ![t] = form] \in [Table -> {"absent", "outdated", "current"}]
  BY DEF File
<1> QED
  BY <1>1 DEF Created, File

\* What takes tables away, or adds them in another way, finds no
\* initialisation but its own, unless it counts as an interruption.
LEMMA AloneStep ==
  ASSUME TypeOK, LeftInv, TriggerInv, ~interrupted, ~interrupted', NEW p \in Process,
         DropNext(p) \/ MigrateNext(p) \/ RestoreEnd(p)
  PROVE  OrderInv' /\ GuardInv'
<1>1. \A q \in Process \ {p} :
         left'[q] = left[q] /\ todo'[q] = todo[q] /\ ended'[q] = ended[q]
  BY OthersStay DEF Initialise, Operate
<1>2. \A q \in Process \ {p} : ~Initialising(q)
  BY DEF DropNext, MigrateNext, RestoreEnd
<1>3. Head(left[p]) \notin {"create", "guard"} /\ ended[p] = "no"
  BY DEF DropNext, MigrateNext, RestoreEnd, Enters, May
<1>4. \A q \in Process : ~Creating(q) /\ \A t : ~Guarding(q, t)
  <2>1. \A q \in Process \ {p} : ~Creating(q) /\ \A t : ~Guarding(q, t)
    BY <1>2, GuardingInitialises DEF TriggerInv
  <2>2. ~Creating(p) /\ \A t : ~Guarding(p, t)
    BY <1>3 DEF Creating, Guarding
  <2> QED
    BY <2>1, <2>2
<1>5. \A q \in Process : ~Creating(q)'
  <2>1. ~Creating(p)'
    <3>1. PICK S : Continues(p, S) \/ Fails(p)
      BY DEF DropNext, MigrateNext, RestoreEnd
    <3> QED
      BY <1>3, <3>1, NotCreating
  <2> QED
    BY <1>1, <1>4, <2>1 DEF Creating
<1>6. OrderInv'
  BY <1>5 DEF OrderInv
<1>7. ASSUME file' # Null PROVE Bare(file') = {}
  <2>1. CASE RestoreEnd(p)
    <3>1. file' = backup
      BY <2>1 DEF RestoreEnd
    <3> QED
      BY <1>7, <3>1 DEF TriggerInv, BackupGuarded
  <2>2. CASE DropNext(p) \/ MigrateNext(p)
    <3>1. file # Null /\ file \in File /\ todo[p] # Null /\ todo[p] \in SUBSET Table
      BY <2>2 DEF DropNext, MigrateNext, Enters, TypeOK
    <3>2. Bare(file) = {}
      BY <1>4, <3>1 DEF TriggerInv, GuardInv
    <3>3. CASE DropNext(p)
      <4>1. PICK t \in todo[p] : file' = Dropped(file, t)
        BY <3>3 DEF DropNext
      <4>2. /\ file'.guarded = file.guarded \ {t}
            /\ \A u \in Table : file'.schema[u] = IF u = t THEN "absent" ELSE file.schema[u]
        BY <3>1, <4>1 DEF Dropped, File
      <4> QED
        BY <3>2, <4>2 DEF Bare, Exists, APPEND_ONLY_TABLES
    <3>4. CASE MigrateNext(p)
      <4>1. PICK t \in todo[p] :
               \/ file' = file
               \/ file' = [Created(file, t, Form(t)) EXCEPT !.stamped = (todo[p] = {t})]
        BY <3>4 DEF MigrateNext
      <4>2. t \notin APPEND_ONLY_TABLES
        <5>1. todo[p] \subseteq Migrated
          BY <1>3, <3>1, <3>4 DEF TriggerInv, ProgramInv, MigrateNext, Enters
        <5> QED
          BY <5>1 DEF Migrated
      <4>3. /\ file'.guarded = file.guarded
            /\ \A u \in Table \ {t} : file'.schema[u] = file.schema[u]
        <5> DEFINE new == Created(file, t, Form(t))
        <5>1. /\ new \in File /\ new.guarded = file.guarded
              /\ \A u \in Table \ {t} : new.schema[u] = file.schema[u]
          <6>1. t \in Table /\ Form(t) \in {"outdated", "current"}
            BY <3>1 DEF Form
          <6> QED
            BY <3>1, <6>1, CreatedFile
        <5>2. [new EXCEPT !.stamped = (todo[p] = {t})].guarded = new.guarded
          BY <5>1 DEF File
        <5>3. [new EXCEPT !.stamped = (todo[p] = {t})].schema = new.schema
          BY <5>1 DEF File
        <5> HIDE DEF new
        <5>4. file' = file \/ file' = [new EXCEPT !.stamped = (todo[p] = {t})]
          BY <4>1 DEF new
        <5> QED
          BY <5>1, <5>2, <5>3, <5>4
      <4> QED
        BY <3>2, <4>2, <4>3 DEF Bare, Exists, APPEND_ONLY_TABLES
    <3> QED
      BY <2>2, <3>3, <3>4
  <2> QED
    BY <2>1, <2>2
<1>8. GuardInv'
  BY <1>7 DEF GuardInv
<1> QED
  BY <1>6, <1>8

\* Every other step leaves tables and triggers alone, and p is no guard.
LEMMA QuietStep ==
  ASSUME TypeOK, LeftInv, TriggerInv, ~interrupted, ~interrupted', NEW p \in Process,
         \/ DropScan(p) \/ MigrateScan(p) \/ Seed(p)
         \/ Backup(p) \/ RestoreOpen(p) \/ Unreadable(p) \/ Crash(p)
  PROVE  OrderInv' /\ GuardInv'
<1>1. \A q \in Process \ {p} :
         left'[q] = left[q] /\ todo'[q] = todo[q] /\ ended'[q] = ended[q]
  BY OthersStay DEF Initialise, Operate
<1>2. CASE file' = Null
  BY <1>2 DEF OrderInv, GuardInv
<1>3. CASE file' # Null
  <2>1. file # Null /\ file \in File /\ file'.schema = file.schema /\ file'.guarded = file.guarded
    <3>1. file' = file \/ (file # Null /\ \E d \in Dataset : file' = Filled(file, d))
      BY <1>3 DEF DropScan, MigrateScan, Seed, GoldenSeed, LocalLook, LocalSeed, EarlySeed,
         Dataset, Enters, Backup, RestoreOpen, Unreadable, Crash
    <3>2. file # Null /\ file \in File
      BY <1>3, <3>1 DEF TypeOK
    <3> QED
      BY <3>1, <3>2 DEF Filled, File
  <2>2. ~Creating(p)' /\ \A t : ~Guarding(p, t)
    <3>1. CASE Crash(p)
      <4>1. ~Initialising(p) /\ ended'[p] = "crashed"
        BY <3>1 DEF Crash, TypeOK
      <4> QED
        BY <4>1, GuardingInitialises DEF TriggerInv, Creating
    <3>2. CASE \/ DropScan(p) \/ MigrateScan(p) \/ Seed(p) \/ Backup(p)
               \/ RestoreOpen(p) \/ Unreadable(p)
      <4>1. Head(left[p]) \notin {"create", "guard"}
        BY <2>1, <3>2 DEF DropScan, MigrateScan, Seed, GoldenSeed, LocalLook, LocalSeed,
           EarlySeed, Enters, Backup, RestoreOpen, Unreadable
      <4>2. \E S : Continues(p, S) \/ Fails(p)
        BY <1>3, <3>2 DEF DropScan, MigrateScan, Seed, GoldenSeed, LocalLook, LocalSeed,
           EarlySeed, Backup, RestoreOpen, Unreadable
      <4> QED
        BY <4>1, <4>2, NotCreating DEF Guarding, Creating
    <3> QED
      BY <3>1, <3>2
  <2> QED
    BY <1>1, <2>1, <2>2, SameTables DEF TriggerInv
<1> QED
  BY <1>2, <1>3

\* Looking for absent tables: the others are where they were.
LEMMA ScanStep ==
  ASSUME TypeOK, LeftInv, TriggerInv, ~interrupted, NEW p \in Process, CreateScan(p)
  PROVE  OrderInv' /\ GuardInv'
<1>0. /\ file # Null /\ file' = file /\ Continues(p, Absent) /\ todo[p] = Null
      /\ Head(left[p]) = "create" /\ ended[p] = "no" /\ Absent' = Absent
      /\ UNCHANGED <<backup, interrupted>>
  BY DEF CreateScan, Enters, May, Absent, Exists
<1>1. \A q \in Process \ {p} :
         left'[q] = left[q] /\ todo'[q] = todo[q] /\ ended'[q] = ended[q]
  BY OthersStay DEF Initialise
<1>2. \A t : ~Guarding(p, t)
  BY <1>0 DEF Guarding, Creating
<1>3. CASE Absent = {}
  <2>1. ~Creating(p)'
    BY <1>0, <1>3, NotCreating
  <2> QED
    BY <1>0, <1>1, <1>2, <2>1, SameTables DEF TriggerInv
<1>4. CASE Absent # {}
  <2>1. todo'[p] = Absent
    BY <1>0, <1>4 DEF Continues, TypeOK
  <2>2. \A q \in Process \ {p} : Creating(q)' <=> Creating(q)
    BY <1>1 DEF Creating
  <2>3. \A q \in Process \ {p} : Running(q)' <=> Running(q)
    BY <1>1 DEF Running, Started
  <2>4. OrderInv'
    BY <1>0, <1>1, <2>1, <2>2 DEF TriggerInv, OrderInv, Before
  <2>5. \A q \in Process \ {p} : \A t : Guarding(q, t)' <=> Guarding(q, t)
    BY <1>0, <1>1, <2>2, <2>3 DEF Guarding
  <2>6. \A t \in Bare(file) : \E q \in Process \ {p} : Guarding(q, t)
    BY <1>0, <1>2 DEF TriggerInv, GuardInv
  <2>7. GuardInv'
    BY <1>0, <2>5, <2>6 DEF GuardInv
  <2> QED
    BY <2>4, <2>7
<1> QED
  BY <1>3, <1>4

\* Every step keeps the audit tables guarded, or about to be.
LEMMA TriggerStep ==
  ASSUME TypeOK, LeftInv, TriggerInv, [Next]_vars
  PROVE  TriggerInv'
<1>1. ProgramInv'
  BY ProgramStep DEF TriggerInv
<1>2. CASE interrupted'
  BY <1>1, <1>2 DEF TriggerInv, OrderInv, GuardInv, BackupGuarded
<1>3. CASE ~interrupted'
  <2>1. ~interrupted
    BY <1>3, StaysInterrupted
  <2>2. CASE UNCHANGED vars
    BY <2>2 DEF vars, TriggerInv, ProgramInv, OrderInv, GuardInv, BackupGuarded, Creating,
       Guarding, Absent, Running, Started, Bare, Exists, Before
  <2>3. ASSUME NEW p \in Process, Initialise(p) \/ Seed(p) \/ Operate(p)
        PROVE  TriggerInv'
    <3>1. OrderInv' /\ GuardInv'
      <4>1. CASE CreateScan(p)
        BY <2>1, <4>1, ScanStep
      <4>2. CASE CreateNext(p)
        BY <2>1, <4>2, CreateStep
      <4>3. CASE GuardScan(p) \/ GuardNext(p)
        BY <2>1, <4>3, GuardStep
      <4>4. CASE DropNext(p) \/ MigrateNext(p) \/ RestoreEnd(p)
        BY <1>3, <2>1, <4>4, AloneStep
      <4>5. CASE \/ DropScan(p) \/ MigrateScan(p) \/ Seed(p)
                 \/ Backup(p) \/ RestoreOpen(p) \/ Unreadable(p) \/ Crash(p)
        BY <1>3, <2>1, <4>5, QuietStep
      <4> QED
        BY <2>3, <4>1, <4>2, <4>3, <4>4, <4>5 DEF Initialise, Operate
    <3>2. BackupGuarded'
      <4>1. CASE Backup(p)
        <5>1. backup' = file /\ Bare(file) = {}
          BY <1>3, <4>1 DEF Backup
        <5> QED
          BY <5>1 DEF BackupGuarded
      <4>2. CASE UNCHANGED backup
        BY <2>1, <4>2 DEF TriggerInv, BackupGuarded
      <4> QED
        BY <2>3, <4>1, <4>2 DEF Initialise, Seed, Operate, DropScan, DropNext, CreateScan,
           CreateNext, GuardScan, GuardNext, MigrateScan, MigrateNext, GoldenSeed, LocalLook,
           LocalSeed, EarlySeed, RestoreOpen, RestoreEnd, Unreadable, Crash
    <3> QED
      BY <1>1, <3>1, <3>2 DEF TriggerInv
  <2> QED
    BY <2>2, <2>3 DEF Next
<1> QED
  BY <1>2, <1>3

-----------------------------------------------------------------------------
\* The invariant of the database and its programs.
THEOREM DatabaseCorrect == Spec => []DatabaseInv
<1>1. Init => DatabaseInv
  <2> SUFFICES ASSUME Init PROVE DatabaseInv
    OBVIOUS
  <2> USE DEF Init, Empty
  <2>1. file \in File
    BY DEF File
  <2>2. TypeOK
    BY <2>1, DatabaseAssumption DEF TypeOK
  <2>3. LeftInv
    BY DatabaseAssumption DEF LeftInv, ApiPhase
  <2>4. Alone
    BY DEF Alone, Running, Started, Process
  <2> QED
    BY <2>2, <2>3, <2>4 DEF DatabaseInv, FileInv, BackupInv, DropInv, RowsThere, Sound
<1>2. DatabaseInv /\ [Next]_vars => DatabaseInv'
  BY Frame, FilesStep DEF DatabaseInv
<1> QED
  BY <1>1, <1>2, PTL DEF Spec

\* Files, backups and programs stay well formed.
THEOREM DatabaseTypeCorrect == Spec => []TypeOK
<1>1. DatabaseInv => TypeOK
  BY DEF DatabaseInv
<1> QED
  BY <1>1, DatabaseCorrect, PTL

\* No crash, rerun, backup or restore leaves a row without its parents.
THEOREM ParentsPresentCorrect == Spec => []ParentsPresent
<1>1. DatabaseInv => ParentsPresent
  <2> SUFFICES ASSUME DatabaseInv, NEW db \in {file, backup} \ {Null}
               PROVE  \A r \in db.rows : \A q \in Parents[r[2]] \cap Content[r[1]] : <<r[1], q>> \in db.rows
    BY Zenon DEF ParentsPresent
  <2>1. CASE db = file
    <3>1. Sound(file)
      BY <2>1 DEF DatabaseInv, FileInv
    <3> QED
      BY <2>1, <3>1 DEF Sound
  <2>2. CASE db = backup
    <3>1. Sound(backup)
      BY <2>2 DEF DatabaseInv, BackupInv
    <3> QED
      BY <2>2, <3>1 DEF Sound
  <2> QED
    BY <2>1, <2>2
<1> QED
  BY <1>1, DatabaseCorrect, PTL

\* While nothing has interrupted an initialisation, every audit table without
\* triggers has a guard: a process that creates only absent tables, and the
\* triggers afterwards, or one that is to install the triggers of this table.
THEOREM TriggersCorrect == Spec => []TriggerInv
<1>1. Init => TriggerInv
  <2> SUFFICES ASSUME Init PROVE TriggerInv
    OBVIOUS
  <2>1. ProgramInv
    <3> SUFFICES ASSUME NEW p \in Process
                 PROVE  /\ Initialises(left[p])
                        /\ Len(left[p]) <= Len(Program[p])
                        /\ todo[p] = Null
      BY DEF ProgramInv
    <3>1. Len(Program[p]) \in Nat
      BY DatabaseAssumption, LenProperties
    <3> QED
      BY <3>1, DatabaseAssumption DEF Init
  <2>2. \A p \in Process : ~Creating(p)
    BY DEF Init, Creating
  <2>3. Bare(file) = {} /\ backup = Null
    BY DEF Init, Empty, Bare, Exists, APPEND_ONLY_TABLES
  <2> QED
    BY <2>1, <2>2, <2>3 DEF TriggerInv, OrderInv, GuardInv, BackupGuarded
<1>2. DatabaseInv /\ TriggerInv /\ [Next]_vars => TriggerInv'
  BY TriggerStep DEF DatabaseInv
<1> QED
  BY <1>1, <1>2, DatabaseCorrect, PTL DEF Spec

\* Two initialisations may each fail on a table of the other: one of them, or
\* the program that created an audit table, still gets to its triggers.
THEOREM AuditGuardedCorrect == Spec => []AuditGuarded
<1>1. DatabaseInv /\ TriggerInv => AuditGuarded
  <2> SUFFICES ASSUME DatabaseInv, TriggerInv, ~interrupted, file # Null, Bare(file) # {}
               PROVE  \E p \in Process : Initialising(p)
    BY DEF AuditGuarded
  <2>1. PICK t \in Bare(file), p \in Process : Guarding(p, t)
    BY DEF TriggerInv, GuardInv
  <2> QED
    BY <2>1, GuardingInitialises DEF DatabaseInv, TriggerInv
<1> QED
  BY <1>1, DatabaseCorrect, TriggersCorrect, PTL
=============================================================================

----------------------------- MODULE ModelStore -----------------------------
(***************************************************************************)
(* The files of the model registry's store, what the training scripts      *)
(* write there and what scoring loads.                                     *)
(*                                                                         *)
(* A version has a directory with its artifact (scorecard.json, whatever   *)
(* its format) and its training report; registry.json is the index.  The   *)
(* scripts, each a process, write all three, file by file, while the API   *)
(* process loads them for every score: it reads the index twice, opens the *)
(* artifact twice and then reads the report.  Opening a file for writing   *)
(* empties it.  Nothing locks a file and nothing verifies artifact_hash.   *)
(* ModelRegistry models the promotion gate; here a promotion by the API is *)
(* one that has passed it.                                                 *)
(***************************************************************************)
EXTENDS Naturals, Sequences

CONSTANTS
    Script,       \* runs of a training script
    Admin,        \* promotions by the API
    Request,      \* scoring requests
    Version,      \* model versions
    Champion,     \* v1.1.0-woe-scorecard
    Challenger,   \* v1.1.0-gbm-challenger
    Baseline,     \* v1.1.0-logistic-baseline (forest and ensemble are alike)
    Named,        \* versions named on a command line or by a retraining
    FormatOf,     \* how a version's card is saved
    Shipped,      \* the index in the repository
    Origin,       \* the run that made the files in the repository
    BuiltIn,      \* the default LogisticScorecard, and its version
    Null,
    Torn          \* the content of a file that is not whole

VARIABLES
    disk,         \* what each file holds
    todo,         \* the writes a script or promotion has still to make
    snap,         \* the index its current operation has read, or Null
    step,         \* how far that operation has come
    before,       \* the runs that were over when it began (auxiliary)
    stage,        \* how far a scoring request has come
    wanted,       \* the version it loads, Null for the active one
    found,        \* the record it found in the index
    pickled,      \* whether the artifact began like a pickle
    loaded,       \* the run whose card it loaded, or BuiltIn
    scored,       \* the score it answers
    shadow,       \* the challenger's score beside it
    crashed,      \* a writer has died with a file open (auxiliary)
    overlap,      \* two have had one file in hand (auxiliary)
    demoted,      \* an active version was registered again (auxiliary)
    calm          \* no file was being written during the request (auxiliary)

diskVars == <<disk, todo, snap, step, before, crashed, overlap, demoted>>
loadVars == <<stage, wanted, found, pickled, loaded, scored, shadow>>
vars == <<diskVars, loadVars, calm>>

Writer == Script \cup Admin
Run == Script \cup {Origin}

\* The record of a version in the index.
Status == {"unregistered", "candidate", "validated", "active", "retired"}
Record == [version : Version, status : Status, run : Run]
Index == {i \in [Version -> Record] : \A v \in Version : i[v].version = v}

IndexFile == [part |-> "index", version |-> Null]
Card(v) == [part |-> "card", version |-> v]
Report(v) == [part |-> "report", version |-> v]

\* "object": the scorecard pickled; "dict": its fields pickled as a dict.
Format == {"json", "object", "dict"}
IsPickle(v) == FormatOf[v] # "json"

InStatus(index, s) == {v \in Version : index[v].status = s}

\* A score: the version it names, the run that wrote the card, what was asked
\* for and the record that was found.
Answer == [version : Version \cup {BuiltIn}, run : Run \cup {BuiltIn},
           asked : Version \cup {Null}, record : Record \cup {Null}]

ASSUME StoreAssumption ==
    /\ {Champion, Challenger, Baseline} \cup Named \subseteq Version
    /\ Null \notin Version /\ BuiltIn \notin Version \cup Run
    /\ Null \notin Run \cup Record \cup Index \cup Answer /\ BuiltIn # Null
    /\ Script \cap Admin = {} /\ Origin \notin Writer
    /\ Torn \notin Index \cup Run \cup {Null}
    /\ FormatOf \in [Version -> Format]
    /\ Shipped \in Index
    /\ InStatus(Shipped, "active") # {}
    /\ \A v \in Version : Shipped[v].run = Origin

----------------------------------------------------------------------------
(***************************************************************************)
(* What the scripts write, in their order.                                 *)
(***************************************************************************)
Op == [op : {"card", "report", "upsert", "validated", "active"},
       version : Version]
Do(op, v) == [op |-> op, version |-> v]
OnIndex(o) == o.op \notin {"card", "report"}
FileOf(o) == IF OnIndex(o) THEN IndexFile
             ELSE [part |-> o.op, version |-> o.version]

\* Seeded fault for Register: the index first.
RegisterIndexFirst(v) == <<Do("upsert", v), Do("card", v), Do("report", v)>>

\* ModelRegistry.register.
Register(v) == <<Do("card", v), Do("report", v), Do("upsert", v)>>

Promote(v) == <<Do("validated", v), Do("active", v)>>

\* The scripts save into the version's directory before they register.  Only
\* the champion's card goes to scorecard.json, the other cards to a
\* scorecard.pkl that nothing loads.
Save(v) == IF v = Champion THEN <<Do("card", v), Do("report", v)>>
           ELSE <<Do("report", v)>>

ProductionProgram ==
    Save(Champion) \o Save(Challenger) \o Register(Champion)
        \o Register(Challenger) \o Promote(Champion)

BenchmarkProgram ==
    Save(Baseline) \o Register(Baseline) \o Save(Champion)
        \o Register(Champion) \o Save(Challenger) \o Register(Challenger)
        \o Promote(Champion)

\* What promote lets a version in status s become.
Allowed(s) == CASE s = "candidate" -> {"validated"}
                [] s = "validated" -> {"validated", "active"}
                [] s = "active" -> {"active"}
                [] OTHER -> {}

\* Seeded fault for Promoted: the active version retires a step early.
PromotedEarly(index, v, to) ==
    [u \in Version |->
        [version |-> u,
         status |-> IF u = v THEN to
                    ELSE IF index[u].status = "active" THEN "retired"
                    ELSE index[u].status,
         run |-> index[u].run]]

Promoted(index, v, to) ==
    [u \in Version |->
        [version |-> u,
         status |-> IF u = v THEN to
                    ELSE IF to = "active" /\ index[u].status = "active"
                         THEN "retired"
                         ELSE index[u].status,
         run |-> index[u].run]]

Registered(index, w, v) ==
    [index EXCEPT ![v] = [version |-> v, status |-> "candidate", run |-> w]]

\* What writer w leaves in the file when its current write ends.
Written(w) ==
    LET o == Head(todo[w])
    IN CASE ~OnIndex(o) -> w
         [] o.op = "upsert" -> Registered(snap[w], w, o.version)
         [] OTHER -> Promoted(snap[w], o.version, o.op)

----------------------------------------------------------------------------
Init ==
    /\ disk = [f \in {IndexFile} \cup {Card(v) : v \in Version}
                     \cup {Report(v) : v \in Version} |->
                  IF f = IndexFile THEN Shipped
                  ELSE IF Shipped[f.version].status = "unregistered" THEN Null
                  ELSE Origin]
    /\ todo = [w \in Writer |-> << >>]
    /\ snap = [w \in Writer |-> Null]
    /\ step = [w \in Writer |-> "idle"]
    /\ before = [r \in Run |-> IF r = Origin THEN {} ELSE {Origin}]
    /\ stage = [q \in Request |-> "idle"]
    /\ wanted = [q \in Request |-> Null]
    /\ found = [q \in Request |-> Null]
    /\ pickled = [q \in Request |-> FALSE]
    /\ loaded = [q \in Request |-> Null]
    /\ scored = [q \in Request |-> Null]
    /\ shadow = [q \in Request |-> Null]
    /\ crashed = FALSE /\ overlap = FALSE /\ demoted = FALSE
    /\ calm = [q \in Request |-> FALSE]

(***************************************************************************)
(* A script fits and validates its models in memory; if that fails nothing *)
(* is written.  Then it has its writes to make.                            *)
(***************************************************************************)
Starts(w, program) ==
    /\ step[w] = "idle"
    /\ todo' = [todo EXCEPT ![w] = program]
    /\ step' = [step EXCEPT ![w] = "ready"]
    /\ UNCHANGED <<disk, snap, crashed, overlap, demoted, loadVars, calm>>

ScriptStarts(s, program) ==
    /\ Starts(s, program)
    /\ before' = [before EXCEPT ![s] =
                     {Origin} \cup {r \in Script : step[r] = "done"}]

StartProduction(s) == ScriptStarts(s, ProductionProgram)
StartBenchmark(s) == ScriptStarts(s, BenchmarkProgram)
StartRetraining(s) == \E v \in Named : ScriptStarts(s, Register(v))

\* --promote decides how far the version goes.
StartScorecard(s) ==
    \E v \in Named : \E told \in {<<Do("validated", v)>>, Promote(v)} :
        ScriptStarts(s, Register(v) \o told)

StartPromotion(a) ==
    /\ disk[IndexFile] # Torn
    /\ \E v \in Version :
          LET s == disk[IndexFile][v].status
          IN /\ s # "unregistered"
             /\ Starts(a, IF s = "candidate" THEN Promote(v)
                          ELSE <<Do("active", v)>>)
    /\ UNCHANGED before

(***************************************************************************)
(* One write.  An operation on the index first reads it, and fails when it *)
(* is torn or the transition is not allowed.                               *)
(***************************************************************************)
Accepted(w) ==
    /\ disk[IndexFile] # Torn
    /\ \/ Head(todo[w]).op = "upsert"
       \/ Head(todo[w]).op \in
             Allowed(disk[IndexFile][Head(todo[w]).version].status)

\* The writers with file f in hand.
Using(f) == {w \in Writer : /\ step[w] \in {"read", "writing"}
                            /\ FileOf(Head(todo[w])) = f}

ReadIndex(w) ==
    /\ step[w] = "ready"
    /\ OnIndex(Head(todo[w]))
    /\ Accepted(w)
    /\ snap' = [snap EXCEPT ![w] = disk[IndexFile]]
    /\ step' = [step EXCEPT ![w] = "read"]
    /\ overlap' = (overlap \/ Using(IndexFile) # {})
    /\ UNCHANGED <<disk, todo, before, crashed, demoted, loadVars, calm>>

Open(w) ==
    /\ step[w] \in {"ready", "read"}
    /\ OnIndex(Head(todo[w])) => step[w] = "read"
    /\ LET f == FileOf(Head(todo[w]))
       IN /\ disk' = [disk EXCEPT ![f] = Torn]
          /\ overlap' = (overlap \/ Using(f) \ {w} # {})
    /\ step' = [step EXCEPT ![w] = "writing"]
    /\ calm' = [q \in Request |-> FALSE]
    /\ UNCHANGED <<todo, snap, before, crashed, demoted, loadVars>>

Demotes(index, o) ==
    o.op = "upsert" /\ index[o.version].status = "active"

\* Of two that had the file open at once the last may leave a mixture.
Dump(w) ==
    /\ step[w] = "writing"
    /\ LET o == Head(todo[w])
           f == FileOf(o)
       IN /\ \/ disk' = [disk EXCEPT ![f] = Written(w)]
             \/ /\ disk[f] # Torn \/ Using(f) # {w}
                /\ disk' = [disk EXCEPT ![f] = Torn]
          /\ demoted' = (demoted \/ Demotes(snap[w], o))
    /\ todo' = [todo EXCEPT ![w] = Tail(todo[w])]
    /\ snap' = [snap EXCEPT ![w] = Null]
    /\ step' = [step EXCEPT ![w] = IF Len(todo[w]) = 1 THEN "done" ELSE "ready"]
    /\ UNCHANGED <<before, crashed, overlap, loadVars, calm>>

Ends(w) ==
    /\ step' = [step EXCEPT ![w] = "done"]
    /\ todo' = [todo EXCEPT ![w] = << >>]
    /\ snap' = [snap EXCEPT ![w] = Null]
    /\ UNCHANGED <<disk, before, overlap, demoted, loadVars, calm>>

\* The operation raises, and the script or the promotion ends.
Raise(w) ==
    /\ step[w] = "ready"
    /\ OnIndex(Head(todo[w]))
    /\ ~Accepted(w)
    /\ Ends(w)
    /\ UNCHANGED crashed

Crash(w) ==
    /\ step[w] \in {"ready", "read", "writing"}
    /\ crashed' = (crashed \/ step[w] = "writing")
    /\ Ends(w)

----------------------------------------------------------------------------
(***************************************************************************)
(* _load_scorecard_from_registry, for the score and then for the shadow.   *)
(* An exception answers 500; in the shadow it only leaves the shadow out.  *)
(***************************************************************************)
Goes(q, to) == stage' = [stage EXCEPT ![q] = to]

Main(q) == scored[q] = Null

Fails(q) ==
    /\ Goes(q, IF Main(q) THEN "failed" ELSE "done")
    /\ UNCHANGED <<found, pickled, loaded>>

FallsBack(q) ==
    /\ loaded' = [loaded EXCEPT ![q] = BuiltIn]
    /\ Goes(q, "score")
    /\ UNCHANGED pickled

Loading(q, at) ==
    /\ stage[q] = at
    /\ UNCHANGED <<diskVars, calm, wanted, scored, shadow>>

Ask(q) ==
    /\ stage[q] = "idle"
    /\ \E v \in Version \cup {Null} : wanted' = [wanted EXCEPT ![q] = v]
    /\ calm' = [calm EXCEPT ![q] = \A w \in Writer : step[w] # "writing"]
    /\ Goes(q, "look")
    /\ UNCHANGED <<diskVars, found, pickled, loaded, scored, shadow>>

\* get, or get_active: the records it may answer.
Candidates(index, v) ==
    IF v = Null THEN {index[u] : u \in InStatus(index, "active")}
    ELSE {r \in {index[v]} : r.status # "unregistered"}

Look(q) ==
    /\ Loading(q, "look")
    /\ IF disk[IndexFile] = Torn THEN Fails(q)
       ELSE IF Candidates(disk[IndexFile], wanted[q]) = {}
       THEN FallsBack(q) /\ UNCHANGED found
       ELSE /\ \E r \in Candidates(disk[IndexFile], wanted[q]) :
                  found' = [found EXCEPT ![q] = r]
            /\ Goes(q, "locate")
            /\ UNCHANGED <<pickled, loaded>>

\* artifact_path reads the index again.
Locate(q) ==
    /\ Loading(q, "locate")
    /\ IF disk[IndexFile] = Torn THEN Fails(q)
       ELSE /\ IF \/ disk[IndexFile][found[q].version].status = "unregistered"
                  \/ disk[Card(found[q].version)] = Null
               THEN FallsBack(q)
               ELSE Goes(q, "sniff") /\ UNCHANGED <<pickled, loaded>>
            /\ UNCHANGED found

\* Seeded fault for LooksPickled: the name of the file is believed.
PickledByName(v) == {FALSE}

\* A pickle begins with 0x80; a file that was just emptied does not.
LooksPickled(v) ==
    {IsPickle(v)} \cup IF disk[Card(v)] = Torn THEN {FALSE} ELSE {}

Sniff(q) ==
    /\ Loading(q, "sniff")
    /\ \E b \in LooksPickled(found[q].version) :
          pickled' = [pickled EXCEPT ![q] = b]
    /\ Goes(q, "load")
    /\ UNCHANGED <<found, loaded>>

\* pickle.load or json.load of what the file holds now.
Load(q) ==
    /\ Loading(q, "load")
    /\ LET content == disk[Card(found[q].version)]
       IN IF content = Torn \/ pickled[q] # IsPickle(found[q].version)
          THEN Fails(q)
          ELSE /\ loaded' = [loaded EXCEPT ![q] = content]
               /\ Goes(q, "means")
               /\ UNCHANGED <<found, pickled>>

ReadMeans(q) ==
    /\ Loading(q, "means")
    /\ IF disk[Report(found[q].version)] = Torn THEN Fails(q)
       ELSE Goes(q, "score") /\ UNCHANGED <<found, pickled, loaded>>

\* What was loaded: the built-in card, or the card of the record found.
By(q) == IF loaded[q] = BuiltIn THEN BuiltIn ELSE found[q].version

\* A dict has no predict_probability.
Unusable(q) == loaded[q] # BuiltIn /\ FormatOf[found[q].version] = "dict"

\* generate_score, after the card is loaded.
Score(q) ==
    /\ stage[q] = "score"
    /\ UNCHANGED <<diskVars, calm, wanted>>
    /\ IF Unusable(q) THEN Fails(q) /\ UNCHANGED <<scored, shadow>>
       ELSE /\ IF Main(q)
               THEN /\ scored' = [scored EXCEPT ![q] =
                           [version |-> By(q), run |-> loaded[q],
                            asked |-> wanted[q], record |-> found[q]]]
                    /\ Goes(q, "list")
                    /\ UNCHANGED shadow
               ELSE /\ shadow' = [shadow EXCEPT ![q] =
                           [label |-> wanted[q], version |-> By(q)]]
                    /\ Goes(q, "done")
                    /\ UNCHANGED scored
            /\ found' = [found EXCEPT ![q] = Null]
            /\ pickled' = [pickled EXCEPT ![q] = FALSE]
            /\ loaded' = [loaded EXCEPT ![q] = Null]

\* _run_shadow_scoring takes the first candidate in the order of the file,
\* which the model leaves open, other than the version that scored.
Challengers(q) ==
    InStatus(disk[IndexFile], "candidate") \ {scored[q].version}

List(q) ==
    /\ stage[q] = "list"
    /\ UNCHANGED <<diskVars, calm, found, pickled, loaded, scored, shadow>>
    /\ IF disk[IndexFile] = Torn \/ Challengers(q) = {}
       THEN Goes(q, "done") /\ UNCHANGED wanted
       ELSE /\ \E v \in Challengers(q) : wanted' = [wanted EXCEPT ![q] = v]
            /\ Goes(q, "look")

----------------------------------------------------------------------------
Write(w) == ReadIndex(w) \/ Open(w) \/ Dump(w) \/ Raise(w) \/ Crash(w)

Next ==
    \/ \E s \in Script : \/ StartProduction(s) \/ StartBenchmark(s)
                         \/ StartRetraining(s) \/ StartScorecard(s)
    \/ \E a \in Admin : StartPromotion(a)
    \/ \E w \in Writer : Write(w)
    \/ \E q \in Request : \/ Ask(q) \/ Look(q) \/ Locate(q) \/ Sniff(q)
                          \/ Load(q) \/ ReadMeans(q) \/ Score(q) \/ List(q)

Spec == Init /\ [][Next]_vars

----------------------------------------------------------------------------
(***************************************************************************)
(* Properties.                                                             *)
(***************************************************************************)
TypeOK ==
    /\ DOMAIN disk = {IndexFile} \cup {Card(v) : v \in Version}
                         \cup {Report(v) : v \in Version}
    /\ disk[IndexFile] \in Index \cup {Torn}
    /\ \A v \in Version : /\ disk[Card(v)] \in Run \cup {Null, Torn}
                          /\ disk[Report(v)] \in Run \cup {Null, Torn}
    /\ todo \in [Writer -> Seq(Op)]
    /\ snap \in [Writer -> Index \cup {Null}]
    /\ step \in [Writer -> {"idle", "ready", "read", "writing", "done"}]
    /\ \A w \in Writer : step[w] \in {"ready", "read", "writing"}
                            => todo[w] # << >>
    /\ before \in [Run -> SUBSET Run]
    /\ stage \in [Request -> {"idle", "look", "locate", "sniff", "load",
                              "means", "score", "list", "failed", "done"}]
    /\ wanted \in [Request -> Version \cup {Null}]
    /\ found \in [Request -> Record \cup {Null}]
    /\ pickled \in [Request -> BOOLEAN]
    /\ loaded \in [Request -> Run \cup {BuiltIn, Null}]
    /\ scored \in [Request -> {Null} \cup Answer]
    /\ shadow \in [Request -> {Null} \cup
                      [label : Version, version : Version \cup {BuiltIn}]]
    /\ crashed \in BOOLEAN /\ overlap \in BOOLEAN /\ demoted \in BOOLEAN
    /\ calm \in [Request -> BOOLEAN]

(***************************************************************************)
(* The index never runs ahead of the files: a score is never made with a   *)
(* card of a run that was over before the run began whose record the       *)
(* request found, whatever is overwritten meanwhile, crashes or loses its  *)
(* update.                                                                 *)
(***************************************************************************)
ServedNotOlder ==
    \A q \in Request :
        scored[q] # Null /\ scored[q].version # BuiltIn =>
            scored[q].run \notin before[scored[q].record.run]

(***************************************************************************)
(* The silent fall-back of _load_scorecard_from_registry: the built-in     *)
(* card scores a request for the active model, or poses as a challenger,   *)
(* only after a script has registered the active version again or two      *)
(* processes had the index in hand at once.                                *)
(***************************************************************************)
FallBackExplained ==
    ~demoted /\ ~overlap =>
        \A q \in Request :
            /\ scored[q] # Null /\ scored[q].version = BuiltIn
                  => scored[q].asked # Null
            /\ shadow[q] # Null => shadow[q].version = shadow[q].label

(***************************************************************************)
(* A request for a score fails only where a file was being written during  *)
(* it, a crash or a collision has left one that is not whole, or the card  *)
(* found is one that was pickled as a dict.                                *)
(***************************************************************************)
FailureExplained ==
    \A q \in Request :
        stage[q] = "failed" =>
            \/ ~calm[q] \/ crashed \/ overlap
            \/ found[q] # Null /\ FormatOf[found[q].version] = "dict"

(***************************************************************************)
(* "Scoring service that loads the active registered model at request      *)
(* time" (docs/phase3/ml_system.md): while nothing is written and no file  *)
(* is damaged a request is answered, whichever registered version it is    *)
(* for.                                                                    *)
(***************************************************************************)
ServedWhenQuiet ==
    \A q \in Request :
        stage[q] = "failed" => ~calm[q] \/ crashed \/ overlap
============================================================================

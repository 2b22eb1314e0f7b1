-------------------------- MODULE ModelStoreProofs --------------------------
(***************************************************************************)
(* Proofs about ModelStore, for any scripts, promotions, requests and      *)
(* versions, any format of their cards and any index the repository ships. *)
(***************************************************************************)
EXTENDS ModelStore, SequenceTheorems, TLAPS

----------------------------------------------------------------------------
(***************************************************************************)
(* What scripts are given to do: nothing but operations, at least one, and *)
(* a version's record only after its card.                                 *)
(***************************************************************************)
Ordered(p) ==
    \A i \in 1 .. Len(p) : p[i].op = "upsert" =>
        \E j \in 1 .. i - 1 : p[j] = Do("card", p[i].version)

Program == {p \in Seq(Op) : p # << >> /\ Ordered(p)}

\* One program after another is a program.
LEMMA ProgramsInARow ==
    ASSUME NEW p \in Program, NEW r \in Program
    PROVE  p \o r \in Program
<1>1. p \in Seq(Op) /\ r \in Seq(Op) /\ p # << >>
  BY DEF Program
<1>2. p \o r \in Seq(Op) /\ Len(p \o r) = Len(p) + Len(r)
  BY <1>1
<1>3. p \o r # << >>
  BY <1>1, <1>2, EmptySeq, LenProperties
<1>4. \A i \in 1 .. Len(p) : (p \o r)[i] = p[i]
  BY <1>1
<1>5. \A i \in 1 .. Len(r) : (p \o r)[Len(p) + i] = r[i]
  BY <1>1
<1>6. Len(p) \in Nat /\ Len(r) \in Nat
  BY <1>1
<1>7. ASSUME NEW i \in 1 .. Len(p \o r), (p \o r)[i].op = "upsert"
      PROVE  \E j \in 1 .. i - 1 : (p \o r)[j] = Do("card", (p \o r)[i].version)
  <2>1. CASE i \in 1 .. Len(p)
    <3>1. p[i].op = "upsert"
      BY <1>4, <1>7, <2>1
    <3>2. PICK j \in 1 .. i - 1 : p[j] = Do("card", p[i].version)
      BY <2>1, <3>1 DEF Program, Ordered
    <3>3. j \in 1 .. Len(p)
      BY <1>6, <2>1, <3>2
    <3>4. QED
      BY <1>4, <2>1, <3>2, <3>3
  <2>2. CASE i \notin 1 .. Len(p)
    <3> DEFINE k == i - Len(p)
    <3>1. k \in 1 .. Len(r) /\ i = Len(p) + k
      BY <1>2, <1>6, <1>7, <2>2
    <3>2. (p \o r)[i] = r[k]
      BY <1>5, <3>1
    <3> HIDE DEF k
    <3>3. PICK j \in 1 .. k - 1 : r[j] = Do("card", r[k].version)
      BY <1>7, <3>1, <3>2 DEF Program, Ordered
    <3>4. j \in 1 .. Len(r) /\ Len(p) + j \in 1 .. i - 1
      BY <1>6, <3>1, <3>3
    <3>5. (p \o r)[Len(p) + j] = Do("card", (p \o r)[i].version)
      BY <1>5, <3>2, <3>3, <3>4
    <3>6. QED
      BY <3>4, <3>5
  <2>3. QED
    BY <2>1, <2>2
<1>8. QED
  BY <1>2, <1>3, <1>7 DEF Program, Ordered

LEMMA PiecesArePrograms ==
    ASSUME NEW v \in Version
    PROVE  /\ Register(v) \in Program /\ Save(v) \in Program
           /\ Promote(v) \in Program /\ <<Do("validated", v)>> \in Program
<1>1. \A o \in {"card", "report", "upsert", "validated", "active"} : Do(o, v) \in Op
  BY DEF Op, Do
<1>2. Register(v) \in Program
  <2>1. Register(v) \in Seq(Op) /\ Register(v) # << >>
    BY <1>1 DEF Register
  <2>2. Ordered(Register(v))
    BY DEF Ordered, Register, Do
  <2>3. QED
    BY <2>1, <2>2 DEF Program
<1>3. Save(v) \in Program
  <2>1. Save(v) \in Seq(Op) /\ Save(v) # << >>
    BY <1>1 DEF Save
  <2>2. Ordered(Save(v))
    BY DEF Ordered, Save, Do
  <2>3. QED
    BY <2>1, <2>2 DEF Program
<1>4. Promote(v) \in Program
  <2>1. Promote(v) \in Seq(Op) /\ Promote(v) # << >>
    BY <1>1 DEF Promote
  <2>2. Ordered(Promote(v))
    BY DEF Ordered, Promote, Do
  <2>3. QED
    BY <2>1, <2>2 DEF Program
<1>5. <<Do("validated", v)>> \in Program
  <2>1. <<Do("validated", v)>> \in Seq(Op) /\ <<Do("validated", v)>> # << >>
    BY <1>1
  <2>2. Ordered(<<Do("validated", v)>>)
    BY DEF Ordered, Do
  <2>3. QED
    BY <2>1, <2>2 DEF Program
<1>6. QED
  BY <1>2, <1>3, <1>4, <1>5

LEMMA ScriptsRunPrograms ==
    /\ ProductionProgram \in Program
    /\ BenchmarkProgram \in Program
<1>1. Champion \in Version /\ Challenger \in Version /\ Baseline \in Version
  BY StoreAssumption
<1>2. /\ Save(Champion) \in Program /\ Save(Challenger) \in Program
      /\ Save(Baseline) \in Program /\ Promote(Champion) \in Program
      /\ Register(Champion) \in Program /\ Register(Challenger) \in Program
      /\ Register(Baseline) \in Program
  BY <1>1, PiecesArePrograms
<1>3. ProductionProgram \in Program
  <2>1. Save(Champion) \o Save(Challenger) \in Program
    BY <1>2, ProgramsInARow
  <2>2. Save(Champion) \o Save(Challenger) \o Register(Champion) \in Program
    BY <1>2, <2>1, ProgramsInARow
  <2>3. Save(Champion) \o Save(Challenger) \o Register(Champion)
            \o Register(Challenger) \in Program
    BY <1>2, <2>2, ProgramsInARow
  <2>4. QED
    BY <1>2, <2>3, ProgramsInARow DEF ProductionProgram
<1>4. BenchmarkProgram \in Program
  <2>1. Save(Baseline) \o Register(Baseline) \in Program
    BY <1>2, ProgramsInARow
  <2>2. Save(Baseline) \o Register(Baseline) \o Save(Champion) \in Program
    BY <1>2, <2>1, ProgramsInARow
  <2>3. Save(Baseline) \o Register(Baseline) \o Save(Champion)
            \o Register(Champion) \in Program
    BY <1>2, <2>2, ProgramsInARow
  <2>4. Save(Baseline) \o Register(Baseline) \o Save(Champion)
            \o Register(Champion) \o Save(Challenger) \in Program
    BY <1>2, <2>3, ProgramsInARow
  <2>5. Save(Baseline) \o Register(Baseline) \o Save(Champion)
            \o Register(Champion) \o Save(Challenger)
            \o Register(Challenger) \in Program
    BY <1>2, <2>4, ProgramsInARow
  <2>6. QED
    BY <1>2, <2>5, ProgramsInARow DEF BenchmarkProgram
<1>5. QED
  BY <1>3, <1>4

\* Whichever script it is, what it starts with is a program.
LEMMA ScriptStart ==
    ASSUME NEW s \in Script,
           StartProduction(s) \/ StartBenchmark(s) \/ StartRetraining(s)
               \/ StartScorecard(s)
    PROVE  \E p \in Program : ScriptStarts(s, p)
<1>1. Named \subseteq Version
  BY StoreAssumption
<1>2. CASE StartProduction(s)
  BY <1>2, ScriptsRunPrograms DEF StartProduction
<1>3. CASE StartBenchmark(s)
  BY <1>3, ScriptsRunPrograms DEF StartBenchmark
<1>4. CASE StartRetraining(s)
  BY <1>1, <1>4, PiecesArePrograms DEF StartRetraining
<1>5. CASE StartScorecard(s)
  <2>1. PICK v \in Named :
            \E told \in {<<Do("validated", v)>>, Promote(v)} :
                ScriptStarts(s, Register(v) \o told)
    BY <1>5 DEF StartScorecard
  <2>3. PICK told \in {<<Do("validated", v)>>, Promote(v)} :
            ScriptStarts(s, Register(v) \o told)
    BY <2>1
  <2>2. told \in Program /\ Register(v) \in Program
    BY <1>1, PiecesArePrograms
  <2>4. QED
    BY <2>2, <2>3, ProgramsInARow
<1>6. QED
  BY <1>2, <1>3, <1>4, <1>5
----------------------------------------------------------------------------
(***************************************************************************)
(* Types.  Who is about to write the index has read one that allows it;    *)
(* promotions only change statuses; a request that has a record to load    *)
(* found a card in its place, and no card is ever taken away.              *)
(***************************************************************************)
Handed ==
    \A w \in Writer :
        /\ step[w] = "read" => OnIndex(Head(todo[w]))
        /\ step[w] \in {"read", "writing"} /\ OnIndex(Head(todo[w])) =>
              /\ snap[w] \in Index
              /\ Head(todo[w]).op # "upsert" =>
                    Head(todo[w]).op
                        \in Allowed(snap[w][Head(todo[w]).version].status)

AdminsPromote ==
    \A a \in Admin : \A i \in 1 .. Len(todo[a]) :
        todo[a][i].op \in {"validated", "active"}

DiskOK ==
    /\ DOMAIN disk = {IndexFile} \cup {Card(v) : v \in Version}
                         \cup {Report(v) : v \in Version}
    /\ disk[IndexFile] \in Index \cup {Torn}
    /\ \A v \in Version : /\ disk[Card(v)] \in Run \cup {Null, Torn}
                          /\ disk[Report(v)] \in Run \cup {Null, Torn}
    /\ todo \in [Writer -> Seq(Op)]
    /\ snap \in [Writer -> Index \cup {Null}]
    /\ step \in [Writer -> {"idle", "ready", "read", "writing", "done"}]
    /\ \A w \in Writer : step[w] \in {"ready", "read", "writing"}
                            => todo[w] # << >>
    /\ before \in [Run -> SUBSET Run]
    /\ crashed \in BOOLEAN /\ overlap \in BOOLEAN /\ demoted \in BOOLEAN
    /\ Handed
    /\ AdminsPromote

Serving ==
    \A q \in Request :
        /\ stage[q] \in {"locate", "sniff", "load", "means"}
              => found[q] # Null
        /\ stage[q] \in {"sniff", "load"}
              => disk[Card(found[q].version)] # Null
        /\ stage[q] = "means" => loaded[q] \in Run
        /\ stage[q] = "score" =>
              loaded[q] = BuiltIn \/ (loaded[q] \in Run /\ found[q] # Null)
        /\ stage[q] = "list" => scored[q] # Null
        /\ stage[q] = "idle" => scored[q] = Null
        /\ scored[q] # Null /\ stage[q] \notin {"list", "done"}
              => wanted[q] # Null

LoadOK ==
    /\ stage \in [Request -> {"idle", "look", "locate", "sniff", "load",
                              "means", "score", "list", "failed", "done"}]
    /\ wanted \in [Request -> Version \cup {Null}]
    /\ found \in [Request -> Record \cup {Null}]
    /\ pickled \in [Request -> BOOLEAN]
    /\ loaded \in [Request -> Run \cup {BuiltIn, Null}]
    /\ scored \in [Request -> {Null} \cup Answer]
    /\ shadow \in [Request -> {Null} \cup
                      [label : Version, version : Version \cup {BuiltIn}]]
    /\ calm \in [Request -> BOOLEAN]
    /\ Serving

LEMMA InitTypes == Init => DiskOK /\ LoadOK
<1> SUFFICES ASSUME Init PROVE DiskOK /\ LoadOK
  OBVIOUS
<1> USE StoreAssumption
<1>1. /\ DOMAIN disk = {IndexFile} \cup {Card(v) : v \in Version}
                           \cup {Report(v) : v \in Version}
      /\ disk[IndexFile] = Shipped
  BY DEF Init
<1>2. \A v \in Version : /\ disk[Card(v)] \in Run \cup {Null, Torn}
                         /\ disk[Report(v)] \in Run \cup {Null, Torn}
  BY DEF Init, Card, Report, IndexFile, Run
<1>4. DiskOK
  <2>1. /\ todo \in [Writer -> Seq(Op)]
        /\ snap \in [Writer -> Index \cup {Null}]
        /\ step \in [Writer -> {"idle", "ready", "read", "writing", "done"}]
    BY DEF Init
  <2>7. before \in [Run -> SUBSET Run]
    BY DEF Init, Run
  <2>8. crashed \in BOOLEAN /\ overlap \in BOOLEAN /\ demoted \in BOOLEAN
    BY DEF Init
  <2>2. Handed
    BY DEF Init, Handed
  <2>3. AdminsPromote
    <3>1. \A a \in Admin : todo[a] = << >>
      BY DEF Init, Writer
    <3>2. \A i \in 1 .. Len(<< >>) : FALSE
      OBVIOUS
    <3>3. QED
      BY <3>1, <3>2 DEF AdminsPromote
  <2>4. \A w \in Writer : step[w] = "idle"
    BY DEF Init
  <2>5. disk[IndexFile] \in Index
    BY <1>1
  <2>6. QED
    BY <1>1, <1>2, <2>1, <2>2, <2>3, <2>4, <2>5, <2>7, <2>8 DEF DiskOK
<1>5. LoadOK
  BY DEF Init, LoadOK, Serving
<1>6. QED
  BY <1>4, <1>5

\* What a writer has in hand.
LEMMA InHand ==
    ASSUME DiskOK, NEW w \in Writer, step[w] \in {"ready", "read", "writing"}
    PROVE  /\ Head(todo[w]) \in Op
           /\ Tail(todo[w]) \in Seq(Op)
           /\ FileOf(Head(todo[w])) \in DOMAIN disk
           /\ OnIndex(Head(todo[w])) <=> FileOf(Head(todo[w])) = IndexFile
           /\ \A v \in Version : FileOf(Head(todo[w])) = Card(v)
                  <=> Head(todo[w]) = Do("card", v)
           /\ ~OnIndex(Head(todo[w])) \/ Head(todo[w]).op = "upsert"
                 => w \in Script
           /\ \A i \in 1 .. Len(Tail(todo[w])) :
                 /\ i + 1 \in 1 .. Len(todo[w])
                 /\ Tail(todo[w])[i] = todo[w][i + 1]
           /\ Head(todo[w]) = todo[w][1]
           /\ 1 \in 1 .. Len(todo[w])
           /\ Len(todo[w]) # 1 => Tail(todo[w]) # << >>
<1>1. todo[w] \in Seq(Op) /\ todo[w] # << >>
  BY DEF DiskOK
<1>2. Head(todo[w]) \in Op /\ Tail(todo[w]) \in Seq(Op)
  BY <1>1, HeadTailProperties
<1>3. /\ Head(todo[w]) = todo[w][1]
      /\ Len(todo[w]) \in Nat \ {0}
      /\ Len(Tail(todo[w])) = Len(todo[w]) - 1
      /\ \A i \in 1 .. Len(Tail(todo[w])) : Tail(todo[w])[i] = todo[w][i + 1]
  BY <1>1, HeadTailProperties, EmptySeq, LenProperties
<1>4. 1 \in 1 .. Len(todo[w])
  BY <1>3
<1>5. \A i \in 1 .. Len(Tail(todo[w])) : i + 1 \in 1 .. Len(todo[w])
  BY <1>3
<1>6. Len(todo[w]) # 1 => Tail(todo[w]) # << >>
  <2>1. SUFFICES ASSUME Tail(todo[w]) = << >> PROVE Len(todo[w]) = 1
    OBVIOUS
  <2>2. Len(Tail(todo[w])) = 0
    BY <1>2, <2>1, EmptySeq
  <2>3. QED
    BY <1>3, <2>2
<1>7. /\ FileOf(Head(todo[w])) \in DOMAIN disk
      /\ OnIndex(Head(todo[w])) <=> FileOf(Head(todo[w])) = IndexFile
      /\ \A v \in Version : FileOf(Head(todo[w])) = Card(v)
             <=> Head(todo[w]) = Do("card", v)
  BY <1>2 DEF DiskOK, FileOf, OnIndex, Op, IndexFile, Card, Report, Do
<1>8. ASSUME w \in Admin
      PROVE  OnIndex(Head(todo[w])) /\ Head(todo[w]).op # "upsert"
  BY <1>3, <1>4, <1>8 DEF DiskOK, AdminsPromote, OnIndex
<1>9. QED
  BY <1>2, <1>3, <1>4, <1>5, <1>6, <1>7, <1>8 DEF Writer

\* What a write leaves is an index or the writer's own card or report.
LEMMA WrittenType ==
    ASSUME DiskOK, NEW w \in Writer, step[w] = "writing"
    PROVE  /\ OnIndex(Head(todo[w])) => Written(w) \in Index
           /\ ~OnIndex(Head(todo[w])) => Written(w) = w /\ w \in Run
<1> DEFINE o == Head(todo[w])
<1>1. /\ o \in Op
      /\ ~OnIndex(o) \/ o.op = "upsert" => w \in Script
  BY InHand
<1>2. OnIndex(o) => snap[w] \in Index
  BY DEF DiskOK, Handed
<1>3. \A i \in Index, v \in Version, s \in Script : Registered(i, s, v) \in Index
  BY DEF Registered, Index, Record, Status, Run
<1>4. \A i \in Index, v \in Version, to \in {"validated", "active"} :
         Promoted(i, v, to) \in Index
  BY DEF Promoted, Index, Record, Status
<1>5. o.version \in Version /\ o.op \in {"card", "report", "upsert", "validated", "active"}
  BY <1>1 DEF Op
<1>6. CASE ~OnIndex(o)
  BY <1>1, <1>6 DEF Written, Run, OnIndex
<1>7. CASE OnIndex(o) /\ o.op = "upsert"
  BY <1>1, <1>2, <1>3, <1>5, <1>7 DEF Written
<1>8. CASE OnIndex(o) /\ o.op # "upsert"
  <2>1. Written(w) = Promoted(snap[w], o.version, o.op)
    BY <1>8 DEF Written
  <2>2. o.op \in {"validated", "active"}
    BY <1>5, <1>8 DEF OnIndex
  <2>3. QED
    BY <1>2, <1>4, <1>5, <1>8, <2>1, <2>2
<1>9. QED
  BY <1>6, <1>7, <1>8

\* The four ways for a writer to move.
Begins(w) ==
    \/ w \in Script /\ \E p \in Program : ScriptStarts(w, p)
    \/ w \in Admin /\ StartPromotion(w)

LEMMA BeginsOne ==
    ASSUME NEW w \in Writer, Begins(w)
    PROVE  \E p \in Seq(Op) :
              /\ p # << >>
              /\ Starts(w, p)
              /\ w \in Script => Ordered(p)
              /\ w \in Admin => \A i \in 1 .. Len(p) :
                                   p[i].op \in {"validated", "active"}
              /\ w \in Script => before' = [before EXCEPT ![w] =
                     {Origin} \cup {r \in Script : step[r] = "done"}]
              /\ w \in Admin => before' = before
<1>1. CASE w \in Script /\ \E p \in Program : ScriptStarts(w, p)
  <2>1. w \notin Admin
    BY <1>1, StoreAssumption
  <2>2. QED
    BY <1>1, <2>1 DEF ScriptStarts, Program
<1>2. CASE w \in Admin /\ StartPromotion(w)
  <2>1. w \notin Script
    BY <1>2, StoreAssumption
  <2>2. PICK v \in Version :
            Starts(w, Promote(v)) \/ Starts(w, <<Do("active", v)>>)
    BY <1>2 DEF StartPromotion
  <2>3. \A o \in {"validated", "active"} : Do(o, v) \in Op
    BY DEF Do, Op
  <2>4. /\ Promote(v) \in Seq(Op) /\ Promote(v) # << >>
        /\ <<Do("active", v)>> \in Seq(Op) /\ <<Do("active", v)>> # << >>
    BY <2>3 DEF Promote
  <2>5. /\ \A i \in 1 .. Len(Promote(v)) :
              Promote(v)[i].op \in {"validated", "active"}
        /\ \A i \in 1 .. Len(<<Do("active", v)>>) :
              <<Do("active", v)>>[i].op \in {"validated", "active"}
    BY DEF Promote, Do
  <2>6. before' = before
    BY <1>2 DEF StartPromotion
  <2>7. QED
    BY <1>2, <2>1, <2>2, <2>4, <2>5, <2>6
<1>3. QED
  BY <1>1, <1>2 DEF Begins

Serves(q) == \/ Ask(q) \/ Look(q) \/ Locate(q) \/ Sniff(q)
             \/ Load(q) \/ ReadMeans(q) \/ Score(q) \/ List(q)

LEMMA NextSteps ==
    ASSUME [Next]_vars
    PROVE  \/ \E w \in Writer : Begins(w) \/ Write(w)
           \/ \E q \in Request : Serves(q)
           \/ UNCHANGED vars
<1>1. CASE \E s \in Script : \/ StartProduction(s) \/ StartBenchmark(s)
                             \/ StartRetraining(s) \/ StartScorecard(s)
  BY <1>1, ScriptStart DEF Begins, Writer
<1>2. CASE \E a \in Admin : StartPromotion(a)
  BY <1>2 DEF Begins, Writer
<1>3. CASE \E w \in Writer : Write(w)
  BY <1>3
<1>4. CASE \E q \in Request : Serves(q)
  BY <1>4
<1>5. QED
  BY <1>1, <1>2, <1>3, <1>4 DEF Next, Serves

LEMMA ServesLeavesDisk ==
    ASSUME NEW q \in Request, Serves(q)
    PROVE  UNCHANGED <<disk, todo, snap, step, before, crashed, overlap, demoted>>
BY DEF Serves, Ask, Look, Locate, Sniff, Load, ReadMeans, Score, List, Loading,
       diskVars

LEMMA WriterLeavesLoad ==
    ASSUME NEW w \in Writer, Begins(w) \/ Write(w)
    PROVE  /\ UNCHANGED <<stage, wanted, found, pickled, loaded, scored, shadow>>
           /\ calm' = calm \/ calm' = [q \in Request |-> FALSE]
<1>1. CASE Begins(w)
  BY <1>1, BeginsOne DEF Starts, loadVars
<1>2. CASE Write(w)
  BY <1>2 DEF Write, ReadIndex, Open, Dump, Raise, Crash, Ends, loadVars
<1>3. QED
  BY <1>1, <1>2

LEMMA BeginsDiskOK ==
    ASSUME DiskOK, NEW w \in Writer, Begins(w)
    PROVE  DiskOK'
<1>1. PICK p \in Seq(Op) :
          /\ p # << >>
          /\ Starts(w, p)
          /\ w \in Script => Ordered(p)
          /\ w \in Admin => \A i \in 1 .. Len(p) :
                               p[i].op \in {"validated", "active"}
          /\ w \in Script => before' = [before EXCEPT ![w] =
                 {Origin} \cup {r \in Script : step[r] = "done"}]
          /\ w \in Admin => before' = before
  BY BeginsOne
<1>2. before' \in [Run -> SUBSET Run]
  <2>1. CASE w \in Script
    <3>1. {Origin} \cup {r \in Script : step[r] = "done"} \in SUBSET Run
      BY DEF Run
    <3>2. QED
      BY <1>1, <2>1, <3>1 DEF DiskOK
  <2>2. CASE w \in Admin
    BY <1>1, <2>2 DEF DiskOK
  <2>3. QED
    BY <2>1, <2>2 DEF Writer
<1>3. Handed'
  BY <1>1 DEF Starts, DiskOK, Handed
<1>4. AdminsPromote'
  BY <1>1 DEF Starts, DiskOK, AdminsPromote, Writer
<1>5. /\ todo' \in [Writer -> Seq(Op)]
      /\ step' \in [Writer -> {"idle", "ready", "read", "writing", "done"}]
      /\ \A u \in Writer : step'[u] \in {"ready", "read", "writing"}
                              => todo'[u] # << >>
  BY <1>1 DEF Starts, DiskOK
<1>6. QED
  BY <1>1, <1>2, <1>3, <1>4, <1>5 DEF Starts, DiskOK

LEMMA EndsDiskOK ==
    ASSUME DiskOK, NEW w \in Writer, Ends(w), crashed' \in BOOLEAN
    PROVE  DiskOK'
<1>1. /\ todo' \in [Writer -> Seq(Op)]
      /\ step' \in [Writer -> {"idle", "ready", "read", "writing", "done"}]
      /\ snap' \in [Writer -> Index \cup {Null}]
      /\ \A u \in Writer : step'[u] \in {"ready", "read", "writing"}
                              => todo'[u] # << >>
  BY DEF Ends, DiskOK
<1>2. Handed'
  BY DEF Ends, DiskOK, Handed
<1>3. AdminsPromote'
  <2>1. ASSUME NEW a \in Admin, NEW i \in 1 .. Len(todo'[a])
        PROVE  todo'[a][i].op \in {"validated", "active"}
    <3>1. a \in Writer
      BY DEF Writer
    <3>2. CASE a = w
      <4>1. todo'[a] = << >>
        BY <3>1, <3>2 DEF Ends, DiskOK
      <4>2. QED
        BY <2>1, <4>1
    <3>3. CASE a # w
      <4>1. todo'[a] = todo[a]
        BY <3>1, <3>3 DEF Ends, DiskOK
      <4>2. QED
        BY <2>1, <4>1 DEF DiskOK, AdminsPromote
    <3>4. QED
      BY <3>2, <3>3
  <2>2. QED
    BY <2>1 DEF AdminsPromote
<1>4. QED
  BY <1>1, <1>2, <1>3 DEF Ends, DiskOK

LEMMA ReadDiskOK ==
    ASSUME DiskOK, NEW w \in Writer, ReadIndex(w)
    PROVE  DiskOK'
<1>1. disk[IndexFile] \in Index /\ Head(todo[w]) \in Op
  BY InHand DEF ReadIndex, Accepted, DiskOK
<1>2. /\ step' \in [Writer -> {"idle", "ready", "read", "writing", "done"}]
      /\ snap' \in [Writer -> Index \cup {Null}]
      /\ overlap' \in BOOLEAN
      /\ \A u \in Writer : step'[u] \in {"ready", "read", "writing"}
                              => todo'[u] # << >>
  BY <1>1 DEF ReadIndex, DiskOK
<1>3. Handed'
  BY <1>1 DEF ReadIndex, Accepted, DiskOK, Handed
<1>4. AdminsPromote'
  BY DEF ReadIndex, DiskOK, AdminsPromote
<1>5. QED
  BY <1>2, <1>3, <1>4 DEF ReadIndex, DiskOK

LEMMA OpenDiskOK ==
    ASSUME DiskOK, NEW w \in Writer, Open(w)
    PROVE  DiskOK'
<1> DEFINE f == FileOf(Head(todo[w]))
<1>1. step[w] \in {"ready", "read"} /\ f \in DOMAIN disk
  BY InHand DEF Open
<1>2. disk' = [disk EXCEPT ![f] = Torn]
  BY DEF Open
<1>3. /\ DOMAIN disk' = DOMAIN disk
      /\ \A g \in DOMAIN disk : disk'[g] = IF g = f THEN Torn ELSE disk[g]
  BY <1>1, <1>2
<1>4. /\ step' \in [Writer -> {"idle", "ready", "read", "writing", "done"}]
      /\ overlap' \in BOOLEAN
      /\ \A u \in Writer : step'[u] \in {"ready", "read", "writing"}
                              => todo'[u] # << >>
  BY DEF Open, DiskOK
<1>5. Handed'
  BY DEF Open, DiskOK, Handed
<1>6. AdminsPromote'
  BY DEF Open, DiskOK, AdminsPromote
<1> HIDE DEF f
<1>7. /\ disk'[IndexFile] \in Index \cup {Torn}
      /\ \A v \in Version : /\ disk'[Card(v)] \in Run \cup {Null, Torn}
                            /\ disk'[Report(v)] \in Run \cup {Null, Torn}
  BY <1>3 DEF DiskOK
<1>8. QED
  BY <1>3, <1>4, <1>5, <1>6, <1>7 DEF Open, DiskOK

LEMMA DumpDiskOK ==
    ASSUME DiskOK, NEW w \in Writer, Dump(w)
    PROVE  DiskOK'
<1> DEFINE f == FileOf(Head(todo[w]))
<1>1. step[w] = "writing" /\ f \in DOMAIN disk
  BY InHand DEF Dump
<1>2. PICK x \in {Written(w), Torn} : disk' = [disk EXCEPT ![f] = x]
  BY DEF Dump
<1>3. /\ DOMAIN disk' = DOMAIN disk
      /\ \A g \in DOMAIN disk : disk'[g] = IF g = f THEN x ELSE disk[g]
  BY <1>1, <1>2
<1>4. /\ f = IndexFile => x \in Index \cup {Torn}
      /\ f # IndexFile => x \in Run \cup {Torn}
  BY <1>1, InHand, WrittenType
<1>5. /\ step' \in [Writer -> {"idle", "ready", "read", "writing", "done"}]
      /\ snap' \in [Writer -> Index \cup {Null}]
      /\ demoted' \in BOOLEAN
  BY DEF Dump, DiskOK, Demotes
<1>6. /\ todo' \in [Writer -> Seq(Op)]
      /\ \A u \in Writer : step'[u] \in {"ready", "read", "writing"}
                              => todo'[u] # << >>
  BY <1>1, InHand DEF Dump, DiskOK
<1>7. Handed'
  BY DEF Dump, DiskOK, Handed
<1>8. AdminsPromote'
  <2>1. ASSUME NEW a \in Admin, NEW i \in 1 .. Len(todo'[a])
        PROVE  todo'[a][i].op \in {"validated", "active"}
    <3>1. a \in Writer
      BY DEF Writer
    <3>2. CASE a = w
      <4>1. todo'[a] = Tail(todo[w])
        BY <3>1, <3>2 DEF Dump, DiskOK
      <4>2. i + 1 \in 1 .. Len(todo[w]) /\ todo'[a][i] = todo[w][i + 1]
        BY <1>1, <2>1, <4>1, InHand
      <4>3. QED
        BY <3>2, <4>2 DEF DiskOK, AdminsPromote
    <3>3. CASE a # w
      <4>1. todo'[a] = todo[a]
        BY <3>1, <3>3 DEF Dump, DiskOK
      <4>2. QED
        BY <2>1, <4>1 DEF DiskOK, AdminsPromote
    <3>4. QED
      BY <3>2, <3>3
  <2>2. QED
    BY <2>1 DEF AdminsPromote
<1> HIDE DEF f
<1>9. /\ disk'[IndexFile] \in Index \cup {Torn}
      /\ \A v \in Version : /\ disk'[Card(v)] \in Run \cup {Null, Torn}
                            /\ disk'[Report(v)] \in Run \cup {Null, Torn}
  <2>1. /\ IndexFile \in DOMAIN disk
        /\ \A v \in Version : Card(v) \in DOMAIN disk /\ Report(v) \in DOMAIN disk
    BY DEF DiskOK
  <2>2. \A v \in Version : Card(v) # IndexFile /\ Report(v) # IndexFile
    BY DEF Card, Report, IndexFile
  <2>3. QED
    BY <1>3, <1>4, <2>1, <2>2 DEF DiskOK
<1>10. QED
  BY <1>3, <1>5, <1>6, <1>7, <1>8, <1>9 DEF Dump, DiskOK

LEMMA NextDiskOK == DiskOK /\ [Next]_vars => DiskOK'
<1> SUFFICES ASSUME DiskOK, [Next]_vars PROVE DiskOK'
  OBVIOUS
<1>1. CASE \E w \in Writer : Begins(w)
  BY <1>1, BeginsDiskOK
<1>2. ASSUME NEW w \in Writer, Write(w) PROVE DiskOK'
  <2>1. CASE Raise(w) \/ Crash(w)
    <3>1. Ends(w) /\ crashed' \in BOOLEAN
      BY <2>1 DEF Raise, Crash, DiskOK
    <3>2. QED
      BY <3>1, EndsDiskOK
  <2>2. QED
    BY <1>2, <2>1, ReadDiskOK, OpenDiskOK, DumpDiskOK DEF Write
<1>3. ASSUME NEW q \in Request, Serves(q) PROVE DiskOK'
  BY <1>3, ServesLeavesDisk DEF DiskOK, Handed, AdminsPromote
<1>4. CASE UNCHANGED vars
  BY <1>4 DEF vars, diskVars, DiskOK, Handed, AdminsPromote
<1>5. QED
  BY <1>1, <1>2, <1>3, <1>4, NextSteps

\* A card that is there stays there, whole or not.
LEMMA CardsStay ==
    ASSUME DiskOK, [Next]_vars, NEW v \in Version, disk[Card(v)] # Null
    PROVE  disk'[Card(v)] # Null
<1> USE StoreAssumption
<1>1. Card(v) \in DOMAIN disk
  BY DEF DiskOK
<1>2. ASSUME NEW w \in Writer, Open(w) PROVE disk'[Card(v)] # Null
  BY <1>1, <1>2 DEF Open
<1>3. ASSUME NEW w \in Writer, Dump(w) PROVE disk'[Card(v)] # Null
  <2>1. Written(w) # Null
    BY <1>3, WrittenType DEF Dump
  <2>2. PICK x \in {Written(w), Torn} :
            disk' = [disk EXCEPT ![FileOf(Head(todo[w]))] = x]
    BY <1>3 DEF Dump
  <2>3. QED
    BY <1>1, <2>1, <2>2
<1>4. ASSUME disk' = disk PROVE disk'[Card(v)] # Null
  BY <1>4
<1>5. ASSUME NEW w \in Writer, Begins(w) \/ Write(w)
      PROVE  disk' = disk \/ Open(w) \/ Dump(w)
  <2>1. CASE Begins(w)
    BY <2>1, BeginsOne DEF Starts
  <2>2. CASE Write(w)
    BY <2>2 DEF Write, ReadIndex, Raise, Crash, Ends
  <2>3. QED
    BY <1>5, <2>1, <2>2
<1>6. QED
  BY <1>2, <1>3, <1>4, <1>5, NextSteps, ServesLeavesDisk DEF vars, diskVars

LEMMA AskLoadOK ==
    ASSUME DiskOK, LoadOK, NEW q \in Request, Ask(q)
    PROVE  LoadOK'
<1>1. calm' \in [Request -> BOOLEAN] /\ disk' = disk
  BY DEF Ask, LoadOK, diskVars
<1>2. QED
  BY <1>1 DEF Ask, Goes, LoadOK, Serving

LEMMA LookLoadOK ==
    ASSUME DiskOK, LoadOK, NEW q \in Request, Look(q)
    PROVE  LoadOK'
<1> USE StoreAssumption
<1>1. disk' = disk /\ calm' = calm /\ wanted' = wanted /\ scored' = scored
        /\ shadow' = shadow /\ stage[q] = "look"
  BY DEF Look, Loading, diskVars
<1>2. CASE disk[IndexFile] = Torn
  BY <1>1, <1>2 DEF Look, Fails, Goes, Main, LoadOK, Serving
<1>3. CASE disk[IndexFile] # Torn /\ Candidates(disk[IndexFile], wanted[q]) = {}
  BY <1>1, <1>3 DEF Look, FallsBack, Goes, LoadOK, Serving
<1>4. CASE disk[IndexFile] # Torn /\ Candidates(disk[IndexFile], wanted[q]) # {}
  <2>1. PICK r \in Candidates(disk[IndexFile], wanted[q]) :
            found' = [found EXCEPT ![q] = r]
    BY <1>4 DEF Look
  <2>2. r \in Record
    <3>1. disk[IndexFile] \in Index
      BY <1>4 DEF DiskOK
    <3>2. wanted[q] \in Version \cup {Null}
      BY DEF LoadOK
    <3>3. QED
      BY <2>1, <3>1, <3>2 DEF Candidates, InStatus, Index
  <2>3. r # Null
    BY <2>2
  <2>4. QED
    BY <1>1, <1>4, <2>1, <2>2, <2>3 DEF Look, Goes, LoadOK, Serving
<1>5. QED
  BY <1>2, <1>3, <1>4

LEMMA LocateLoadOK ==
    ASSUME DiskOK, LoadOK, NEW q \in Request, Locate(q)
    PROVE  LoadOK'
<1> USE StoreAssumption
<1>1. disk' = disk /\ calm' = calm /\ wanted' = wanted /\ scored' = scored
        /\ shadow' = shadow /\ stage[q] = "locate"
  BY DEF Locate, Loading, diskVars
<1>2. CASE disk[IndexFile] = Torn
  BY <1>1, <1>2 DEF Locate, Fails, Goes, Main, LoadOK, Serving
<1>3. CASE disk[IndexFile] # Torn /\ FallsBack(q) /\ UNCHANGED found
  BY <1>1, <1>3 DEF FallsBack, Goes, LoadOK, Serving
<1>4. CASE /\ disk[IndexFile] # Torn /\ disk[Card(found[q].version)] # Null
           /\ Goes(q, "sniff") /\ UNCHANGED <<found, pickled, loaded>>
  BY <1>1, <1>4 DEF Goes, LoadOK, Serving
<1>5. QED
  BY <1>2, <1>3, <1>4 DEF Locate

LEMMA SniffLoadOK ==
    ASSUME DiskOK, LoadOK, NEW q \in Request, Sniff(q)
    PROVE  LoadOK'
<1>1. disk' = disk /\ calm' = calm /\ wanted' = wanted /\ scored' = scored
        /\ shadow' = shadow /\ stage[q] = "sniff"
        /\ found' = found /\ loaded' = loaded
  BY DEF Sniff, Loading, diskVars
<1>2. LooksPickled(found[q].version) \subseteq BOOLEAN
  BY DEF LooksPickled, IsPickle
<1>3. pickled' \in [Request -> BOOLEAN]
  BY <1>2 DEF Sniff, LoadOK
<1>4. QED
  BY <1>1, <1>3 DEF Sniff, Goes, LoadOK, Serving

LEMMA LoadLoadOK ==
    ASSUME DiskOK, LoadOK, NEW q \in Request, Load(q)
    PROVE  LoadOK'
<1> USE StoreAssumption
<1> DEFINE content == disk[Card(found[q].version)]
<1>1. disk' = disk /\ calm' = calm /\ wanted' = wanted /\ scored' = scored
        /\ shadow' = shadow /\ stage[q] = "load"
  BY DEF Load, Loading, diskVars
<1>2. CASE Fails(q)
  BY <1>1, <1>2 DEF Fails, Goes, Main, LoadOK, Serving
<1>3. CASE ~Fails(q)
  <2>1. /\ content # Torn
        /\ loaded' = [loaded EXCEPT ![q] = content]
        /\ Goes(q, "means")
        /\ UNCHANGED <<found, pickled>>
    BY <1>3 DEF Load
  <2>2. found[q].version \in Version
    BY <1>1 DEF LoadOK, Serving, Record
  <2>3. content \in Run
    BY <1>1, <2>1, <2>2 DEF DiskOK, LoadOK, Serving
  <2> HIDE DEF content
  <2>4. QED
    BY <1>1, <2>1, <2>3 DEF Goes, LoadOK, Serving
<1>4. QED
  BY <1>2, <1>3

LEMMA ReadMeansLoadOK ==
    ASSUME DiskOK, LoadOK, NEW q \in Request, ReadMeans(q)
    PROVE  LoadOK'
<1> USE StoreAssumption
<1>1. disk' = disk /\ calm' = calm /\ wanted' = wanted /\ scored' = scored
        /\ shadow' = shadow /\ stage[q] = "means"
        /\ found' = found /\ pickled' = pickled /\ loaded' = loaded
  BY DEF ReadMeans, Loading, diskVars, Fails
<1>2. CASE Fails(q)
  BY <1>1, <1>2 DEF Fails, Goes, Main, LoadOK, Serving
<1>3. CASE Goes(q, "score")
  BY <1>1, <1>3 DEF Goes, LoadOK, Serving
<1>4. QED
  BY <1>2, <1>3 DEF ReadMeans

LEMMA ScoreLoadOK ==
    ASSUME DiskOK, LoadOK, NEW q \in Request, Score(q)
    PROVE  LoadOK'
<1> USE StoreAssumption
<1>1. disk' = disk /\ calm' = calm /\ wanted' = wanted /\ stage[q] = "score"
  BY DEF Score, diskVars
<1>2. CASE Unusable(q)
  BY <1>1, <1>2 DEF Score, Fails, Goes, Main, LoadOK, Serving
<1>3. By(q) \in Version \cup {BuiltIn}
  BY <1>1 DEF By, LoadOK, Serving, Record
<1>4. CASE ~Unusable(q) /\ Main(q)
  <2> DEFINE a == [version |-> By(q), run |-> loaded[q],
                   asked |-> wanted[q], record |-> found[q]]
  <2>1. a \in Answer
    BY <1>1, <1>3 DEF Answer, LoadOK, Serving
  <2>2. a # Null
    BY <2>1
  <2>3. scored' = [scored EXCEPT ![q] = a] /\ Goes(q, "list") /\ shadow' = shadow
    BY <1>4 DEF Score
  <2>4. /\ found' = [found EXCEPT ![q] = Null]
        /\ pickled' = [pickled EXCEPT ![q] = FALSE]
        /\ loaded' = [loaded EXCEPT ![q] = Null]
    BY <1>4 DEF Score
  <2> HIDE DEF a
  <2>5. QED
    BY <1>1, <2>1, <2>2, <2>3, <2>4 DEF Goes, LoadOK, Serving
<1>5. CASE ~Unusable(q) /\ ~Main(q)
  <2>1. wanted[q] \in Version
    BY <1>1, <1>5 DEF Main, LoadOK, Serving
  <2>2. shadow' \in [Request -> {Null} \cup
                      [label : Version, version : Version \cup {BuiltIn}]]
    BY <1>3, <1>5, <2>1 DEF Score, LoadOK
  <2>3. /\ found' = [found EXCEPT ![q] = Null]
        /\ pickled' = [pickled EXCEPT ![q] = FALSE]
        /\ loaded' = [loaded EXCEPT ![q] = Null]
        /\ scored' = scored /\ Goes(q, "done")
    BY <1>5 DEF Score
  <2>4. QED
    BY <1>1, <2>2, <2>3 DEF Goes, LoadOK, Serving
<1>6. QED
  BY <1>2, <1>4, <1>5

LEMMA ListLoadOK ==
    ASSUME DiskOK, LoadOK, NEW q \in Request, List(q)
    PROVE  LoadOK'
<1> USE StoreAssumption
<1>1. disk' = disk /\ calm' = calm /\ scored' = scored /\ shadow' = shadow
        /\ found' = found /\ pickled' = pickled /\ loaded' = loaded
        /\ stage[q] = "list"
  BY DEF List, diskVars
<1>2. CASE Goes(q, "done") /\ UNCHANGED wanted
  BY <1>1, <1>2 DEF Goes, LoadOK, Serving
<1>3. CASE \E v \in Version : wanted' = [wanted EXCEPT ![q] = v] /\ Goes(q, "look")
  BY <1>1, <1>3 DEF Goes, LoadOK, Serving
<1>4. Challengers(q) \subseteq Version
  BY DEF Challengers, InStatus
<1>5. QED
  BY <1>2, <1>3, <1>4 DEF List

LEMMA NextLoadOK == DiskOK /\ LoadOK /\ [Next]_vars => LoadOK'
<1> SUFFICES ASSUME DiskOK, LoadOK, [Next]_vars PROVE LoadOK'
  OBVIOUS
<1>1. ASSUME NEW w \in Writer, Begins(w) \/ Write(w) PROVE LoadOK'
  <2>1. /\ UNCHANGED <<stage, wanted, found, pickled, loaded, scored, shadow>>
        /\ calm' = calm \/ calm' = [q \in Request |-> FALSE]
    BY <1>1, WriterLeavesLoad
  <2>2. ASSUME NEW q \in Request, stage[q] \in {"sniff", "load"}
        PROVE  disk'[Card(found[q].version)] # Null
    <3>1. found[q].version \in Version
      BY <2>2 DEF LoadOK, Serving, Record
    <3>2. QED
      BY <2>2, <3>1, CardsStay DEF LoadOK, Serving
  <2>3. QED
    BY <2>1, <2>2 DEF LoadOK, Serving
<1>2. ASSUME NEW q \in Request, Serves(q) PROVE LoadOK'
  BY <1>2, AskLoadOK, LookLoadOK, LocateLoadOK, SniffLoadOK, LoadLoadOK,
     ReadMeansLoadOK, ScoreLoadOK, ListLoadOK DEF Serves
<1>3. CASE UNCHANGED vars
  BY <1>3 DEF vars, diskVars, loadVars, LoadOK, Serving
<1>4. QED
  BY <1>1, <1>2, <1>3, NextSteps

(***************************************************************************)
(* Type correctness.                                                       *)
(***************************************************************************)
THEOREM StoreTypeCorrect == Spec => []TypeOK
<1>1. Init => DiskOK /\ LoadOK
  BY InitTypes
<1>2. DiskOK /\ LoadOK /\ [Next]_vars => (DiskOK /\ LoadOK)'
  BY NextDiskOK, NextLoadOK
<1>3. DiskOK /\ LoadOK => TypeOK
  BY DEF DiskOK, LoadOK, TypeOK
<1>4. QED
  BY <1>1, <1>2, <1>3, PTL DEF Spec

----------------------------------------------------------------------------
(***************************************************************************)
(* Which card a record stands for.  A run writes the card of a version     *)
(* before its record, and what is over never writes again, so from a       *)
(* version's record on, its card is never one of a run that was over when  *)
(* the record's run began.                                                 *)
(***************************************************************************)
Began(r) == r = Origin \/ step[r] # "idle"

FreshRec(rec) ==
    /\ Began(rec.run)
    /\ disk[Card(rec.version)] \notin before[rec.run]
    /\ rec.status # "unregistered" => disk[Card(rec.version)] # Null

Prepared(s, v) == disk[Card(v)] # Null /\ disk[Card(v)] \notin before[s]

Preparing ==
    \A s \in Script : step[s] # "idle" =>
        \A i \in 1 .. Len(todo[s]) : todo[s][i].op = "upsert" =>
            \/ Prepared(s, todo[s][i].version)
            \/ \E j \in 1 .. i - 1 : todo[s][j] = Do("card", todo[s][i].version)

FreshDisk ==
    /\ before[Origin] = {}
    /\ \A r \in Run : \A b \in before[r] :
          b = Origin \/ (b \in Script /\ step[b] = "done")
    /\ disk[IndexFile] # Torn => \A v \in Version : FreshRec(disk[IndexFile][v])
    /\ \A w \in Writer : snap[w] # Null => \A v \in Version : FreshRec(snap[w][v])
    /\ Preparing

FreshLoad ==
    \A q \in Request :
        /\ stage[q] \in {"locate", "sniff", "load"} => FreshRec(found[q])
        /\ stage[q] \in {"means", "score"} /\ loaded[q] # BuiltIn =>
              Began(found[q].run) /\ loaded[q] \notin before[found[q].run]
        /\ scored[q] # Null /\ scored[q].version # BuiltIn =>
              /\ scored[q].record # Null
              /\ Began(scored[q].record.run)
              /\ scored[q].run \notin before[scored[q].record.run]

\* Once begun a run stays begun, and what was over then stays over.
LEMMA StepsOnward ==
    ASSUME DiskOK, FreshDisk, [Next]_vars
    PROVE  /\ \A r \in Run : Began(r) => Began(r)' /\ before'[r] = before[r]
           /\ \A r \in Script : step[r] = "done" => step'[r] = "done"
<1>1. ASSUME NEW w \in Writer, Begins(w)
      PROVE  /\ step[w] = "idle" /\ step' = [step EXCEPT ![w] = "ready"]
             /\ before' = before \/ \E X : before' = [before EXCEPT ![w] = X]
             /\ w \notin Script => before' = before
  <2>1. CASE w \in Script
    BY <1>1, <2>1, BeginsOne DEF Starts
  <2>2. CASE w \in Admin
    <3>1. w \notin Script
      BY <2>2, StoreAssumption
    <3>2. QED
      BY <1>1, <2>2, <3>1, BeginsOne DEF Starts
  <2>3. QED
    BY <2>1, <2>2 DEF Writer
<1>2. ASSUME NEW w \in Writer, Write(w)
      PROVE  /\ step[w] \in {"ready", "read", "writing"}
             /\ before' = before
             /\ \E x \in {"ready", "read", "writing", "done"} :
                   step' = [step EXCEPT ![w] = x]
  BY <1>2 DEF Write, ReadIndex, Open, Dump, Raise, Crash, Ends
<1>3. /\ \A w \in Writer : w \in DOMAIN step
      /\ \A r \in Run : r \in DOMAIN before /\ (r = Origin \/ r \in Writer)
      /\ \A r \in Script : r \in Writer
      /\ Origin \notin Writer
  BY StoreAssumption DEF DiskOK, Run, Writer
<1>4. CASE \E w \in Writer : Begins(w)
  BY <1>1, <1>3, <1>4 DEF Began
<1>5. CASE \E w \in Writer : Write(w)
  BY <1>2, <1>3, <1>5 DEF Began
<1>6. CASE step' = step /\ before' = before
  BY <1>6 DEF Began
<1>7. QED
  BY <1>4, <1>5, <1>6, NextSteps, ServesLeavesDisk DEF vars, diskVars

\* What is written over a card comes from a run that is under way.
LEMMA CardsFresh ==
    ASSUME DiskOK, FreshDisk, [Next]_vars, NEW v \in Version, NEW r \in Run,
           disk'[Card(v)] # disk[Card(v)]
    PROVE  disk'[Card(v)] \notin before[r]
<1> USE StoreAssumption
<1>1. Card(v) \in DOMAIN disk /\ Card(v) # IndexFile
  BY DEF DiskOK, Card, IndexFile
<1>2. before[r] \subseteq Run
  BY DEF DiskOK
<1>3. ASSUME NEW w \in Writer, Open(w) PROVE disk'[Card(v)] = Torn
  BY <1>1, <1>3 DEF Open
<1>4. ASSUME NEW w \in Writer, Dump(w)
      PROVE  disk'[Card(v)] \notin before[r]
  <2>1. step[w] = "writing"
    BY <1>4 DEF Dump
  <2>2. PICK x \in {Written(w), Torn} :
            disk' = [disk EXCEPT ![FileOf(Head(todo[w]))] = x]
    BY <1>4 DEF Dump
  <2>3. FileOf(Head(todo[w])) = Card(v) /\ disk'[Card(v)] = x
    BY <1>1, <2>2
  <2>4. ~OnIndex(Head(todo[w]))
    BY <1>1, <2>1, <2>3, InHand
  <2>5. Written(w) = w /\ w \in Script
    BY <2>1, <2>4, InHand, WrittenType
  <2>6. w \notin before[r]
    BY <2>1, <2>5 DEF FreshDisk
  <2>7. QED
    BY <1>2, <2>2, <2>3, <2>5, <2>6
<1>5. ASSUME NEW w \in Writer, Begins(w) \/ Write(w)
      PROVE  disk' = disk \/ Open(w) \/ Dump(w)
  <2>1. CASE Begins(w)
    BY <2>1, BeginsOne DEF Starts
  <2>2. CASE Write(w)
    BY <2>2 DEF Write, ReadIndex, Raise, Crash, Ends
  <2>3. QED
    BY <1>5, <2>1, <2>2
<1>6. QED
  BY <1>2, <1>3, <1>4, <1>5, NextSteps, ServesLeavesDisk DEF vars, diskVars

LEMMA FreshStays ==
    ASSUME DiskOK, FreshDisk, [Next]_vars, NEW rec \in Record, FreshRec(rec)
    PROVE  FreshRec(rec)'
<1>1. rec.run \in Run /\ rec.version \in Version
  BY DEF Record
<1>2. Began(rec.run)' /\ before'[rec.run] = before[rec.run]
  BY <1>1, StepsOnward DEF FreshRec
<1>3. disk'[Card(rec.version)] \notin before'[rec.run]
  BY <1>1, <1>2, CardsFresh DEF FreshRec
<1>4. rec.status # "unregistered" => disk'[Card(rec.version)] # Null
  BY <1>1, CardsStay DEF FreshRec
<1>5. QED
  BY <1>2, <1>3, <1>4 DEF FreshRec

LEMMA InitFresh == Init => FreshDisk /\ FreshLoad
<1> SUFFICES ASSUME Init PROVE FreshDisk /\ FreshLoad
  OBVIOUS
<1> USE StoreAssumption
<1>1. Origin \in Run /\ before[Origin] = {}
  BY DEF Init, Run
<1>2. \A r \in Run : before[r] \subseteq {Origin}
  BY DEF Init
<1>3. disk[IndexFile] = Shipped
  BY DEF Init
<1>4. ASSUME NEW v \in Version PROVE FreshRec(Shipped[v])
  <2>1. Shipped[v].run = Origin /\ Shipped[v].version = v
    BY DEF Index
  <2>2. Shipped[v].status # "unregistered" => disk[Card(v)] = Origin
    BY DEF Init, Card, IndexFile
  <2>3. QED
    BY <1>1, <2>1, <2>2 DEF FreshRec, Began
<1>5. Preparing
  <2>1. \A s \in Script : todo[s] = << >>
    BY DEF Init, Writer
  <2>2. \A i \in 1 .. Len(<< >>) : FALSE
    OBVIOUS
  <2>3. QED
    BY <2>1, <2>2 DEF Preparing
<1>6. FreshDisk
  <2>1. \A w \in Writer : snap[w] = Null
    BY DEF Init
  <2>2. QED
    BY <1>1, <1>2, <1>3, <1>4, <1>5, <2>1 DEF FreshDisk
<1>7. FreshLoad
  BY DEF Init, FreshLoad
<1>8. QED
  BY <1>6, <1>7

\* A script's records stay prepared, whoever moves.
LEMMA PreparedStays ==
    ASSUME DiskOK, FreshDisk, [Next]_vars, NEW s \in Script, NEW v \in Version,
           step[s] # "idle", Prepared(s, v)
    PROVE  Prepared(s, v)'
<1>1. s \in Run
  BY DEF Run
<1>2. before'[s] = before[s]
  BY <1>1, StepsOnward DEF Began
<1>3. QED
  BY <1>1, <1>2, CardsFresh, CardsStay DEF Prepared

\* So does what a script has still to do, while it does nothing of it.
LEMMA PreparingStays ==
    ASSUME DiskOK, FreshDisk, [Next]_vars, NEW s \in Script, step[s] # "idle",
           NEW i \in 1 .. Len(todo[s]), todo[s][i].op = "upsert",
           NEW v \in Version, todo[s][i].version = v
    PROVE  \/ Prepared(s, v)'
           \/ \E j \in 1 .. i - 1 : todo[s][j] = Do("card", v)
<1>1. \/ Prepared(s, v)
      \/ \E j \in 1 .. i - 1 : todo[s][j] = Do("card", v)
  BY DEF FreshDisk, Preparing
<1>2. Prepared(s, v) => Prepared(s, v)'
  BY PreparedStays
<1>3. QED
  BY <1>1, <1>2

\* The card a script has just written is its own.
LEMMA DumpPrepares ==
    ASSUME DiskOK, FreshDisk, NEW s \in Script, Dump(s), NEW v \in Version,
           Head(todo[s]) = Do("card", v)
    PROVE  Prepared(s, v)'
<1> USE StoreAssumption
<1>1. s \in Writer /\ s \in Run /\ step[s] = "writing"
  BY DEF Writer, Run, Dump
<1>2. FileOf(Head(todo[s])) = Card(v) /\ Card(v) \in DOMAIN disk
  BY <1>1, InHand DEF DiskOK
<1>3. ~OnIndex(Head(todo[s]))
  BY DEF OnIndex, Do
<1>4. Written(s) = s
  BY <1>1, <1>3, WrittenType
<1>5. disk'[Card(v)] \in {s, Torn}
  <2>1. PICK x \in {Written(s), Torn} :
            disk' = [disk EXCEPT ![FileOf(Head(todo[s]))] = x]
    BY DEF Dump
  <2>2. QED
    BY <1>2, <1>4, <2>1
<1>6. s \notin before[s] /\ before[s] \subseteq Run /\ before' = before
  BY <1>1 DEF FreshDisk, DiskOK, Dump
<1>7. QED
  BY <1>1, <1>5, <1>6 DEF Prepared

LEMMA NextPreparing ==
    ASSUME DiskOK, FreshDisk, [Next]_vars
    PROVE  Preparing'
<1> SUFFICES ASSUME NEW s \in Script, step'[s] # "idle",
                    NEW i \in 1 .. Len(todo'[s]), todo'[s][i].op = "upsert"
             PROVE  \/ /\ disk'[Card(todo'[s][i].version)] # Null
                       /\ disk'[Card(todo'[s][i].version)] \notin before'[s]
                    \/ \E j \in 1 .. i - 1 :
                          todo'[s][j] = Do("card", todo'[s][i].version)
  BY DEF Preparing, Prepared
<1>1. s \in Writer /\ s \notin Admin
  BY StoreAssumption DEF Writer
<1>2. ASSUME todo'[s] = todo[s], step[s] # "idle"
      PROVE  \/ /\ disk'[Card(todo'[s][i].version)] # Null
                /\ disk'[Card(todo'[s][i].version)] \notin before'[s]
             \/ \E j \in 1 .. i - 1 :
                   todo'[s][j] = Do("card", todo'[s][i].version)
  <2>1. i \in 1 .. Len(todo[s]) /\ todo[s][i].op = "upsert"
    BY <1>2
  <2>2. todo[s][i] \in Op
    <3>1. todo[s] \in Seq(Op)
      BY <1>1 DEF DiskOK
    <3>2. QED
      BY <2>1, <3>1
  <2> DEFINE v == todo[s][i].version
  <2>3. v \in Version
    BY <2>2 DEF Op
  <2>4. \/ Prepared(s, v)'
        \/ \E j \in 1 .. i - 1 : todo[s][j] = Do("card", v)
    BY <1>2, <2>1, <2>3, PreparingStays
  <2>5. todo'[s][i].version = todo[s][i].version
    BY <1>2
  <2>6. QED
    BY <1>2, <2>4, <2>5 DEF Prepared
<1>3. CASE Begins(s)
  <2>1. PICK p \in Seq(Op) : Ordered(p) /\ Starts(s, p)
    BY <1>1, <1>3, BeginsOne
  <2>2. todo'[s] = p
    BY <1>1, <2>1 DEF Starts, DiskOK
  <2>3. QED
    BY <2>1, <2>2 DEF Ordered
<1>4. CASE Ends(s)
  <2>1. todo'[s] = << >>
    BY <1>1, <1>4 DEF Ends, DiskOK
  <2>2. QED
    BY <2>1
<1>5. CASE Dump(s)
  <2>1. step[s] = "writing" /\ todo'[s] = Tail(todo[s])
    BY <1>1, <1>5 DEF Dump, DiskOK
  <2>2. i + 1 \in 1 .. Len(todo[s]) /\ todo'[s][i] = todo[s][i + 1]
    BY <1>1, <2>1, InHand
  <2>3. todo[s][i + 1].version \in Version /\ todo[s][i + 1].op = "upsert"
    <3>1. todo[s] \in Seq(Op)
      BY <1>1 DEF DiskOK
    <3>2. todo[s][i + 1] \in Op
      BY <2>2, <3>1
    <3>3. QED
      BY <2>2, <3>2 DEF Op
  <2>9. PICK v \in Version : todo[s][i + 1].version = v
    BY <2>3
  <2>4. \/ Prepared(s, v)'
        \/ \E j \in 1 .. i : todo[s][j] = Do("card", v)
    <3>1. i + 1 - 1 = i
      OBVIOUS
    <3>2. \/ Prepared(s, v)'
          \/ \E j \in 1 .. i + 1 - 1 : todo[s][j] = Do("card", v)
      BY <2>1, <2>2, <2>3, <2>9, PreparingStays
    <3>3. QED
      BY <3>1, <3>2
  <2>5. v = todo'[s][i].version
    BY <2>2, <2>9
  <2>6. CASE Prepared(s, v)'
    BY <2>5, <2>6 DEF Prepared
  <2>7. CASE \E j \in 1 .. i : todo[s][j] = Do("card", v)
    <3>1. PICK j \in 1 .. i : todo[s][j] = Do("card", v)
      BY <2>7
    <3>2. CASE j = 1
      <4>1. Head(todo[s]) = Do("card", v)
        BY <1>1, <2>1, <3>1, <3>2, InHand
      <4>2. Prepared(s, v)'
        BY <1>5, <4>1, DumpPrepares
      <4>3. QED
        BY <2>5, <4>2 DEF Prepared
    <3>3. CASE j # 1
      <4>1. j - 1 \in 1 .. i - 1 /\ j - 1 \in 1 .. Len(Tail(todo[s]))
        BY <2>1, <3>1, <3>3
      <4>2. Tail(todo[s])[j - 1] = todo[s][j - 1 + 1] /\ j - 1 + 1 = j
        BY <1>1, <2>1, <3>1, <4>1, InHand
      <4>3. todo'[s][j - 1] = Do("card", v)
        BY <2>1, <3>1, <4>2
      <4>4. QED
        BY <2>5, <4>1, <4>3
    <3>4. QED
      BY <3>2, <3>3
  <2>8. QED
    BY <2>4, <2>6, <2>7
<1>6. ASSUME NEW w \in Writer, Begins(w), w # s
      PROVE  todo'[s] = todo[s] /\ step[s] # "idle"
  BY <1>1, <1>6, BeginsOne DEF Starts, DiskOK
<1>7. ASSUME NEW w \in Writer, Write(w), ~(w = s /\ (Ends(s) \/ Dump(s)))
      PROVE  todo'[s] = todo[s] /\ step[s] # "idle"
  <2>1. step[w] # "idle"
    BY <1>7 DEF Write, ReadIndex, Open, Dump, Raise, Crash, Ends
  <2>2. step[s] # "idle"
    <3>1. CASE w = s
      BY <2>1, <3>1
    <3>2. CASE w # s
      <4>1. step'[s] = step[s]
        BY <1>1, <1>7, <3>2 DEF Write, ReadIndex, Open, Dump, Raise, Crash,
           Ends, DiskOK
      <4>2. QED
        BY <4>1
    <3>3. QED
      BY <3>1, <3>2
  <2>3. todo'[s] = todo[s]
    BY <1>1, <1>7 DEF Write, ReadIndex, Open, Dump, Raise, Crash, Ends, DiskOK
  <2>4. QED
    BY <2>2, <2>3
<1>8. CASE UNCHANGED <<todo, step>>
  BY <1>2, <1>8
<1>9. QED
  BY <1>2, <1>3, <1>4, <1>5, <1>6, <1>7, <1>8, NextSteps, ServesLeavesDisk
     DEF vars, diskVars

----------------------------------------------------------------------------
\* A write of the index leaves fresh records, or nothing that can be read.
LEMMA WrittenFresh ==
    ASSUME DiskOK, FreshDisk, NEW w \in Writer, Dump(w),
           OnIndex(Head(todo[w])), NEW v \in Version
    PROVE  FreshRec(Written(w)[v])
<1> USE StoreAssumption
<1> DEFINE o == Head(todo[w])
<1>1. /\ step[w] = "writing" /\ o \in Op /\ o = todo[w][1]
      /\ 1 \in 1 .. Len(todo[w])
      /\ o.op = "upsert" => w \in Script
  BY InHand DEF Dump
<1>2. snap[w] \in Index /\ snap[w] # Null
  BY <1>1 DEF DiskOK, Handed
<1>3. o.version \in Version
  BY <1>1 DEF Op
<1>4. \A u \in Version : FreshRec(snap[w][u]) /\ snap[w][u].version = u
  BY <1>2 DEF FreshDisk, Index
<1>5. CASE o.op = "upsert"
  <2>1. Written(w) = Registered(snap[w], w, o.version)
    BY <1>5 DEF Written, OnIndex
  <2>2. Prepared(w, o.version)
    <3>1. ~\E j \in 1 .. 1 - 1 : todo[w][j] = Do("card", o.version)
      OBVIOUS
    <3>2. QED
      BY <1>1, <1>5, <3>1 DEF FreshDisk, Preparing
  <2>3. CASE v = o.version
    <3>1. Written(w)[v] = [version |-> v, status |-> "candidate", run |-> w]
      BY <1>2, <2>1, <2>3 DEF Registered, Index
    <3>2. QED
      BY <1>1, <2>2, <2>3, <3>1 DEF FreshRec, Began, Prepared
  <2>4. CASE v # o.version
    <3>1. Written(w)[v] = snap[w][v]
      BY <1>2, <2>1, <2>4 DEF Registered, Index
    <3>2. QED
      BY <1>4, <3>1
  <2>5. QED
    BY <2>3, <2>4
<1>6. CASE o.op # "upsert"
  <2>1. Written(w) = Promoted(snap[w], o.version, o.op)
    BY <1>6 DEF Written
  <2>2. o.op \in {"validated", "active"}
    BY <1>1, <1>6 DEF Op, OnIndex
  <2>3. snap[w][o.version].status # "unregistered"
    <3>1. o.op \in Allowed(snap[w][o.version].status)
      BY <1>1, <1>6 DEF DiskOK, Handed
    <3>2. QED
      BY <3>1 DEF Allowed
  <2>4. /\ Written(w)[v].version = v /\ Written(w)[v].run = snap[w][v].run
        /\ Written(w)[v].status # "unregistered"
              => snap[w][v].status # "unregistered"
    BY <2>1, <2>2, <2>3 DEF Promoted
  <2>5. QED
    BY <1>4, <2>4 DEF FreshRec
<1>7. QED
  BY <1>5, <1>6

\* How an index comes about: it was there, or one was written from what its
\* writer had read.
LEMMA NextIndex ==
    ASSUME DiskOK, [Next]_vars, disk'[IndexFile] # Torn
    PROVE  \/ disk'[IndexFile] = disk[IndexFile]
           \/ \E w \in Writer : /\ Dump(w) /\ OnIndex(Head(todo[w]))
                                /\ disk'[IndexFile] = Written(w)
<1>1. IndexFile \in DOMAIN disk
  BY DEF DiskOK
<1>2. ASSUME NEW w \in Writer, Open(w)
      PROVE  disk'[IndexFile] = disk[IndexFile]
  BY <1>1, <1>2 DEF Open
<1>3. ASSUME NEW w \in Writer, Dump(w)
      PROVE  \/ disk'[IndexFile] = disk[IndexFile]
             \/ /\ OnIndex(Head(todo[w]))
                /\ disk'[IndexFile] = Written(w)
  <2>1. PICK x \in {Written(w), Torn} :
            disk' = [disk EXCEPT ![FileOf(Head(todo[w]))] = x]
    BY <1>3 DEF Dump
  <2>2. step[w] = "writing"
    BY <1>3 DEF Dump
  <2>3. CASE FileOf(Head(todo[w])) = IndexFile
    BY <1>1, <2>1, <2>2, <2>3, InHand
  <2>4. CASE FileOf(Head(todo[w])) # IndexFile
    BY <1>1, <2>1, <2>4
  <2>5. QED
    BY <2>3, <2>4
<1>4. ASSUME NEW w \in Writer, Begins(w) \/ Write(w)
      PROVE  disk' = disk \/ Open(w) \/ Dump(w)
  <2>1. CASE Begins(w)
    BY <2>1, BeginsOne DEF Starts
  <2>2. CASE Write(w)
    BY <2>2 DEF Write, ReadIndex, Raise, Crash, Ends
  <2>3. QED
    BY <1>4, <2>1, <2>2
<1>5. QED
  BY <1>2, <1>3, <1>4, NextSteps, ServesLeavesDisk DEF vars, diskVars

\* An index in hand was in hand before, or was just read.
LEMMA NextSnap ==
    ASSUME DiskOK, [Next]_vars, NEW w \in Writer, snap'[w] # Null
    PROVE  \/ snap'[w] = snap[w]
           \/ snap'[w] = disk[IndexFile] /\ disk[IndexFile] # Torn
<1>1. ASSUME NEW u \in Writer, Write(u)
      PROVE  \/ snap' = snap
             \/ snap' = [snap EXCEPT ![u] = Null]
             \/ /\ disk[IndexFile] # Torn
                /\ snap' = [snap EXCEPT ![u] = disk[IndexFile]]
  BY <1>1 DEF Write, ReadIndex, Accepted, Open, Dump, Raise, Crash, Ends
<1>2. ASSUME NEW u \in Writer, Begins(u) PROVE snap' = snap
  BY <1>2, BeginsOne DEF Starts
<1>3. snap \in [Writer -> Index \cup {Null}]
  BY DEF DiskOK
<1>4. QED
  BY <1>1, <1>2, <1>3, NextSteps, ServesLeavesDisk DEF vars, diskVars

LEMMA NextFreshDisk == DiskOK /\ FreshDisk /\ [Next]_vars => FreshDisk'
<1> SUFFICES ASSUME DiskOK, FreshDisk, [Next]_vars PROVE FreshDisk'
  OBVIOUS
<1> USE StoreAssumption
<1>1. DiskOK'
  BY NextDiskOK
<1>2. before'[Origin] = {}
  BY StepsOnward DEF Began, FreshDisk, Run
<1>3. ASSUME NEW r \in Run, NEW b \in before'[r]
      PROVE  b = Origin \/ (b \in Script /\ step'[b] = "done")
  <2>1. CASE Began(r)
    BY <1>3, <2>1, StepsOnward DEF FreshDisk
  <2>2. CASE ~Began(r)
    <3>1. r \in Script /\ step[r] = "idle"
      BY <2>2 DEF Began, Run
    <3>2. \/ before'[r] = before[r]
          \/ before'[r] = {Origin} \cup {u \in Script : step[u] = "done"}
      <4>1. ASSUME NEW w \in Writer, Begins(w)
            PROVE  \/ before' = before
                   \/ before' = [before EXCEPT ![w] =
                          {Origin} \cup {u \in Script : step[u] = "done"}]
        BY <4>1, BeginsOne DEF Writer
      <4>2. ASSUME NEW w \in Writer, Write(w) PROVE before' = before
        BY <4>2 DEF Write, ReadIndex, Open, Dump, Raise, Crash, Ends
      <4>3. before \in [Run -> SUBSET Run]
        BY DEF DiskOK
      <4>4. QED
        BY <4>1, <4>2, <4>3, NextSteps, ServesLeavesDisk DEF vars, diskVars
    <3>3. QED
      BY <1>3, <3>2, StepsOnward DEF FreshDisk
  <2>3. QED
    BY <2>1, <2>2
<1>4. ASSUME disk'[IndexFile] # Torn, NEW v \in Version
      PROVE  \E rec \in Record : rec = disk'[IndexFile][v] /\ FreshRec(rec)'
  <2>1. disk'[IndexFile] \in Index
    BY <1>1, <1>4 DEF DiskOK
  <2>2. PICK rec \in Record : rec = disk'[IndexFile][v]
    BY <2>1 DEF Index
  <2>3. FreshRec(rec)
    <3>1. CASE disk'[IndexFile] = disk[IndexFile]
      BY <1>4, <2>2, <3>1 DEF FreshDisk
    <3>2. ASSUME NEW w \in Writer, Dump(w), OnIndex(Head(todo[w])),
                 disk'[IndexFile] = Written(w)
          PROVE  FreshRec(rec)
      BY <2>2, <3>2, WrittenFresh
    <3>3. QED
      BY <1>4, <3>1, <3>2, NextIndex
  <2>4. FreshRec(rec)'
    BY <2>3, FreshStays
  <2>5. QED
    BY <2>2, <2>4
<1>5. ASSUME NEW w \in Writer, snap'[w] # Null, NEW v \in Version
      PROVE  \E rec \in Record : rec = snap'[w][v] /\ FreshRec(rec)'
  <2>1. snap'[w] \in Index
    BY <1>1, <1>5 DEF DiskOK
  <2>2. PICK rec \in Record : rec = snap'[w][v]
    BY <2>1 DEF Index
  <2>3. FreshRec(rec)
    BY <1>5, <2>2, NextSnap DEF FreshDisk
  <2>4. FreshRec(rec)'
    BY <2>3, FreshStays
  <2>5. QED
    BY <2>2, <2>4
<1>6. Preparing'
  BY NextPreparing
<1>7. QED
  <2>1. disk'[IndexFile] # Torn =>
            \A v \in Version : FreshRec(disk[IndexFile][v])'
    BY <1>4 DEF FreshRec, Began
  <2>2. \A w \in Writer : snap'[w] # Null =>
            \A v \in Version : FreshRec(snap[w][v])'
    BY <1>5 DEF FreshRec, Began
  <2>3. QED
    BY <1>2, <1>3, <1>6, <2>1, <2>2 DEF FreshDisk

\* While nothing is written a request turns fresh records into fresh scores.
LEMMA ServesFreshLoad ==
    ASSUME DiskOK, LoadOK, FreshDisk, FreshLoad, NEW q \in Request, Serves(q)
    PROVE  FreshLoad'
<1> USE StoreAssumption
<1>1. disk' = disk /\ step' = step /\ before' = before
  BY ServesLeavesDisk
<1>2. \A r : Began(r)' <=> Began(r)
  BY <1>1 DEF Began
<1>3. \A r \in Record : FreshRec(r) => FreshRec(r)'
  BY <1>1 DEF FreshRec, Began
<1>4. CASE Ask(q)
  BY <1>1, <1>4 DEF Ask, Goes, LoadOK, FreshLoad, FreshRec, Began
<1>5. CASE Look(q)
  <2>1. ASSUME disk[IndexFile] # Torn,
               NEW r \in Candidates(disk[IndexFile], wanted[q])
        PROVE  FreshRec(r)
    <3>1. wanted[q] \in Version \cup {Null} /\ disk[IndexFile] \in Index
      BY <2>1 DEF LoadOK, DiskOK
    <3>2. \E v \in Version : r = disk[IndexFile][v]
      BY <2>1, <3>1 DEF Candidates, InStatus
    <3>3. QED
      BY <2>1, <3>2 DEF FreshDisk
  <2>2. stage[q] = "look" /\ scored' = scored
    BY <1>5 DEF Look, Loading
  <2>3. CASE Fails(q)
    BY <1>1, <2>2, <2>3 DEF Fails, Goes, LoadOK, FreshLoad, FreshRec, Began
  <2>4. CASE FallsBack(q) /\ UNCHANGED found
    BY <1>1, <2>2, <2>4 DEF FallsBack, Goes, LoadOK, FreshLoad, FreshRec, Began
  <2>5. CASE \E r : /\ FreshRec(r) /\ found' = [found EXCEPT ![q] = r]
                    /\ Goes(q, "locate") /\ UNCHANGED <<pickled, loaded>>
    BY <1>1, <2>2, <2>5 DEF Goes, LoadOK, FreshLoad, FreshRec, Began
  <2>6. QED
    BY <1>5, <2>1, <2>3, <2>4, <2>5 DEF Look
<1>6. CASE Locate(q)
  BY <1>1, <1>6 DEF Locate, Loading, Fails, FallsBack, Goes, LoadOK, FreshLoad,
     FreshRec, Began
<1>7. CASE Sniff(q)
  BY <1>1, <1>7 DEF Sniff, Loading, Goes, LoadOK, FreshLoad, FreshRec, Began
<1>8. CASE Load(q)
  BY <1>1, <1>8 DEF Load, Loading, Fails, Goes, LoadOK, FreshLoad, FreshRec, Began
<1>9. CASE ReadMeans(q)
  BY <1>1, <1>9 DEF ReadMeans, Loading, Fails, Goes, LoadOK, FreshLoad, FreshRec,
     Began
<1>10. CASE Score(q)
  <2>1. stage[q] = "score"
    BY <1>10 DEF Score
  <2>2. CASE Fails(q) /\ UNCHANGED <<scored, shadow>>
    BY <1>1, <2>1, <2>2 DEF Fails, Goes, LoadOK, FreshLoad, FreshRec, Began
  <2>3. CASE Goes(q, "done") /\ UNCHANGED scored
               /\ found' = [found EXCEPT ![q] = Null]
               /\ loaded' = [loaded EXCEPT ![q] = Null]
    BY <1>1, <2>1, <2>3 DEF Goes, LoadOK, FreshLoad, FreshRec, Began
  <2> DEFINE a == [version |-> By(q), run |-> loaded[q],
                   asked |-> wanted[q], record |-> found[q]]
  <2>4. CASE /\ scored' = [scored EXCEPT ![q] = a] /\ Goes(q, "list")
             /\ found' = [found EXCEPT ![q] = Null]
             /\ loaded' = [loaded EXCEPT ![q] = Null]
    <3>1. a.version # BuiltIn => loaded[q] # BuiltIn
      BY DEF By
    <3>2. a.version # BuiltIn =>
              /\ a.record # Null
              /\ Began(a.record.run)
              /\ a.run \notin before[a.record.run]
      BY <2>1, <3>1 DEF FreshLoad, LoadOK, Serving
    <3> HIDE DEF a
    <3>3. QED
      BY <1>1, <1>2, <2>4, <3>2 DEF Goes, LoadOK, FreshLoad, FreshRec, Began
  <2>5. QED
    BY <1>10, <2>2, <2>3, <2>4 DEF Score
<1>11. CASE List(q)
  BY <1>1, <1>11 DEF List, Goes, LoadOK, FreshLoad, FreshRec, Began
<1>12. QED
  BY <1>4, <1>5, <1>6, <1>7, <1>8, <1>9, <1>10, <1>11 DEF Serves

LEMMA NextFreshLoad ==
    DiskOK /\ LoadOK /\ FreshDisk /\ FreshLoad /\ [Next]_vars => FreshLoad'
<1> SUFFICES ASSUME DiskOK, LoadOK, FreshDisk, FreshLoad, [Next]_vars
             PROVE  FreshLoad'
  OBVIOUS
<1>1. ASSUME UNCHANGED <<stage, found, loaded, scored>> PROVE FreshLoad'
  <2> SUFFICES ASSUME NEW q \in Request
      PROVE  /\ stage[q] \in {"locate", "sniff", "load"} => FreshRec(found[q])'
             /\ stage[q] \in {"means", "score"} /\ loaded[q] # BuiltIn =>
                   Began(found[q].run)' /\ loaded[q] \notin before'[found[q].run]
             /\ scored[q] # Null /\ scored[q].version # BuiltIn =>
                   /\ scored[q].record # Null
                   /\ Began(scored[q].record.run)'
                   /\ scored[q].run \notin before'[scored[q].record.run]
    BY <1>1 DEF FreshLoad
  <2>1. ASSUME stage[q] \in {"locate", "sniff", "load"}
        PROVE  FreshRec(found[q])'
    <3>1. PICK rec \in Record : rec = found[q]
      BY <2>1 DEF LoadOK, Serving
    <3>2. FreshRec(rec)'
      BY <2>1, <3>1, FreshStays DEF FreshLoad
    <3>3. QED
      BY <1>1, <3>1, <3>2
  <2>2. ASSUME stage[q] \in {"means", "score"}, loaded[q] # BuiltIn
        PROVE  Began(found[q].run)' /\ loaded[q] \notin before'[found[q].run]
    <3>1. PICK r \in Run : r = found[q].run
      BY <2>2 DEF LoadOK, Serving, Record
    <3>2. Began(r)' /\ before'[r] = before[r]
      BY <2>2, <3>1, StepsOnward DEF FreshLoad
    <3>3. QED
      BY <1>1, <2>2, <3>1, <3>2 DEF FreshLoad
  <2>3. ASSUME scored[q] # Null, scored[q].version # BuiltIn
        PROVE  /\ scored[q].record # Null
               /\ Began(scored[q].record.run)'
               /\ scored[q].run \notin before'[scored[q].record.run]
    <3>1. scored[q].record # Null
      BY <2>3 DEF FreshLoad
    <3>2. PICK r \in Run : r = scored[q].record.run
      BY <2>3, <3>1 DEF LoadOK, Answer, Record
    <3>3. Began(r)' /\ before'[r] = before[r]
      BY <2>3, <3>2, StepsOnward DEF FreshLoad
    <3>4. QED
      BY <1>1, <2>3, <3>1, <3>2, <3>3 DEF FreshLoad
  <2>4. QED
    BY <2>1, <2>2, <2>3
<1>2. QED
  BY <1>1, NextSteps, WriterLeavesLoad, ServesFreshLoad DEF vars, loadVars

(***************************************************************************)
(* The index never runs ahead of the files.                                *)
(***************************************************************************)
THEOREM ServedNotOlderCorrect == Spec => []ServedNotOlder
<1>1. Init => DiskOK /\ LoadOK /\ FreshDisk /\ FreshLoad
  BY InitTypes, InitFresh
<1>2. DiskOK /\ LoadOK /\ FreshDisk /\ FreshLoad /\ [Next]_vars
          => (DiskOK /\ LoadOK /\ FreshDisk /\ FreshLoad)'
  BY NextDiskOK, NextLoadOK, NextFreshDisk, NextFreshLoad
<1>3. FreshLoad => ServedNotOlder
  BY DEF FreshLoad, ServedNotOlder
<1>4. QED
  BY <1>1, <1>2, <1>3, PTL DEF Spec

----------------------------------------------------------------------------
(***************************************************************************)
(* While no two have had one file in hand, who has a file is alone with    *)
(* it: it is torn while it is written, and the index that was read is the  *)
(* one on disk.                                                            *)
(***************************************************************************)
Alone ==
    ~overlap =>
        /\ \A f \in DOMAIN disk : \A w, u \in Using(f) : w = u
        /\ \A w \in Writer :
              /\ step[w] = "writing" => disk[FileOf(Head(todo[w]))] = Torn
              /\ step[w] = "read" => snap[w] = disk[IndexFile]

LEMMA InitAlone == Init => Alone
BY DEF Init, Alone, Using

LEMMA BeginsAlone ==
    ASSUME DiskOK, Alone, NEW w \in Writer, Begins(w)
    PROVE  Alone'
<1>1. /\ step[w] = "idle" /\ step' = [step EXCEPT ![w] = "ready"]
      /\ \E p : todo' = [todo EXCEPT ![w] = p]
      /\ UNCHANGED <<disk, snap, overlap>>
  BY BeginsOne DEF Starts
<1>2. \A u \in Writer : step'[u] \in {"read", "writing"} =>
          /\ step'[u] = step[u] /\ todo'[u] = todo[u]
  BY <1>1 DEF DiskOK
<1>3. \A f : Using(f)' \subseteq Using(f)
  BY <1>2 DEF Using
<1>4. QED
  BY <1>1, <1>2, <1>3 DEF Alone

LEMMA EndsAlone ==
    ASSUME DiskOK, Alone, NEW w \in Writer, Ends(w)
    PROVE  Alone'
<1>1. \A u \in Writer : step'[u] \in {"read", "writing"} =>
          /\ step'[u] = step[u] /\ todo'[u] = todo[u] /\ snap'[u] = snap[u]
  BY DEF Ends, DiskOK
<1>2. \A f : Using(f)' \subseteq Using(f)
  BY <1>1 DEF Using
<1>3. QED
  BY <1>1, <1>2 DEF Ends, Alone

LEMMA ReadAlone ==
    ASSUME DiskOK, Alone, NEW w \in Writer, ReadIndex(w)
    PROVE  Alone'
<1> SUFFICES ASSUME ~overlap'
             PROVE  /\ \A f \in DOMAIN disk : \A v, u \in Using(f)' : v = u
                    /\ \A u \in Writer :
                          /\ step'[u] = "writing"
                                => disk[FileOf(Head(todo[u]))] = Torn
                          /\ step'[u] = "read" => snap'[u] = disk[IndexFile]
  BY DEF Alone, ReadIndex
<1>1. ~overlap /\ Using(IndexFile) = {}
  BY DEF ReadIndex, DiskOK
<1>2. FileOf(Head(todo[w])) = IndexFile
  BY InHand DEF ReadIndex
<1>3. \A f : Using(f)' \subseteq Using(f) \cup IF f = IndexFile THEN {w} ELSE {}
  BY <1>2 DEF ReadIndex, Using, DiskOK
<1>4. \A f \in DOMAIN disk : \A v, u \in Using(f)' : v = u
  BY <1>1, <1>3 DEF Alone
<1>5. \A u \in Writer : step'[u] \in {"read", "writing"} =>
          \/ u = w /\ step'[u] = "read" /\ snap'[u] = disk[IndexFile]
          \/ step'[u] = step[u] /\ snap'[u] = snap[u]
  BY DEF ReadIndex, DiskOK
<1>6. QED
  BY <1>1, <1>4, <1>5 DEF Alone

LEMMA OpenAlone ==
    ASSUME DiskOK, Alone, NEW w \in Writer, Open(w)
    PROVE  Alone'
<1> DEFINE f == FileOf(Head(todo[w]))
<1>1. step[w] \in {"ready", "read"} /\ f \in DOMAIN disk
  BY InHand DEF Open
<1>2. /\ DOMAIN disk' = DOMAIN disk
      /\ \A g \in DOMAIN disk : disk'[g] = IF g = f THEN Torn ELSE disk[g]
  BY <1>1 DEF Open
<1>3. todo' = todo /\ snap' = snap /\ step' = [step EXCEPT ![w] = "writing"]
  BY DEF Open
<1>4. ~overlap' => ~overlap /\ Using(f) \ {w} = {}
  BY DEF Open, DiskOK
<1>5. \A g : Using(g)' \subseteq Using(g) \cup IF g = f THEN {w} ELSE {}
  BY <1>3 DEF Using, DiskOK
<1>6. ~overlap' => \A g \in DOMAIN disk : \A v, u \in Using(g)' : v = u
  BY <1>4, <1>5 DEF Alone
<1>7. ASSUME ~overlap', NEW u \in Writer, step'[u] = "writing"
      PROVE  disk'[FileOf(Head(todo[u]))] = Torn
  <2>1. CASE u = w
    BY <1>1, <1>2, <2>1
  <2>2. CASE u # w
    <3>1. step[u] = "writing"
      BY <1>3, <1>7, <2>2 DEF DiskOK
    <3>2. FileOf(Head(todo[u])) \in DOMAIN disk
      BY <3>1, InHand
    <3>3. disk[FileOf(Head(todo[u]))] = Torn
      BY <1>4, <1>7, <3>1 DEF Alone
    <3>4. QED
      BY <1>2, <3>2, <3>3
  <2>3. QED
    BY <2>1, <2>2
<1>8. ASSUME ~overlap', NEW u \in Writer, step'[u] = "read"
      PROVE  snap'[u] = disk'[IndexFile]
  <2>1. u # w /\ step[u] = "read"
    BY <1>3, <1>8 DEF DiskOK
  <2>2. FileOf(Head(todo[u])) = IndexFile
    BY <2>1, InHand DEF DiskOK, Handed
  <2>3. u \in Using(IndexFile)
    BY <2>1, <2>2 DEF Using
  <2>4. f # IndexFile
    BY <1>4, <1>8, <2>1, <2>3
  <2>5. disk'[IndexFile] = disk[IndexFile]
    BY <1>2, <2>4 DEF DiskOK
  <2>6. QED
    BY <1>3, <1>4, <1>8, <2>1, <2>5 DEF Alone
<1>9. QED
  BY <1>2, <1>3, <1>6, <1>7, <1>8 DEF Alone

LEMMA DumpAlone ==
    ASSUME DiskOK, Alone, NEW w \in Writer, Dump(w)
    PROVE  Alone'
<1> DEFINE f == FileOf(Head(todo[w]))
<1>1. step[w] = "writing" /\ f \in DOMAIN disk /\ overlap' = overlap
  BY InHand DEF Dump
<1>2. /\ DOMAIN disk' = DOMAIN disk
      /\ \A g \in DOMAIN disk : g # f => disk'[g] = disk[g]
  BY <1>1 DEF Dump
<1>3. \A u \in Writer : step'[u] \in {"read", "writing"} =>
          /\ u # w /\ step'[u] = step[u] /\ todo'[u] = todo[u]
          /\ snap'[u] = snap[u]
  BY DEF Dump, DiskOK
<1>4. \A g : Using(g)' \subseteq Using(g)
  BY <1>3 DEF Using
<1>5. w \in Using(f)
  BY <1>1 DEF Using
<1>6. ASSUME ~overlap, NEW u \in Writer, step'[u] \in {"read", "writing"}
      PROVE  FileOf(Head(todo[u])) # f
  <2>1. u # w /\ step[u] \in {"read", "writing"}
    BY <1>3, <1>6
  <2>2. u \in Using(FileOf(Head(todo[u])))
    BY <2>1 DEF Using
  <2>3. QED
    BY <1>1, <1>5, <1>6, <2>1, <2>2 DEF Alone
<1>7. ASSUME ~overlap, NEW u \in Writer, step'[u] = "writing"
      PROVE  disk'[FileOf(Head(todo'[u]))] = Torn
  <2>1. todo'[u] = todo[u] /\ step[u] = "writing"
    BY <1>3, <1>7
  <2>2. FileOf(Head(todo[u])) \in DOMAIN disk
    BY <2>1, InHand
  <2>3. QED
    BY <1>2, <1>6, <1>7, <2>1, <2>2 DEF Alone
<1>8. ASSUME ~overlap, NEW u \in Writer, step'[u] = "read"
      PROVE  snap'[u] = disk'[IndexFile]
  <2>1. snap'[u] = snap[u] /\ step[u] = "read"
    BY <1>3, <1>8
  <2>2. FileOf(Head(todo[u])) = IndexFile
    BY <2>1, InHand DEF DiskOK, Handed
  <2>3. disk'[IndexFile] = disk[IndexFile]
    BY <1>2, <1>6, <1>8, <2>2 DEF DiskOK
  <2>4. QED
    BY <1>8, <2>1, <2>3 DEF Alone
<1>9. QED
  BY <1>1, <1>2, <1>4, <1>7, <1>8 DEF Alone

LEMMA NextAlone == DiskOK /\ Alone /\ [Next]_vars => Alone'
<1> SUFFICES ASSUME DiskOK, Alone, [Next]_vars PROVE Alone'
  OBVIOUS
<1>1. ASSUME NEW w \in Writer, Write(w) PROVE Alone'
  BY <1>1, EndsAlone, ReadAlone, OpenAlone, DumpAlone DEF Write, Raise, Crash
<1>2. ASSUME UNCHANGED <<disk, todo, snap, step, overlap>> PROVE Alone'
  BY <1>2 DEF Alone, Using
<1>3. QED
  BY <1>1, <1>2, BeginsAlone, NextSteps, ServesLeavesDisk DEF vars, diskVars

----------------------------------------------------------------------------
(***************************************************************************)
(* While the active version is not registered again, every index that can  *)
(* be read, and every one in hand, has an active version.                  *)
(***************************************************************************)
HasActive(index) == InStatus(index, "active") # {}

Active ==
    ~demoted =>
        /\ disk[IndexFile] # Torn => HasActive(disk[IndexFile])
        /\ \A w \in Writer : snap[w] # Null => HasActive(snap[w])

LEMMA WrittenActive ==
    ASSUME DiskOK, Active, NEW w \in Writer, Dump(w), ~demoted',
           OnIndex(Head(todo[w]))
    PROVE  HasActive(Written(w))
<1> USE StoreAssumption
<1> DEFINE o == Head(todo[w])
<1>1. step[w] = "writing" /\ o \in Op /\ ~demoted
  BY InHand DEF Dump, DiskOK
<1>2. snap[w] \in Index /\ snap[w] # Null /\ o.version \in Version
  BY <1>1 DEF DiskOK, Handed, Op
<1>3. PICK v \in Version : snap[w][v].status = "active"
  BY <1>1, <1>2 DEF Active, HasActive, InStatus
<1>4. CASE o.op = "upsert"
  <2>1. snap[w][o.version].status # "active"
    BY <1>4 DEF Dump, Demotes, DiskOK
  <2>2. Written(w)[v] = snap[w][v]
    BY <1>2, <1>3, <1>4, <2>1 DEF Written, OnIndex, Registered, Index
  <2>3. QED
    BY <1>3, <2>2 DEF HasActive, InStatus
<1>5. CASE o.op = "active"
  <2>1. Written(w)[o.version].status = "active"
    BY <1>2, <1>5 DEF Written, OnIndex, Promoted
  <2>2. QED
    BY <1>2, <2>1 DEF HasActive, InStatus
<1>6. CASE o.op = "validated"
  <2>1. "validated" \in Allowed(snap[w][o.version].status)
    BY <1>1, <1>6 DEF DiskOK, Handed
  <2>2. v # o.version
    BY <1>3, <2>1 DEF Allowed
  <2>3. Written(w)[v].status = "active"
    BY <1>3, <1>6, <2>2 DEF Written, OnIndex, Promoted
  <2>4. QED
    BY <2>3 DEF HasActive, InStatus
<1>7. QED
  BY <1>1, <1>4, <1>5, <1>6 DEF Op, OnIndex

LEMMA DemotedStays ==
    ASSUME DiskOK, [Next]_vars
    PROVE  demoted => demoted'
<1>1. ASSUME NEW w \in Writer, Begins(w) PROVE demoted' = demoted
  BY <1>1, BeginsOne DEF Starts
<1>2. ASSUME NEW w \in Writer, Write(w) PROVE demoted => demoted'
  BY <1>2 DEF Write, ReadIndex, Open, Dump, Raise, Crash, Ends
<1>3. QED
  BY <1>1, <1>2, NextSteps, ServesLeavesDisk DEF vars, diskVars

LEMMA NextActive == DiskOK /\ Active /\ [Next]_vars => Active'
<1> SUFFICES ASSUME DiskOK, Active, [Next]_vars, ~demoted'
             PROVE  /\ disk'[IndexFile] # Torn => HasActive(disk[IndexFile])'
                    /\ \A w \in Writer : snap'[w] # Null => HasActive(snap[w])'
  BY DEF Active
<1>1. ~demoted
  BY DemotedStays
<1>2. ASSUME disk'[IndexFile] # Torn PROVE HasActive(disk[IndexFile])'
  BY <1>1, <1>2, NextIndex, WrittenActive DEF Active, HasActive, InStatus
<1>3. ASSUME NEW w \in Writer, snap'[w] # Null PROVE HasActive(snap[w])'
  BY <1>1, <1>3, NextSnap DEF Active, HasActive, InStatus
<1>4. QED
  BY <1>2, <1>3

----------------------------------------------------------------------------
(***************************************************************************)
(* While no two have the index in hand at once, no record disappears from  *)
(* it: what a request has found, or a shadow was chosen, stays listed.     *)
(***************************************************************************)
Listed(v) ==
    /\ disk[IndexFile] # Torn => disk[IndexFile][v].status # "unregistered"
    /\ \A w \in Writer : step[w] = "writing" /\ OnIndex(Head(todo[w])) =>
          snap[w][v].status # "unregistered"

LEMMA WrittenListed ==
    ASSUME DiskOK, NEW w \in Writer, Dump(w), OnIndex(Head(todo[w])),
           NEW v \in Version, snap[w][v].status # "unregistered"
    PROVE  Written(w)[v].status # "unregistered"
<1> DEFINE o == Head(todo[w])
<1>1. step[w] = "writing" /\ o \in Op
  BY InHand DEF Dump
<1>2. snap[w] \in Index /\ o.version \in Version
  BY <1>1 DEF DiskOK, Handed, Op
<1>3. CASE o.op = "upsert"
  BY <1>2, <1>3 DEF Written, OnIndex, Registered, Index
<1>4. CASE o.op # "upsert"
  <2>1. Written(w) = Promoted(snap[w], o.version, o.op)
    BY <1>4 DEF Written
  <2>2. o.op # "unregistered"
    BY <1>1 DEF Op
  <2>3. QED
    BY <2>1, <2>2 DEF Promoted
<1>5. QED
  BY <1>3, <1>4

LEMMA ListedStays ==
    ASSUME DiskOK, Alone, [Next]_vars, ~overlap', NEW v \in Version, Listed(v)
    PROVE  Listed(v)'
<1>1. Alone'
  BY NextAlone
<1>2. disk'[IndexFile] # Torn => disk'[IndexFile][v].status # "unregistered"
  <2>1. ASSUME NEW w \in Writer, Dump(w), OnIndex(Head(todo[w])),
               disk'[IndexFile] = Written(w)
        PROVE  disk'[IndexFile][v].status # "unregistered"
    BY <2>1, WrittenListed DEF Listed, Dump
  <2>2. QED
    BY <2>1, NextIndex DEF Listed
<1>3. ASSUME NEW w \in Writer, step'[w] = "writing", OnIndex(Head(todo'[w]))
      PROVE  snap'[w][v].status # "unregistered"
  <2>1. CASE Open(w)
    <3>1. step[w] = "read" /\ snap' = snap /\ todo' = todo
      BY <1>3, <2>1 DEF Open
    <3>2. ~overlap
      BY <2>1 DEF Open, DiskOK
    <3>3. snap[w] = disk[IndexFile]
      BY <3>1, <3>2 DEF Alone
    <3>4. snap[w] \in Index
      BY <1>3, <3>1 DEF DiskOK, Handed
    <3>5. disk[IndexFile] # Torn
      BY <3>3, <3>4, StoreAssumption
    <3>6. QED
      BY <3>1, <3>3, <3>5 DEF Listed
  <2>2. CASE ~Open(w)
    <3>1. step[w] = "writing" /\ snap'[w] = snap[w] /\ todo'[w] = todo[w]
      <4>1. ASSUME NEW u \in Writer, Begins(u)
            PROVE  step[w] = "writing" /\ snap'[w] = snap[w] /\ todo'[w] = todo[w]
        BY <1>3, <4>1, BeginsOne DEF Starts, DiskOK
      <4>2. ASSUME NEW u \in Writer, Write(u)
            PROVE  step[w] = "writing" /\ snap'[w] = snap[w] /\ todo'[w] = todo[w]
        BY <1>3, <2>2, <4>2 DEF Write, ReadIndex, Open, Dump, Raise, Crash, Ends,
           DiskOK
      <4>3. QED
        BY <1>3, <4>1, <4>2, NextSteps, ServesLeavesDisk DEF vars, diskVars
    <3>2. QED
      BY <1>3, <3>1 DEF Listed
  <2>3. QED
    BY <2>1, <2>2
<1>4. QED
  BY <1>2, <1>3 DEF Listed

\* What is listed in an index that can be read is listed for good.
LEMMA ReadIsListed ==
    ASSUME DiskOK, Alone, ~overlap, disk[IndexFile] # Torn, NEW v \in Version,
           disk[IndexFile][v].status # "unregistered"
    PROVE  Listed(v)
<1>1. ASSUME NEW w \in Writer, step[w] = "writing", OnIndex(Head(todo[w]))
      PROVE  FALSE
  <2>1. FileOf(Head(todo[w])) = IndexFile
    BY <1>1, InHand
  <2>2. QED
    BY <1>1, <2>1 DEF Alone
<1>2. QED
  BY <1>1 DEF Listed

LEMMA OverlapStays ==
    ASSUME DiskOK, [Next]_vars
    PROVE  overlap => overlap'
<1>1. ASSUME NEW w \in Writer, Begins(w) PROVE overlap' = overlap
  BY <1>1, BeginsOne DEF Starts
<1>2. ASSUME NEW w \in Writer, Write(w) PROVE overlap => overlap'
  BY <1>2 DEF Write, ReadIndex, Open, Dump, Raise, Crash, Ends, DiskOK
<1>3. QED
  BY <1>1, <1>2, NextSteps, ServesLeavesDisk DEF vars, diskVars

(***************************************************************************)
(* Where the built-in card is used.                                        *)
(***************************************************************************)
Found(q) ==
    \/ stage[q] \in {"locate", "sniff", "load", "means"}
    \/ stage[q] = "score" /\ loaded[q] # BuiltIn

ExplainedFor(q) ==
    /\ Found(q) /\ wanted[q] # Null => found[q].version = wanted[q]
    /\ ~demoted /\ ~overlap =>
          /\ stage[q] = "locate" => Listed(found[q].version)
          /\ stage[q] = "look" /\ scored[q] # Null => Listed(wanted[q])
          /\ stage[q] = "score" /\ loaded[q] = BuiltIn =>
                scored[q] = Null /\ wanted[q] # Null
          /\ scored[q] # Null /\ scored[q].version = BuiltIn
                => scored[q].asked # Null
          /\ shadow[q] # Null => shadow[q].version = shadow[q].label

Explained == \A q \in Request : ExplainedFor(q)

LEMMA InitExplained == Init => Active /\ Explained
<1> SUFFICES ASSUME Init PROVE Active /\ Explained
  OBVIOUS
<1>1. Active
  BY StoreAssumption DEF Init, Active, HasActive
<1>2. Explained
  BY DEF Init, Explained, ExplainedFor, Found
<1>3. QED
  BY <1>1, <1>2

\* What a request finds is what it asked for, and listed.
LEMMA LookFinds ==
    ASSUME DiskOK, LoadOK, NEW q \in Request, disk[IndexFile] # Torn,
           NEW r \in Candidates(disk[IndexFile], wanted[q])
    PROVE  /\ r \in Record /\ r.status # "unregistered"
           /\ r = disk[IndexFile][r.version]
           /\ wanted[q] # Null => r.version = wanted[q]
<1>1. disk[IndexFile] \in Index /\ wanted[q] \in Version \cup {Null}
  BY DEF DiskOK, LoadOK
<1>2. \A v \in Version : disk[IndexFile][v] \in Record
                            /\ disk[IndexFile][v].version = v
  BY <1>1 DEF Index
<1>3. CASE wanted[q] = Null
  BY <1>2, <1>3 DEF Candidates, InStatus
<1>4. CASE wanted[q] # Null
  BY <1>1, <1>2, <1>4 DEF Candidates
<1>5. QED
  BY <1>3, <1>4

\* What a request asks for is there, unless it may answer that it is not.
LEMMA LookSucceeds ==
    ASSUME DiskOK, LoadOK, Active, Explained, NEW q \in Request,
           stage[q] = "look", ~demoted, ~overlap, disk[IndexFile] # Torn,
           Candidates(disk[IndexFile], wanted[q]) = {}
    PROVE  scored[q] = Null /\ wanted[q] # Null
<1>1. wanted[q] # Null
  <2>1. HasActive(disk[IndexFile])
    BY DEF Active
  <2>2. QED
    BY <2>1 DEF HasActive, Candidates
<1>2. scored[q] = Null
  <2>1. SUFFICES ASSUME scored[q] # Null PROVE FALSE
    OBVIOUS
  <2>2. disk[IndexFile][wanted[q]].status # "unregistered"
    BY <2>1 DEF Explained, ExplainedFor, Listed
  <2>3. QED
    BY <1>1, <2>2 DEF Candidates
<1>3. QED
  BY <1>1, <1>2

LEMMA LocateSucceeds ==
    ASSUME DiskOK, LoadOK, FreshDisk, Explained, NEW q \in Request,
           stage[q] = "locate", ~demoted, ~overlap, disk[IndexFile] # Torn
    PROVE  /\ disk[IndexFile][found[q].version].status # "unregistered"
           /\ disk[Card(found[q].version)] # Null
<1>1. found[q].version \in Version
  BY DEF LoadOK, Serving, Record
<1>2. disk[IndexFile][found[q].version].status # "unregistered"
  BY DEF Explained, ExplainedFor, Listed
<1>3. disk[IndexFile][found[q].version].version = found[q].version
  BY <1>1 DEF DiskOK, Index
<1>4. QED
  BY <1>1, <1>2, <1>3 DEF FreshDisk, FreshRec

LEMMA ServesExplained ==
    ASSUME DiskOK, LoadOK, FreshDisk, Alone, Active, Explained,
           NEW q \in Request, Serves(q)
    PROVE  Explained'
<1> USE StoreAssumption
<1>1. /\ disk' = disk /\ step' = step /\ todo' = todo /\ snap' = snap
      /\ overlap' = overlap /\ demoted' = demoted
  BY ServesLeavesDisk
<1>2. \A v : Listed(v)' <=> Listed(v)
  BY <1>1 DEF Listed
<1>3. \A p \in Request : /\ (~demoted /\ ~overlap)' <=> (~demoted /\ ~overlap)
                         /\ p # q => /\ stage'[p] = stage[p]
                                     /\ wanted'[p] = wanted[p]
                                     /\ found'[p] = found[p]
                                     /\ loaded'[p] = loaded[p]
                                     /\ scored'[p] = scored[p]
                                     /\ shadow'[p] = shadow[p]
  BY <1>1 DEF Serves, Ask, Look, Locate, Sniff, Load, ReadMeans, Score, List,
     Loading, Fails, FallsBack, Goes, LoadOK
<1> DEFINE Good == ExplainedFor(q)
<1>4. Good
  BY DEF Explained
<1>5. Good' => Explained'
  <2> SUFFICES ASSUME NEW p \in Request, p # q PROVE ExplainedFor(p)'
    BY DEF Explained
  <2>1. ExplainedFor(p)
    BY DEF Explained
  <2>2. QED
    BY <1>1, <1>3, <2>1 DEF ExplainedFor, Found, Listed
<1> USE DEF ExplainedFor
<1>6. CASE Ask(q)
  <2>1. scored'[q] = Null /\ stage'[q] = "look" /\ shadow' = shadow
    BY <1>6 DEF Ask, Goes, LoadOK, Serving
  <2>2. Good'
    BY <1>1, <1>4, <2>1 DEF Found
  <2>3. QED
    BY <1>5, <2>2
<1>7. CASE Look(q)
  <2>1. /\ stage[q] = "look" /\ scored' = scored /\ shadow' = shadow
        /\ wanted' = wanted
    BY <1>7 DEF Look, Loading
  <2>2. CASE Fails(q)
    <3>1. stage'[q] \in {"failed", "done"}
      BY <2>2 DEF Fails, Goes, LoadOK
    <3>2. Good'
      BY <1>1, <1>4, <2>1, <3>1 DEF Found
    <3>3. QED
      BY <1>5, <3>2
  <2>3. CASE /\ disk[IndexFile] # Torn
             /\ Candidates(disk[IndexFile], wanted[q]) = {}
             /\ FallsBack(q)
    <3>1. stage'[q] = "score" /\ loaded'[q] = BuiltIn
      BY <2>3 DEF FallsBack, Goes, LoadOK
    <3>2. ~demoted /\ ~overlap => scored[q] = Null /\ wanted[q] # Null
      BY <2>1, <2>3, LookSucceeds
    <3>3. Good'
      BY <1>1, <1>4, <2>1, <3>1, <3>2 DEF Found
    <3>4. QED
      BY <1>5, <3>3
  <2>4. ASSUME disk[IndexFile] # Torn,
               NEW r \in Candidates(disk[IndexFile], wanted[q]),
               found' = [found EXCEPT ![q] = r], Goes(q, "locate")
        PROVE  Explained'
    <3>1. stage'[q] = "locate" /\ found'[q] = r
      BY <2>4 DEF Goes, LoadOK
    <3>2. /\ r \in Record /\ r.status # "unregistered"
          /\ r = disk[IndexFile][r.version]
          /\ wanted[q] # Null => r.version = wanted[q]
      BY <2>4, LookFinds
    <3>3. r.version \in Version
      BY <3>2 DEF Record
    <3>4. ~overlap => Listed(r.version)
      BY <2>4, <3>2, <3>3, ReadIsListed
    <3>5. Listed(r.version) => Listed(r.version)'
      BY <1>2
    <3>6. Good'
      BY <1>1, <1>4, <2>1, <3>1, <3>2, <3>4, <3>5 DEF Found, Listed
    <3>7. QED
      BY <1>5, <3>6
  <2>5. QED
    BY <1>7, <2>2, <2>3, <2>4 DEF Look
<1>8. CASE Locate(q)
  <2>1. /\ stage[q] = "locate" /\ scored' = scored /\ shadow' = shadow
        /\ wanted' = wanted
    BY <1>8 DEF Locate, Loading
  <2>2. CASE Fails(q)
    <3>1. stage'[q] \in {"failed", "done"}
      BY <2>2 DEF Fails, Goes, LoadOK
    <3>2. Good'
      BY <1>1, <1>4, <2>1, <3>1 DEF Found
    <3>3. QED
      BY <1>5, <3>2
  <2>3. CASE /\ disk[IndexFile] # Torn
             /\ \/ disk[IndexFile][found[q].version].status = "unregistered"
                \/ disk[Card(found[q].version)] = Null
             /\ FallsBack(q)
    <3>1. stage'[q] = "score" /\ loaded'[q] = BuiltIn
      BY <2>3 DEF FallsBack, Goes, LoadOK
    <3>2. demoted \/ overlap
      BY <2>1, <2>3, LocateSucceeds
    <3>3. Good'
      BY <1>1, <2>1, <3>1, <3>2 DEF Found
    <3>4. QED
      BY <1>5, <3>3
  <2>4. CASE Goes(q, "sniff") /\ found' = found
    <3>1. stage'[q] = "sniff"
      BY <2>4 DEF Goes, LoadOK
    <3>2. Good'
      BY <1>1, <1>4, <2>1, <2>4, <3>1 DEF Found
    <3>3. QED
      BY <1>5, <3>2
  <2>5. QED
    BY <1>8, <2>2, <2>3, <2>4 DEF Locate
<1>9. CASE Sniff(q) \/ Load(q) \/ ReadMeans(q)
  <2>1. /\ stage[q] \in {"sniff", "load", "means"}
        /\ scored' = scored /\ shadow' = shadow /\ wanted' = wanted
        /\ found' = found
    BY <1>9 DEF Sniff, Load, ReadMeans, Loading, Fails
  <2>2. stage'[q] \in {"failed", "done", "load", "means", "score"}
    BY <1>9 DEF Sniff, Load, ReadMeans, Fails, Goes, LoadOK
  <2>3. stage'[q] = "score" => loaded'[q] # BuiltIn
    <3>1. stage'[q] = "score" => ReadMeans(q) /\ loaded' = loaded
      BY <1>9 DEF Sniff, Load, ReadMeans, Fails, Goes, LoadOK
    <3>2. ReadMeans(q) => loaded[q] \in Run
      BY DEF ReadMeans, Loading, LoadOK, Serving
    <3>3. QED
      BY <3>1, <3>2
  <2>4. Good'
    BY <1>1, <1>4, <2>1, <2>2, <2>3 DEF Found
  <2>5. QED
    BY <1>5, <2>4
<1>10. CASE Score(q)
  <2>1. stage[q] = "score" /\ wanted' = wanted
    BY <1>10 DEF Score
  <2>2. loaded[q] # BuiltIn => found[q].version \in Version
    BY <2>1 DEF LoadOK, Serving, Record
  <2>3. CASE Fails(q) /\ UNCHANGED <<scored, shadow>>
    <3>1. stage'[q] \in {"failed", "done"}
      BY <2>3 DEF Fails, Goes, LoadOK
    <3>2. Good'
      BY <1>1, <1>4, <2>1, <2>3, <3>1 DEF Found
    <3>3. QED
      BY <1>5, <3>2
  <2>4. CASE /\ scored' = [scored EXCEPT ![q] =
                     [version |-> By(q), run |-> loaded[q],
                      asked |-> wanted[q], record |-> found[q]]]
             /\ Goes(q, "list") /\ shadow' = shadow
    <3>1. /\ stage'[q] = "list"
          /\ scored'[q].version = By(q) /\ scored'[q].asked = wanted[q]
      BY <2>4 DEF Goes, LoadOK
    <3>2. By(q) = BuiltIn => loaded[q] = BuiltIn
      BY <2>2 DEF By
    <3>3. Good'
      BY <1>1, <1>4, <2>1, <2>4, <3>1, <3>2 DEF Found
    <3>4. QED
      BY <1>5, <3>3
  <2>5. CASE /\ ~Main(q) /\ scored' = scored /\ Goes(q, "done")
             /\ shadow' = [shadow EXCEPT ![q] =
                    [label |-> wanted[q], version |-> By(q)]]
    <3>1. /\ stage'[q] = "done"
          /\ shadow'[q] = [label |-> wanted[q], version |-> By(q)]
      BY <2>5 DEF Goes, LoadOK
    <3>2. wanted[q] # Null
      BY <2>1, <2>5 DEF Main, LoadOK, Serving
    <3>3. ~demoted /\ ~overlap => By(q) = wanted[q]
      BY <1>4, <2>1, <2>5, <3>2 DEF By, Found, Main
    <3>4. Good'
      BY <1>1, <1>4, <2>1, <2>5, <3>1, <3>3 DEF Found
    <3>5. QED
      BY <1>5, <3>4
  <2>6. QED
    BY <1>10, <2>3, <2>4, <2>5 DEF Score
<1>11. CASE List(q)
  <2>1. stage[q] = "list" /\ scored' = scored /\ shadow' = shadow
    BY <1>11 DEF List
  <2>2. CASE Goes(q, "done")
    <3>1. stage'[q] = "done"
      BY <2>2 DEF Goes, LoadOK
    <3>2. Good'
      BY <1>1, <1>4, <2>1, <3>1 DEF Found
    <3>3. QED
      BY <1>5, <3>2
  <2>3. ASSUME disk[IndexFile] # Torn, NEW v \in Challengers(q),
               wanted' = [wanted EXCEPT ![q] = v], Goes(q, "look")
        PROVE  Explained'
    <3>1. stage'[q] = "look" /\ wanted'[q] = v
      BY <2>3 DEF Goes, LoadOK
    <3>2. v \in Version /\ disk[IndexFile][v].status # "unregistered"
      BY DEF Challengers, InStatus
    <3>3. ~overlap => Listed(v)
      BY <2>3, <3>2, ReadIsListed
    <3>4. Listed(v) => Listed(v)'
      BY <1>2
    <3>5. Good'
      BY <1>1, <1>4, <2>1, <3>1, <3>3, <3>4 DEF Found, Listed
    <3>6. QED
      BY <1>5, <3>5
  <2>4. QED
    BY <1>11, <2>2, <2>3 DEF List
<1>12. QED
  BY <1>6, <1>7, <1>8, <1>9, <1>10, <1>11 DEF Serves

LEMMA NextExplained ==
    /\ DiskOK /\ LoadOK /\ FreshDisk /\ Alone /\ Active /\ Explained
    /\ [Next]_vars
    => Explained'
<1> SUFFICES ASSUME DiskOK, LoadOK, FreshDisk, Alone, Active, Explained, [Next]_vars
             PROVE  Explained'
  OBVIOUS
<1>1. ASSUME UNCHANGED <<stage, wanted, found, loaded, scored, shadow>>
      PROVE  Explained'
  <2>1. ~demoted' /\ ~overlap' => ~demoted /\ ~overlap
    BY DemotedStays, OverlapStays
  <2>2. \A v \in Version : ~overlap' /\ Listed(v) => Listed(v)'
    BY ListedStays
  <2> SUFFICES ASSUME NEW q \in Request, ~demoted', ~overlap'
      PROVE  /\ stage[q] = "locate" => Listed(found[q].version)'
             /\ stage[q] = "look" /\ scored[q] # Null => Listed(wanted[q])'
    BY <1>1, <2>1 DEF Explained, ExplainedFor, Found
  <2>3. ASSUME stage[q] = "locate" PROVE Listed(found[q].version)'
    <3>1. PICK v \in Version : v = found[q].version
      BY <2>3 DEF LoadOK, Serving, Record
    <3>2. Listed(v)'
      BY <2>1, <2>2, <2>3, <3>1 DEF Explained, ExplainedFor
    <3>3. QED
      BY <1>1, <3>1, <3>2
  <2>4. ASSUME stage[q] = "look", scored[q] # Null PROVE Listed(wanted[q])'
    <3>1. PICK v \in Version : v = wanted[q]
      BY <2>4 DEF LoadOK, Serving
    <3>2. Listed(v)'
      BY <2>1, <2>2, <2>4, <3>1 DEF Explained, ExplainedFor
    <3>3. QED
      BY <1>1, <3>1, <3>2
  <2>5. QED
    BY <2>3, <2>4
<1>2. QED
  BY <1>1, NextSteps, WriterLeavesLoad, ServesExplained DEF vars, loadVars

(***************************************************************************)
(* The built-in card scores silently only after the active version was     *)
(* registered again or two had the index in hand.                          *)
(***************************************************************************)
THEOREM FallBackExplainedCorrect == Spec => []FallBackExplained
<1> DEFINE I == /\ DiskOK /\ LoadOK /\ FreshDisk /\ FreshLoad
                /\ Alone /\ Active /\ Explained
<1>1. Init => I
  BY InitTypes, InitFresh, InitAlone, InitExplained
<1>2. I /\ [Next]_vars => I'
  BY NextDiskOK, NextLoadOK, NextFreshDisk, NextFreshLoad, NextAlone,
     NextActive, NextExplained
<1>3. I => FallBackExplained
  BY DEF Explained, ExplainedFor, FallBackExplained
<1>4. QED
  BY <1>1, <1>2, <1>3, PTL DEF Spec

----------------------------------------------------------------------------
(***************************************************************************)
(* Failures.  Without crashes and collisions a file that is not whole is   *)
(* being written, which a request that has been calm excludes; so it       *)
(* sniffs what it loads.                                                   *)
(***************************************************************************)
Undamaged ==
    ~overlap /\ ~crashed =>
        \A f \in DOMAIN disk : disk[f] = Torn =>
            \E w \in Writer : step[w] = "writing" /\ FileOf(Head(todo[w])) = f

Quiet(q) == calm[q] /\ stage[q] # "idle" =>
                \A w \in Writer : step[w] # "writing"

Sniffed(q) == calm[q] /\ ~overlap /\ ~crashed /\ stage[q] = "load" =>
                  pickled[q] = IsPickle(found[q].version)

FailureOK(q) ==
    stage[q] = "failed" =>
        \/ ~calm[q] \/ crashed \/ overlap
        \/ found[q] # Null /\ FormatOf[found[q].version] = "dict"

Failures == \A q \in Request : Quiet(q) /\ Sniffed(q) /\ FailureOK(q)

LEMMA InitFailures == Init => Undamaged /\ Failures
<1> SUFFICES ASSUME Init PROVE Undamaged /\ Failures
  OBVIOUS
<1>1. ASSUME NEW f \in DOMAIN disk PROVE disk[f] # Torn
  <2>1. disk[f] \in {Shipped, Null, Origin}
    BY DEF Init
  <2>2. QED
    BY <2>1, StoreAssumption DEF Run
<1>2. Undamaged
  BY <1>1 DEF Undamaged
<1>3. Failures
  BY DEF Init, Failures, Quiet, Sniffed, FailureOK
<1>4. QED
  BY <1>2, <1>3

LEMMA CrashedStays ==
    ASSUME DiskOK, [Next]_vars
    PROVE  crashed => crashed'
<1>1. ASSUME NEW w \in Writer, Begins(w) PROVE crashed' = crashed
  BY <1>1, BeginsOne DEF Starts
<1>2. ASSUME NEW w \in Writer, Write(w) PROVE crashed => crashed'
  BY <1>2 DEF Write, ReadIndex, Open, Dump, Raise, Crash, Ends, DiskOK
<1>3. QED
  BY <1>1, <1>2, NextSteps, ServesLeavesDisk DEF vars, diskVars

\* Alone with its file a writer leaves it whole.
LEMMA DumpLeavesWhole ==
    ASSUME DiskOK, Alone, ~overlap, NEW w \in Writer, Dump(w)
    PROVE  disk' = [disk EXCEPT ![FileOf(Head(todo[w]))] = Written(w)]
<1> DEFINE f == FileOf(Head(todo[w]))
<1>1. step[w] = "writing" /\ f \in DOMAIN disk
  BY InHand DEF Dump
<1>2. disk[f] = Torn
  BY <1>1 DEF Alone
<1>3. w \in Using(f)
  BY <1>1 DEF Using
<1>4. Using(f) = {w}
  BY <1>1, <1>3 DEF Alone
<1>5. QED
  BY <1>2, <1>4 DEF Dump

LEMMA WriteUndamaged ==
    ASSUME DiskOK, Alone, Undamaged, NEW w \in Writer, Write(w),
           ~overlap', ~overlap, ~crashed', ~crashed
    PROVE  \A f \in DOMAIN disk' : disk'[f] = Torn =>
               \E u \in Writer : /\ step'[u] = "writing"
                                 /\ FileOf(Head(todo'[u])) = f
<1> USE StoreAssumption
<1>1. CASE ReadIndex(w) \/ Raise(w) \/ Crash(w)
  <2>1. disk' = disk /\ step[w] # "writing"
    BY <1>1 DEF ReadIndex, Raise, Crash, Ends
  <2>2. \A u \in Writer : step[u] = "writing" =>
            step'[u] = "writing" /\ todo'[u] = todo[u]
    BY <1>1, <2>1 DEF ReadIndex, Raise, Crash, Ends, DiskOK
  <2>3. QED
    BY <2>1, <2>2 DEF Undamaged
<1>2. CASE Open(w)
  <2> DEFINE g == FileOf(Head(todo[w]))
  <2>1. step[w] # "writing" /\ todo' = todo /\ g \in DOMAIN disk
    BY <1>2, InHand DEF Open
  <2>2. /\ DOMAIN disk' = DOMAIN disk
        /\ \A f \in DOMAIN disk : f # g => disk'[f] = disk[f]
    BY <1>2, <2>1 DEF Open
  <2>3. step'[w] = "writing" /\ \A u \in Writer : u # w => step'[u] = step[u]
    BY <1>2 DEF Open, DiskOK
  <2> HIDE DEF g
  <2>4. FileOf(Head(todo'[w])) = g
    BY <2>1 DEF g
  <2>5. QED
    BY <2>1, <2>2, <2>3, <2>4 DEF Undamaged
<1>3. CASE Dump(w)
  <2> DEFINE g == FileOf(Head(todo[w]))
  <2>1. step[w] = "writing" /\ g \in DOMAIN disk
    BY <1>3, InHand DEF Dump
  <2>2. disk' = [disk EXCEPT ![g] = Written(w)]
    BY <1>3, DumpLeavesWhole
  <2>3. Written(w) # Torn
    BY <2>1, WrittenType
  <2>4. /\ DOMAIN disk' = DOMAIN disk
        /\ disk'[g] # Torn
        /\ \A f \in DOMAIN disk : f # g => disk'[f] = disk[f]
    BY <2>1, <2>2, <2>3
  <2>5. \A u \in Writer : u # w => step'[u] = step[u] /\ todo'[u] = todo[u]
    BY <1>3 DEF Dump, DiskOK
  <2> HIDE DEF g
  <2>6. FileOf(Head(todo[w])) = g
    BY DEF g
  <2>7. QED
    BY <2>4, <2>5, <2>6 DEF Undamaged
<1>4. QED
  BY <1>1, <1>2, <1>3 DEF Write

LEMMA NextUndamaged == DiskOK /\ Alone /\ Undamaged /\ [Next]_vars => Undamaged'
<1> SUFFICES ASSUME DiskOK, Alone, Undamaged, [Next]_vars, ~overlap', ~crashed'
             PROVE  \A f \in DOMAIN disk' : disk'[f] = Torn =>
                        \E u \in Writer : /\ step'[u] = "writing"
                                          /\ FileOf(Head(todo'[u])) = f
  BY DEF Undamaged
<1>1. ~overlap /\ ~crashed
  BY OverlapStays, CrashedStays
<1>2. ASSUME NEW w \in Writer, Begins(w)
      PROVE  disk' = disk /\ \A u \in Writer : step[u] = "writing" =>
                 step'[u] = "writing" /\ todo'[u] = todo[u]
  BY <1>2, BeginsOne DEF Starts, DiskOK
<1>3. CASE \E w \in Writer : Write(w)
  BY <1>1, <1>3, WriteUndamaged
<1>4. ASSUME disk' = disk, \A u \in Writer : step[u] = "writing" =>
                 step'[u] = "writing" /\ todo'[u] = todo[u]
      PROVE  \A f \in DOMAIN disk' : disk'[f] = Torn =>
                 \E u \in Writer : /\ step'[u] = "writing"
                                   /\ FileOf(Head(todo'[u])) = f
  BY <1>1, <1>4 DEF Undamaged
<1>5. QED
  BY <1>2, <1>3, <1>4, NextSteps, ServesLeavesDisk DEF vars, diskVars

\* A file that is not whole is no surprise to a request.
LEMMA TornIsExplained ==
    ASSUME DiskOK, Undamaged, NEW q \in Request, Quiet(q), stage[q] # "idle",
           NEW f \in DOMAIN disk, disk[f] = Torn
    PROVE  ~calm[q] \/ crashed \/ overlap
BY DEF Undamaged, Quiet

LEMMA ServesFailures ==
    ASSUME DiskOK, LoadOK, Undamaged, Failures, NEW q \in Request, Serves(q)
    PROVE  Failures'
<1> USE StoreAssumption
<1>1. /\ disk' = disk /\ step' = step /\ todo' = todo
      /\ overlap' = overlap /\ crashed' = crashed
  BY ServesLeavesDisk
<1>2. \A p \in Request : p # q => /\ stage'[p] = stage[p] /\ calm'[p] = calm[p]
                                  /\ found'[p] = found[p]
                                  /\ pickled'[p] = pickled[p]
  BY DEF Serves, Ask, Look, Locate, Sniff, Load, ReadMeans, Score, List,
     Loading, Fails, FallsBack, Goes, LoadOK
<1>3. \A p \in Request : Quiet(p) /\ Sniffed(p) /\ FailureOK(p)
  BY DEF Failures
<1>4. \A p \in Request : p # q => Quiet(p)' /\ Sniffed(p)' /\ FailureOK(p)'
  BY <1>1, <1>2, <1>3 DEF Quiet, Sniffed, FailureOK
<1>5. CASE Ask(q)
  <2>1. stage'[q] = "look" /\ calm'[q] = \A w \in Writer : step[w] # "writing"
    BY <1>5 DEF Ask, Goes, LoadOK
  <2>2. Quiet(q)' /\ Sniffed(q)' /\ FailureOK(q)'
    BY <1>1, <2>1 DEF Quiet, Sniffed, FailureOK
  <2>3. QED
    BY <1>4, <2>2 DEF Failures
<1>6. ASSUME ~Ask(q) PROVE Failures'
  <2>1. calm' = calm /\ stage[q] # "idle"
    BY <1>6 DEF Serves, Ask, Look, Locate, Sniff, Load, ReadMeans, Score, List,
       Loading
  <2>2. Quiet(q)'
    BY <1>1, <1>3, <2>1 DEF Quiet
  <2>3. /\ IndexFile \in DOMAIN disk
        /\ \A v \in Version : Card(v) \in DOMAIN disk /\ Report(v) \in DOMAIN disk
    BY DEF DiskOK
  <2>4. \A f \in DOMAIN disk : disk[f] = Torn => ~calm[q] \/ crashed \/ overlap
    BY <1>3, <2>1, TornIsExplained
  <2>5. stage[q] \in {"sniff", "load", "means"} => found[q].version \in Version
    BY DEF LoadOK, Serving, Record
  <2>6. Sniffed(q)'
    <3>1. SUFFICES ASSUME calm[q], ~overlap, ~crashed, stage'[q] = "load"
                   PROVE  pickled'[q] = IsPickle(found'[q].version)
      BY <1>1, <2>1 DEF Sniffed
    <3>2. Sniff(q)
      BY <1>6, <3>1 DEF Serves, Look, Locate, Load, ReadMeans, Score, List,
         Loading, Fails, FallsBack, Goes, LoadOK
    <3>3. stage[q] = "sniff" /\ found' = found
      BY <3>2 DEF Sniff, Loading
    <3>4. disk[Card(found[q].version)] # Torn
      BY <2>3, <2>4, <2>5, <3>1, <3>3
    <3>5. LooksPickled(found[q].version) = {IsPickle(found[q].version)}
      BY <3>4 DEF LooksPickled
    <3>6. QED
      BY <3>2, <3>3, <3>5 DEF Sniff, LoadOK
  <2>7. FailureOK(q)'
    <3>1. SUFFICES ASSUME calm[q], ~overlap, ~crashed, stage'[q] = "failed"
                   PROVE  /\ found'[q] # Null
                          /\ FormatOf[found'[q].version] = "dict"
      BY <1>1, <2>1 DEF FailureOK
    <3>2. \A f \in DOMAIN disk : disk[f] # Torn
      BY <2>4, <3>1
    <3>3. ~Look(q) /\ ~Locate(q)
      BY <2>3, <3>1, <3>2 DEF Look, Locate, FallsBack, Goes, LoadOK
    <3>4. ~Sniff(q) /\ ~List(q)
      BY <3>1 DEF Sniff, List, Goes, LoadOK
    <3>5. ~ReadMeans(q)
      BY <2>3, <2>5, <3>1, <3>2 DEF ReadMeans, Loading, Goes, LoadOK
    <3>6. ~Load(q)
      <4>1. SUFFICES ASSUME Load(q) PROVE FALSE
        OBVIOUS
      <4>2. stage[q] = "load"
        BY <4>1 DEF Load, Loading
      <4>3. disk[Card(found[q].version)] # Torn
        BY <2>3, <2>5, <3>2, <4>2
      <4>4. pickled[q] = IsPickle(found[q].version)
        BY <1>3, <3>1, <4>2 DEF Sniffed
      <4>5. Goes(q, "means")
        BY <4>1, <4>3, <4>4 DEF Load
      <4>6. QED
        BY <3>1, <4>5 DEF Goes, LoadOK
    <3>7. Score(q)
      BY <1>6, <3>3, <3>4, <3>5, <3>6 DEF Serves
    <3>8. Unusable(q) /\ found' = found /\ stage[q] = "score"
      BY <3>1, <3>7 DEF Score, Fails, Goes, LoadOK
    <3>9. QED
      BY <3>8 DEF Unusable, LoadOK, Serving
  <2>8. QED
    BY <1>4, <2>2, <2>6, <2>7 DEF Failures
<1>7. QED
  BY <1>5, <1>6

LEMMA NextFailures ==
    ASSUME DiskOK, LoadOK, Undamaged, Failures, [Next]_vars
    PROVE  Failures'
<1>1. (overlap => overlap') /\ (crashed => crashed')
  BY OverlapStays, CrashedStays
<1>2. ASSUME NEW w \in Writer, Begins(w) \/ Write(w) PROVE Failures'
  <2>1. /\ UNCHANGED <<stage, wanted, found, pickled, loaded, scored, shadow>>
        /\ \A q \in Request : calm'[q] => calm[q]
    BY <1>2, WriterLeavesLoad
  <2>2. \/ calm' = [q \in Request |-> FALSE]
        \/ \A u \in Writer : step'[u] = "writing" => step[u] = "writing"
    <3>1. CASE Begins(w)
      BY <3>1, BeginsOne DEF Starts, DiskOK
    <3>2. CASE Write(w)
      BY <3>2 DEF Write, ReadIndex, Open, Dump, Raise, Crash, Ends, DiskOK
    <3>3. QED
      BY <1>2, <3>1, <3>2
  <2>3. \A q \in Request : Quiet(q)'
    BY <2>1, <2>2 DEF Failures, Quiet
  <2>4. \A q \in Request : Sniffed(q)' /\ FailureOK(q)'
    BY <1>1, <2>1 DEF Failures, Sniffed, FailureOK
  <2>5. QED
    BY <2>3, <2>4 DEF Failures
<1>3. CASE UNCHANGED vars
  BY <1>3 DEF vars, diskVars, loadVars, Failures, Quiet, Sniffed, FailureOK
<1>4. QED
  BY <1>2, <1>3, ServesFailures, NextSteps

(***************************************************************************)
(* A score fails only where a file was being written, one is damaged, or   *)
(* the card found was pickled as a dict.                                   *)
(***************************************************************************)
THEOREM FailureExplainedCorrect == Spec => []FailureExplained
<1> DEFINE I == DiskOK /\ LoadOK /\ Alone /\ Undamaged /\ Failures
<1>1. Init => I
  BY InitTypes, InitAlone, InitFailures
<1>2. I /\ [Next]_vars => I'
  BY NextDiskOK, NextLoadOK, NextAlone, NextUndamaged, NextFailures
<1>3. I => FailureExplained
  BY DEF Failures, FailureOK, FailureExplained
<1>4. QED
  BY <1>1, <1>2, <1>3, PTL DEF Spec
=============================================================================

----------------------- MODULE SchemaMigrationsProofs -----------------------
(***************************************************************************)
(* Migrations of a running system, for any sessions and files: after any   *)
(* sequence of upgrades, downgrades and interruptions the tables are those *)
(* of their revision, at head the ones the models declare, and the locks   *)
(* of alembic and of the sessions never form a circle.                     *)
(***************************************************************************)
EXTENDS SchemaMigrations, SequenceTheorems, TLAPS

(* The way from an empty database to head has four places, and every run   *)
(* of alembic goes one step at a time from one to the next.                *)

\* The tables at a place of the way.
TablesAt(p) ==
  IF p = 0 THEN <<>>
  ELSE IF p = 1 THEN [t \in {"files"} |-> Created[t]]
  ELSE IF p = 2 THEN Created ELSE Models

\* Where a revision is on the way.
PlaceOf(v) == IF v = 0 THEN 0 ELSE v + 1

\* The steps from a place up to head, and down to the beginning.
UpFrom(p) ==
  IF p = 0 THEN <<Step("create", "files"), Step("create", "alerts"), Step("add sha256", "files")>>
  ELSE IF p = 1 THEN <<Step("create", "alerts"), Step("add sha256", "files")>>
  ELSE IF p = 2 THEN <<Step("add sha256", "files")>> ELSE <<>>

DownFrom(p) ==
  IF p = 3 THEN <<Step("drop sha256", "files"), Step("drop", "alerts"), Step("drop", "files")>>
  ELSE IF p = 2 THEN <<Step("drop", "alerts"), Step("drop", "files")>>
  ELSE IF p = 1 THEN <<Step("drop", "files")>> ELSE <<>>

\* Down to the first revision only.
DownToFirst(p) == IF p = 3 THEN <<Step("drop sha256", "files")>> ELSE <<>>

-----------------------------------------------------------------------------
(* Columns, tables and steps.                                              *)

LEMMA LatestIsTwo == Latest = 2
BY DEF Latest, Revisions

\* What the two declarations have in common.
LEMMA Declarations ==
  /\ DOMAIN Created = {"files", "alerts"} /\ DOMAIN Models = {"files", "alerts"}
  /\ Created.alerts = Models.alerts
  /\ DOMAIN Models.files.columns = DOMAIN Created.files.columns \cup {"sha256"}
  /\ "sha256" \notin DOMAIN Created.files.columns
<1>1. DOMAIN Created = {"files", "alerts"} /\ DOMAIN Models = {"files", "alerts"}
  BY DEF Created, Models
<1>2. Created.alerts = Models.alerts
  BY DEF Created, Models, Str, Of, Timestamp, Column
<1>3. /\ DOMAIN Models.files.columns = DOMAIN Created.files.columns \cup {"sha256"}
      /\ "sha256" \notin DOMAIN Created.files.columns
  BY DEF Created, Models
<1>4. QED
  BY <1>1, <1>2, <1>3

\* The column of the second revision is all that the first one lacks.
LEMMA DigestAdded ==
  LET old == Created.files.columns
      new == [c \in DOMAIN old \cup {"sha256"} |-> IF c = "sha256" THEN Sha256 ELSE old[c]]
  IN  /\ new = Models.files.columns
      /\ old = [c \in DOMAIN Models.files.columns \ {"sha256"} |-> Models.files.columns[c]]
<1> DEFINE old == Created.files.columns
           model == Models.files.columns
<1>1. /\ DOMAIN model = DOMAIN old \cup {"sha256"} /\ "sha256" \notin DOMAIN old
      /\ model.sha256 = Sha256
  BY Declarations DEF Models, Sha256
<1>2. \A c \in DOMAIN old : old[c] = model[c]
  <2>1. DOMAIN old = {"id", "title", "original_name", "stored_name", "mime_type", "size",
          "processing_status", "scan_status", "scan_details", "metadata_json",
          "requires_attention", "created_at", "updated_at"}
    BY DEF Created
  <2>2. /\ old.id = model.id /\ old.title = model.title
        /\ old.original_name = model.original_name /\ old.stored_name = model.stored_name
        /\ old.mime_type = model.mime_type /\ old.size = model.size
    BY DEF Created, Models
  <2>3. /\ old.processing_status = model.processing_status
        /\ old.scan_status = model.scan_status /\ old.scan_details = model.scan_details
        /\ old.metadata_json = model.metadata_json
        /\ old.requires_attention = model.requires_attention
        /\ old.created_at = model.created_at /\ old.updated_at = model.updated_at
    BY DEF Created, Models
  <2> HIDE DEF old, model
  <2>4. QED
    BY <2>1, <2>2, <2>3
<1>3. old = [c \in DOMAIN old |-> old[c]]
  <2>1. old =
          [id |-> Str(36, FALSE), title |-> Str(255, FALSE),
           original_name |-> Str(255, FALSE), stored_name |-> Str(255, FALSE),
           mime_type |-> Str(255, FALSE), size |-> Of("integer", FALSE),
           processing_status |-> Str(50, FALSE), scan_status |-> Str(50, TRUE),
           scan_details |-> Str(500, TRUE), metadata_json |-> Of("json", TRUE),
           requires_attention |-> Of("boolean", FALSE),
           created_at |-> Timestamp, updated_at |-> Timestamp]
    BY ZenonT(60) DEF Created
  <2> HIDE DEF old
  <2>2. QED
    BY <2>1
<1>4. model = [c \in DOMAIN model |-> model[c]]
  <2>1. model =
          [id |-> Str(36, FALSE), title |-> Str(255, FALSE),
           original_name |-> Str(255, FALSE), stored_name |-> Str(255, FALSE),
           mime_type |-> Str(255, FALSE), size |-> Of("integer", FALSE),
           sha256 |-> Str(64, TRUE),
           processing_status |-> Str(50, FALSE), scan_status |-> Str(50, TRUE),
           scan_details |-> Str(500, TRUE), metadata_json |-> Of("json", TRUE),
           requires_attention |-> Of("boolean", FALSE),
           created_at |-> Timestamp, updated_at |-> Timestamp]
    BY ZenonT(60) DEF Models
  <2> HIDE DEF model
  <2>2. QED
    BY <2>1
<1> HIDE DEF old, model
<1>5. [c \in DOMAIN old \cup {"sha256"} |-> IF c = "sha256" THEN Sha256 ELSE old[c]] = model
  BY <1>1, <1>2, <1>3, <1>4
<1>6. [c \in DOMAIN model \ {"sha256"} |-> model[c]] = old
  BY <1>1, <1>2, <1>3, <1>4
<1>7. QED
  BY <1>5, <1>6 DEF old, model


\* The declarations are functions, as TLAPS wants to be told.
LEMMA CreatedIsFunction == Created = [t \in DOMAIN Created |-> Created[t]]
BY DEF Created

\* They differ in the columns of files only.
LEMMA ColumnsChanged ==
  /\ [Created EXCEPT !.files.columns = Models.files.columns] = Models
  /\ [Models EXCEPT !.files.columns = Created.files.columns] = Created
<1> DEFINE old == Created.files.columns
           model == Models.files.columns
           FilesWith(columns) == [columns |-> columns, key |-> "id",
                              unique |-> {"stored_name"}, references |-> {}]
           TablesWith(columns) == [files |-> FilesWith(columns), alerts |-> Created.alerts]
<1>1. Created.files = FilesWith(old) /\ Models.files = FilesWith(model)
  BY DEF Created, Models
<1>2. /\ Created = [files |-> Created.files, alerts |-> Created.alerts]
      /\ Models = [files |-> Models.files, alerts |-> Models.alerts]
  BY DEF Created, Models
<1>3. Created = TablesWith(old) /\ Models = TablesWith(model)
  BY <1>1, <1>2, Declarations
<1>4. \A a, b : [TablesWith(a) EXCEPT !.files.columns = b] = TablesWith(b)
  OBVIOUS
<1>5. QED
  BY <1>3, <1>4

\* The first step and the rest of a plan of one, two and three.
LEMMA PlanOfOne ==
  ASSUME NEW plan, NEW rest, NEW a, plan = <<a>>, rest = <<>>
  PROVE  plan # <<>> /\ Head(plan) = a /\ Tail(plan) = rest
OBVIOUS

LEMMA PlanOfTwo ==
  ASSUME NEW plan, NEW rest, NEW a, NEW b, plan = <<a, b>>, rest = <<b>>
  PROVE  plan # <<>> /\ Head(plan) = a /\ Tail(plan) = rest
OBVIOUS

LEMMA PlanOfThree ==
  ASSUME NEW plan, NEW rest, NEW a, NEW b, NEW c, plan = <<a, b, c>>, rest = <<b, c>>
  PROVE  plan # <<>> /\ Head(plan) = a /\ Tail(plan) = rest
OBVIOUS

\* One step up.
LEMMA StepUp ==
  ASSUME NEW p \in 0..2
  PROVE  /\ UpFrom(p) # <<>> /\ Tail(UpFrom(p)) = UpFrom(p + 1)
         /\ Performed(TablesAt(p), Head(UpFrom(p))) = TablesAt(p + 1)
         /\ \A loss : Lost(loss, Head(UpFrom(p))) = loss \cup {}
         /\ Head(UpFrom(p)).table = IF p = 1 THEN "alerts" ELSE "files"
<1>1. CASE p = 0
  <2> DEFINE step == Step("create", "files")
  <2>1. /\ UpFrom(p) = <<step, Step("create", "alerts"), Step("add sha256", "files")>>
        /\ UpFrom(p + 1) = <<Step("create", "alerts"), Step("add sha256", "files")>>
        /\ TablesAt(p) = <<>> /\ TablesAt(p + 1) = [t \in {"files"} |-> Created[t]]
    BY <1>1 DEF UpFrom, TablesAt
  <2>2. UpFrom(p) # <<>> /\ Head(UpFrom(p)) = step /\ Tail(UpFrom(p)) = UpFrom(p + 1)
    BY <2>1, PlanOfThree, Zenon
  <2>3. Performed(<<>>, step) = [t \in {"files"} |-> Created[t]]
    BY DEF Performed, Step
  <2>4. \A loss : Lost(loss, step) = loss \cup {}
    BY DEF Lost, Step
  <2>5. step.table = IF p = 1 THEN "alerts" ELSE "files"
    BY <1>1 DEF Step
  <2>6. QED
    BY <2>1, <2>2, <2>3, <2>4, <2>5
<1>2. CASE p = 1
  <2> DEFINE step == Step("create", "alerts")
  <2>1. /\ UpFrom(p) = <<step, Step("add sha256", "files")>>
        /\ UpFrom(p + 1) = <<Step("add sha256", "files")>>
        /\ TablesAt(p) = [t \in {"files"} |-> Created[t]] /\ TablesAt(p + 1) = Created
    BY <1>2 DEF UpFrom, TablesAt
  <2>2. UpFrom(p) # <<>> /\ Head(UpFrom(p)) = step /\ Tail(UpFrom(p)) = UpFrom(p + 1)
    BY <2>1, PlanOfTwo, Zenon
  <2>3. Performed(TablesAt(p), step) = [t \in {"files", "alerts"} |-> Created[t]]
    BY <2>1 DEF Performed, Step
  <2>4. [t \in {"files", "alerts"} |-> Created[t]] = Created
    BY Declarations, CreatedIsFunction
  <2>5. \A loss : Lost(loss, step) = loss \cup {}
    BY DEF Lost, Step
  <2>6. step.table = IF p = 1 THEN "alerts" ELSE "files"
    BY <1>2 DEF Step
  <2>7. QED
    BY <2>1, <2>2, <2>3, <2>4, <2>5, <2>6
<1>3. CASE p = 2
  <2> DEFINE step == Step("add sha256", "files")
  <2>1. /\ UpFrom(p) = <<step>> /\ UpFrom(p + 1) = <<>>
        /\ TablesAt(p) = Created /\ TablesAt(p + 1) = Models
    BY <1>3 DEF UpFrom, TablesAt
  <2>2. UpFrom(p) # <<>> /\ Head(UpFrom(p)) = step /\ Tail(UpFrom(p)) = UpFrom(p + 1)
    BY <2>1, PlanOfOne, Zenon
  <2>3. Performed(Created, step) = Models
    <3>1. Performed(Created, step) = [Created EXCEPT !.files.columns = Models.files.columns]
      BY DigestAdded DEF Performed, Step
    <3>2. QED
      BY <3>1, ColumnsChanged
  <2>4. \A loss : Lost(loss, step) = loss \cup {}
    BY DEF Lost, Step
  <2>5. step.table = IF p = 1 THEN "alerts" ELSE "files"
    BY <1>3 DEF Step
  <2>6. QED
    BY <2>1, <2>2, <2>3, <2>4, <2>5
<1>4. QED
  BY <1>1, <1>2, <1>3

\* What the step down from a place takes away.
TakenFrom(p) == IF p = 3 THEN {"digests"} ELSE IF p = 2 THEN {"alerts"} ELSE {"rows"}

\* One step down.
LEMMA StepDown ==
  ASSUME NEW p \in 1..3
  PROVE  /\ DownFrom(p) # <<>> /\ Tail(DownFrom(p)) = DownFrom(p - 1)
         /\ Performed(TablesAt(p), Head(DownFrom(p))) = TablesAt(p - 1)
         /\ \A loss : Lost(loss, Head(DownFrom(p))) = loss \cup TakenFrom(p)
         /\ Head(DownFrom(p)).table = IF p = 2 THEN "alerts" ELSE "files"
<1>1. CASE p = 3
  <2> DEFINE step == Step("drop sha256", "files")
  <2>1. /\ DownFrom(p) = <<step, Step("drop", "alerts"), Step("drop", "files")>>
        /\ DownFrom(p - 1) = <<Step("drop", "alerts"), Step("drop", "files")>>
        /\ TablesAt(p) = Models /\ TablesAt(p - 1) = Created
    BY <1>1 DEF DownFrom, TablesAt
  <2>2. DownFrom(p) # <<>> /\ Head(DownFrom(p)) = step /\ Tail(DownFrom(p)) = DownFrom(p - 1)
    BY <2>1, PlanOfThree, Zenon
  <2>3. Performed(Models, step) = Created
    <3>1. Performed(Models, step) = [Models EXCEPT !.files.columns = Created.files.columns]
      BY DigestAdded DEF Performed, Step
    <3>2. QED
      BY <3>1, ColumnsChanged
  <2>4. \A loss : Lost(loss, step) = loss \cup TakenFrom(p)
    BY <1>1 DEF Lost, Step, TakenFrom
  <2>5. step.table = IF p = 2 THEN "alerts" ELSE "files"
    BY <1>1 DEF Step
  <2>6. QED
    BY <2>1, <2>2, <2>3, <2>4, <2>5
<1>2. CASE p = 2
  <2> DEFINE step == Step("drop", "alerts")
  <2>1. /\ DownFrom(p) = <<step, Step("drop", "files")>>
        /\ DownFrom(p - 1) = <<Step("drop", "files")>>
        /\ TablesAt(p - 1) = [t \in {"files"} |-> Created[t]] /\ TablesAt(p) = Created
    BY <1>2 DEF DownFrom, TablesAt
  <2>2. DownFrom(p) # <<>> /\ Head(DownFrom(p)) = step /\ Tail(DownFrom(p)) = DownFrom(p - 1)
    BY <2>1, PlanOfTwo, Zenon
  <2>3. Performed(Created, step) = [t \in {"files"} |-> Created[t]]
    BY Declarations DEF Performed, Step
  <2>4. \A loss : Lost(loss, step) = loss \cup TakenFrom(p)
    BY <1>2 DEF Lost, Step, TakenFrom
  <2>5. step.table = IF p = 2 THEN "alerts" ELSE "files"
    BY <1>2 DEF Step
  <2>6. QED
    BY <2>1, <2>2, <2>3, <2>4, <2>5
<1>3. CASE p = 1
  <2> DEFINE step == Step("drop", "files")
  <2>1. /\ DownFrom(p) = <<step>> /\ DownFrom(p - 1) = <<>>
        /\ TablesAt(p) = [t \in {"files"} |-> Created[t]] /\ TablesAt(p - 1) = <<>>
    BY <1>3 DEF DownFrom, TablesAt
  <2>2. DownFrom(p) # <<>> /\ Head(DownFrom(p)) = step /\ Tail(DownFrom(p)) = DownFrom(p - 1)
    BY <2>1, PlanOfOne, Zenon
  <2>3. Performed(TablesAt(p), step) = <<>>
    BY <2>1 DEF Performed, Step
  <2>4. \A loss : Lost(loss, step) = loss \cup TakenFrom(p)
    BY <1>3 DEF Lost, Step, TakenFrom
  <2>5. step.table = IF p = 2 THEN "alerts" ELSE "files"
    BY <1>3 DEF Step
  <2>6. QED
    BY <2>1, <2>2, <2>3, <2>4, <2>5
<1>4. QED
  BY <1>1, <1>2, <1>3


\* Down to the first revision is the first step of the way down.
LEMMA StepDownToFirst ==
  /\ DownToFirst(3) # <<>> /\ Head(DownToFirst(3)) = Head(DownFrom(3))
  /\ Tail(DownToFirst(3)) = <<>> /\ DownToFirst(2) = <<>>
<1>1. /\ DownToFirst(3) = <<Step("drop sha256", "files")>> /\ DownToFirst(2) = <<>>
      /\ DownFrom(3) = <<Step("drop sha256", "files"), Step("drop", "alerts"),
                         Step("drop", "files")>>
  BY DEF DownToFirst, DownFrom
<1>2. Head(DownFrom(3)) = Step("drop sha256", "files")
  BY <1>1, PlanOfThree, Zenon
<1>3. /\ DownToFirst(3) # <<>> /\ Head(DownToFirst(3)) = Step("drop sha256", "files")
      /\ Tail(DownToFirst(3)) = <<>>
  BY <1>1, PlanOfOne, Zenon
<1>4. QED
  BY <1>1, <1>2, <1>3

\* Where a plan has come to its end.
LEMMA PlanEnds ==
  ASSUME NEW p \in 0..3
  PROVE  /\ UpFrom(p) = <<>> <=> p = 3
         /\ DownFrom(p) = <<>> <=> p = 0
         /\ p \in {2, 3} => (DownToFirst(p) = <<>> <=> p = 2)
<1>1. UpFrom(3) = <<>> /\ DownFrom(0) = <<>>
  BY DEF UpFrom, DownFrom
<1>2. p \in 0..2 => UpFrom(p) # <<>>
  BY StepUp
<1>3. p \in 1..3 => DownFrom(p) # <<>>
  BY StepDown
<1>4. QED
  BY <1>1, <1>2, <1>3, StepDownToFirst

LEMMA ConcatenatedPlans ==
  \A a, b, c : <<a, b>> \o <<c>> = <<a, b, c>> /\ <<a>> \o <<b, c>> = <<a, b, c>>
<1> SUFFICES ASSUME NEW a, NEW b, NEW c
             PROVE  <<a, b>> \o <<c>> = <<a, b, c>> /\ <<a>> \o <<b, c>> = <<a, b, c>>
  OBVIOUS
<1> DEFINE S == {a, b, c}
<1>1. ASSUME NEW x, NEW y, x = <<a, b>>, y = <<c>>
      PROVE  x \o y = <<a, b, c>>
  <2>1. x \in Seq(S) /\ y \in Seq(S) /\ <<a, b, c>> \in Seq(S)
    BY <1>1
  <2>2. x \o y \in Seq(S)
    BY <2>1
  <2>3. Len(x \o y) = 3 /\ (x \o y)[1] = a /\ (x \o y)[2] = b /\ (x \o y)[3] = c
    BY <1>1
  <2>4. /\ Len(<<a, b, c>>) = 3
        /\ \A i \in 1..3 : (x \o y)[i] = <<a, b, c>>[i]
    BY <2>3
  <2>5. QED
    BY <2>1, <2>2, <2>3, <2>4, SeqEqual
<1>2. ASSUME NEW x, NEW y, x = <<a>>, y = <<b, c>>
      PROVE  x \o y = <<a, b, c>>
  <2>1. x \in Seq(S) /\ y \in Seq(S) /\ <<a, b, c>> \in Seq(S)
    BY <1>2
  <2>2. x \o y \in Seq(S)
    BY <2>1
  <2>3. Len(x \o y) = 3 /\ (x \o y)[1] = a /\ (x \o y)[2] = b /\ (x \o y)[3] = c
    BY <1>2
  <2>4. /\ Len(<<a, b, c>>) = 3
        /\ \A i \in 1..3 : (x \o y)[i] = <<a, b, c>>[i]
    BY <2>3
  <2>5. QED
    BY <2>1, <2>2, <2>3, <2>4, SeqEqual
<1>3. QED
  BY <1>1, <1>2, Zenon

\* What alembic is told to do from a revision is the way from its place.
LEMMA PlansOfRevisions ==
  /\ Upwards(0) = UpFrom(0) /\ Upwards(1) = UpFrom(2)
  /\ Downwards(2, 0) = DownFrom(3) /\ Downwards(2, 1) = DownToFirst(3)
  /\ Downwards(1, 0) = DownFrom(2)
<1> DEFINE create == <<Step("create", "files"), Step("create", "alerts")>>
           add == <<Step("add sha256", "files")>>
           drop == <<Step("drop", "alerts"), Step("drop", "files")>>
           lose == <<Step("drop sha256", "files")>>
<1>1. /\ Revisions[1].up = create /\ Revisions[1].down = drop
      /\ Revisions[2].up = add /\ Revisions[2].down = lose
  BY DEF Revisions
<1>2. UpFrom(0) = create \o add /\ UpFrom(2) = add
  <2>1. UpFrom(0) = <<Step("create", "files"), Step("create", "alerts"),
                      Step("add sha256", "files")>>
    BY DEF UpFrom
  <2>2. create \o add = UpFrom(0)
    BY <2>1, ConcatenatedPlans, Zenon
  <2>3. UpFrom(2) = add
    BY DEF UpFrom
  <2>4. QED
    BY <2>2, <2>3
<1>3. DownFrom(3) = lose \o drop /\ DownFrom(2) = drop /\ DownToFirst(3) = lose
  <2>1. DownFrom(3) = <<Step("drop sha256", "files"), Step("drop", "alerts"),
                        Step("drop", "files")>>
    BY DEF DownFrom
  <2>2. lose \o drop = DownFrom(3)
    BY <2>1, ConcatenatedPlans, Zenon
  <2>3. DownFrom(2) = drop /\ DownToFirst(3) = lose
    BY DEF DownFrom, DownToFirst
  <2>4. QED
    BY <2>2, <2>3
<1> HIDE DEF create, add, drop, lose
<1>4. Upwards(0) = create \o add /\ Upwards(1) = add
  BY <1>1 DEF Upwards
<1>5. /\ Downwards(2, 0) = lose \o drop /\ Downwards(2, 1) = lose
      /\ Downwards(1, 0) = drop
  BY <1>1 DEF Downwards
<1>6. QED
  BY <1>2, <1>3, <1>4, <1>5

Names == {"files", "alerts"}

\* The tables of a revision.
LEMMA TablesOfRevisions ==
  ASSUME NEW v \in 0..2, NEW tables, tables = TablesAt(PlaceOf(v))
  PROVE  /\ DOMAIN tables = IF v = 0 THEN {} ELSE Names
         /\ v = 1 => tables = Created
         /\ v = 2 => tables = Models
<1>1. /\ v = 0 => tables = <<>>
      /\ v = 1 => tables = Created
      /\ v = 2 => tables = Models
  BY DEF TablesAt, PlaceOf
<1>2. CASE v = 0
  BY <1>1, <1>2
<1>3. CASE v # 0
  BY <1>1, <1>3, Declarations DEF Names
<1>4. QED
  BY <1>1, <1>2, <1>3

\* Only the last one has what the models need of files.
LEMMA ServedAtHead ==
  ASSUME version \in 0..2, schema = TablesAt(PlaceOf(version)), Serves("files")
  PROVE  version = 2
<1>1. /\ DOMAIN schema = IF version = 0 THEN {} ELSE Names
      /\ version = 1 => schema = Created
  BY TablesOfRevisions
<1>2. QED
  BY <1>1, Declarations DEF Serves

-----------------------------------------------------------------------------
(* The inductive invariant.                                                *)

Losses == {"digests", "alerts", "rows"}
Todo == {<<>>, <<"files">>, <<"alerts">>, <<"files", "alerts">>}
Kinds == {"none", "files", "alerts", "download", "create", "delete", "task"}
SessionType ==
  [op : Kinds, todo : Todo, holds : SUBSET Names, file : Files \cup {None}]

ShapeInv ==
  /\ version \in 0..2 /\ schema = TablesAt(PlaceOf(version))
  /\ DOMAIN run = {"plan", "goal", "tables", "loss", "waits", "locked"}
  /\ run.loss \subseteq Losses /\ run.locked \subseteq DOMAIN schema
  /\ session \in [Sessions -> SessionType]
  /\ troubles \in 0..MaxTroubles

\* A run is at a place p of its way.
OnWay(p) ==
  /\ run.tables = TablesAt(p)
  /\ \/ /\ run.goal = 2 /\ run.plan = UpFrom(p)
        /\ version < 2 /\ PlaceOf(version) <= p
     \/ /\ run.goal = 0 /\ run.plan = DownFrom(p)
        /\ version > 0 /\ p <= PlaceOf(version)
     \/ /\ run.goal = 1 /\ run.plan = DownToFirst(p)
        /\ version = 2 /\ p \in {2, 3}

\* On its way down a run has locked what it has changed, and has taken what went
\* with it; on its way up it takes nothing.
TookWhatItLocked(p) ==
  /\ run.goal = 2 => run.loss = {}
  /\ run.goal = 1 => run.loss \subseteq {"digests"}
  /\ run.goal = 0 => ("alerts" \in run.loss <=> p < 2) /\ ("rows" \in run.loss <=> p = 0)
  /\ run.goal < 2 /\ version = 2 /\ p < 3 =>
       "files" \in run.locked /\ "digests" \in run.loss
  /\ run.goal = 0 /\ p < 2 => "alerts" \in run.locked

RunInv == run = NoRun \/ \E p \in 0..3 : OnWay(p) /\ TookWhatItLocked(p)

\* A run waits for the table of its next step.  From head down it locks files
\* before alerts, as sessions do.
LockInv ==
  /\ run.waits = "none" \/ /\ run.plan # <<>> /\ run.waits = Head(run.plan).table
                           /\ run.waits \in DOMAIN schema \ run.locked
  /\ version = 2 /\ "alerts" \in run.locked => "files" \in run.locked
  /\ \A s \in Sessions : session[s].holds \cap run.locked = {}

\* A session comes to the alerts by way of files, and to files only at head.
SessionInv ==
  \A s \in Sessions :
    /\ session[s].holds \subseteq DOMAIN schema
    /\ "files" \in session[s].holds => version = 2
    /\ session[s].holds # {} /\ session[s].todo # <<>> =>
         session[s].holds = {"files"} /\ session[s].todo = <<"alerts">>
    /\ session[s].op \in Writers =>
         /\ session[s].file \in Files
         /\ \/ session[s].todo \in {<<"files">>, <<"files", "alerts">>}
            \/ "files" \in session[s].holds

\* Digests are stored at head only, and alerts refer to rows.
StoreInv ==
  /\ rows \in [Files -> {"none", "plain", "hashed"}]
  /\ alerts \subseteq {f \in Files : rows[f] # "none"}
  /\ \A f \in Files : rows[f] = "hashed" => version = 2

\* A POST has a file of its own.
CreateInv ==
  \A s \in Sessions : session[s].op = "create" =>
    /\ rows[session[s].file] = "none"
    /\ \A b \in Sessions : session[b].op = "create" /\ session[b].file = session[s].file => b = s

SchemaInv == ShapeInv /\ RunInv /\ LockInv /\ SessionInv /\ StoreInv /\ CreateInv

\* What the rest of the proof needs to know of a state.
LEMMA StateFacts ==
  ASSUME SchemaInv
  PROVE  /\ version \in 0..2 /\ schema = TablesAt(PlaceOf(version))
         /\ DOMAIN schema = IF version = 0 THEN {} ELSE Names
         /\ Serves("files") => version = 2
         /\ DOMAIN run = {"plan", "goal", "tables", "loss", "waits", "locked"}
         /\ run.locked \subseteq DOMAIN schema
         /\ troubles \in 0..MaxTroubles
BY TablesOfRevisions, ServedAtHead DEF SchemaInv, ShapeInv

LEMMA NoRunFacts ==
  /\ DOMAIN NoRun = {"plan", "goal", "tables", "loss", "waits", "locked"}
  /\ NoRun.plan = <<>> /\ NoRun.goal = -1 /\ NoRun.loss = {}
  /\ NoRun.waits = "none" /\ NoRun.locked = {}
BY DEF NoRun

LEMMA SchemaInit == Init => SchemaInv
<1> SUFFICES ASSUME Init PROVE SchemaInv
  OBVIOUS
<1> USE TroublesAssumption, NoRunFacts
<1>1. version \in 0..2 /\ schema = TablesAt(PlaceOf(version))
  BY DEF Init, TablesAt, PlaceOf
<1>2. rows \in [Files -> {"none", "plain"}]
  BY DEF Init
<1>3. \A s \in Sessions :
        /\ session[s].op = "none" /\ session[s].todo = <<>> /\ session[s].holds = {}
        /\ session[s] \in SessionType
  BY DEF Init, NoSession, Todo, Kinds, SessionType
<1>4. ShapeInv
  BY <1>1, <1>2, <1>3 DEF Init, ShapeInv, Losses
<1>5. RunInv /\ LockInv
  BY <1>3 DEF Init, RunInv, LockInv
<1>6. SessionInv /\ StoreInv /\ CreateInv
  BY <1>2, <1>3 DEF Init, SessionInv, StoreInv, CreateInv, Writers
<1>7. QED
  BY <1>4, <1>5, <1>6 DEF SchemaInv

\* A run that ends without a commit leaves everything as it was.
LEMMA RunEnds ==
  ASSUME SchemaInv, run' = NoRun, UNCHANGED <<schema, version, rows, alerts, session>>,
         troubles' \in 0..MaxTroubles
  PROVE  SchemaInv'
<1> USE NoRunFacts
<1>1. ShapeInv'
  BY DEF SchemaInv, ShapeInv, Losses
<1>2. RunInv' /\ LockInv'
  BY DEF RunInv, LockInv
<1>3. SessionInv' /\ StoreInv' /\ CreateInv'
  BY DEF SchemaInv, SessionInv, StoreInv, CreateInv
<1>4. QED
  BY <1>1, <1>2, <1>3 DEF SchemaInv

\* A run begins at the place of the version.
LEMMA RunBegins ==
  ASSUME SchemaInv, troubles' \in 0..MaxTroubles,
         NEW goal \in 0..2, NEW plan, Begin(plan, goal),
         LET p == PlaceOf(version) IN
           \/ goal = 2 /\ version < 2 /\ plan = UpFrom(p)
           \/ goal = 0 /\ version > 0 /\ plan = DownFrom(p)
           \/ goal = 1 /\ version = 2 /\ plan = DownToFirst(p)
  PROVE  SchemaInv'
<1> USE NoRunFacts
<1>1. /\ UNCHANGED <<schema, version, rows, alerts, session>>
      /\ DOMAIN run' = {"plan", "goal", "tables", "loss", "waits", "locked"}
      /\ run'.plan = plan /\ run'.goal = goal /\ run'.tables = schema
      /\ run'.loss = {} /\ run'.waits = "none" /\ run'.locked = {}
  BY DEF Begin
<1>2. ShapeInv'
  BY <1>1 DEF SchemaInv, ShapeInv, Losses
<1>3. PICK p \in 0..3 : p = PlaceOf(version)
  BY StateFacts DEF PlaceOf
<1>4. run'.tables = TablesAt(p)
  BY <1>1, <1>3, StateFacts
<1>5. /\ OnWay(p)'
      /\ version = 2 => p = 3
      /\ version > 0 => p >= 2
  BY <1>1, <1>3, <1>4, StateFacts DEF OnWay, PlaceOf
<1>6. TookWhatItLocked(p)'
  BY <1>1, <1>3, <1>5, StateFacts DEF TookWhatItLocked, OnWay
<1>7. LockInv' /\ SessionInv' /\ StoreInv' /\ CreateInv'
  BY <1>1 DEF SchemaInv, LockInv, SessionInv, StoreInv, CreateInv
<1>8. QED
  BY <1>2, <1>3, <1>5, <1>6, <1>7 DEF SchemaInv, RunInv

\* The next step of a run, from place p to place q.
NextStep(p, q) ==
  LET step == Head(run.plan) IN
  /\ Performed(run.tables, step) = TablesAt(q)
  /\ \/ /\ run.goal = 2 /\ p \in 0..2 /\ q = p + 1 /\ Tail(run.plan) = UpFrom(q)
        /\ step.table \in Names /\ Lost(run.loss, step) = run.loss \cup {}
     \/ /\ run.goal = 0 /\ p \in 1..3 /\ q = p - 1 /\ Tail(run.plan) = DownFrom(q)
        /\ step.table = IF p = 2 THEN "alerts" ELSE "files"
        /\ Lost(run.loss, step) = run.loss \cup TakenFrom(p)
     \/ /\ run.goal = 1 /\ p = 3 /\ q = 2 /\ Tail(run.plan) = DownToFirst(q)
        /\ step.table = "files" /\ Lost(run.loss, step) = run.loss \cup TakenFrom(3)

LEMMA NextStepExists ==
  ASSUME SchemaInv, run.plan # <<>>
  PROVE  \E p, q \in 0..3 : OnWay(p) /\ TookWhatItLocked(p) /\ NextStep(p, q)
<1>1. PICK p \in 0..3 : OnWay(p) /\ TookWhatItLocked(p)
  BY NoRunFacts DEF SchemaInv, RunInv
<1>2. CASE run.goal = 2
  <2>1. run.tables = TablesAt(p) /\ run.plan = UpFrom(p)
    BY <1>1, <1>2 DEF OnWay
  <2>2. p \in 0..2
    BY <2>1, PlanEnds
  <2>3. /\ Tail(run.plan) = UpFrom(p + 1)
        /\ Performed(run.tables, Head(run.plan)) = TablesAt(p + 1)
        /\ Lost(run.loss, Head(run.plan)) = run.loss \cup {}
        /\ Head(run.plan).table = IF p = 1 THEN "alerts" ELSE "files"
    BY <2>1, <2>2, StepUp, Zenon
  <2>4. NextStep(p, p + 1) /\ p + 1 \in 0..3
    BY <1>2, <2>2, <2>3 DEF NextStep, Names
  <2>5. QED
    BY <1>1, <2>4
<1>3. CASE run.goal = 0
  <2>1. run.tables = TablesAt(p) /\ run.plan = DownFrom(p)
    BY <1>1, <1>3 DEF OnWay
  <2>2. p \in 1..3
    BY <2>1, PlanEnds
  <2>3. /\ Tail(DownFrom(p)) = DownFrom(p - 1)
        /\ Performed(TablesAt(p), Head(DownFrom(p))) = TablesAt(p - 1)
        /\ Lost(run.loss, Head(DownFrom(p))) = run.loss \cup TakenFrom(p)
        /\ Head(DownFrom(p)).table = IF p = 2 THEN "alerts" ELSE "files"
    BY <2>2, StepDown
  <2>4. NextStep(p, p - 1) /\ p - 1 \in 0..3
    BY <1>3, <2>1, <2>2, <2>3 DEF NextStep
  <2>5. QED
    BY <1>1, <2>4
<1>4. CASE run.goal = 1
  <2>1. /\ run.tables = TablesAt(p) /\ run.plan = DownToFirst(p) /\ p \in {2, 3}
    BY <1>1, <1>4 DEF OnWay
  <2>2. p = 3
    BY <2>1, PlanEnds
  <2>3. /\ Performed(TablesAt(3), Head(DownFrom(3))) = TablesAt(2)
        /\ Lost(run.loss, Head(DownFrom(3))) = run.loss \cup TakenFrom(3)
        /\ Head(DownFrom(3)).table = "files"
    BY StepDown
  <2>4. Head(run.plan) = Head(DownFrom(3)) /\ Tail(run.plan) = DownToFirst(2)
    BY <2>1, <2>2, StepDownToFirst
  <2>5. NextStep(3, 2)
    BY <1>4, <2>1, <2>2, <2>3, <2>4 DEF NextStep
  <2>6. QED
    BY <1>1, <2>2, <2>5
<1>5. QED
  BY <1>1, <1>2, <1>3, <1>4 DEF OnWay

\* A step is kept in the run's transaction.
LEMMA KeepsStep ==
  ASSUME SchemaInv, run.plan # <<>>, Head(run.plan).table \notin DOMAIN schema \ run.locked,
         Keeps(Head(run.plan)), UNCHANGED <<version, session, troubles>>
  PROVE  SchemaInv'
<1>1. PICK p \in 0..3, q \in 0..3 : OnWay(p) /\ TookWhatItLocked(p) /\ NextStep(p, q)
  BY NextStepExists
<1>2. /\ run'.plan = Tail(run.plan) /\ run'.tables = TablesAt(q)
      /\ run'.loss = Lost(run.loss, Head(run.plan))
      /\ run'.goal = run.goal /\ run'.waits = run.waits /\ run'.locked = run.locked
      /\ DOMAIN run' = DOMAIN run
      /\ UNCHANGED <<schema, version, rows, alerts, session, troubles>>
  BY <1>1, StateFacts DEF Keeps, NextStep
<1>3. run'.loss \subseteq Losses
  BY <1>1, <1>2 DEF NextStep, TakenFrom, SchemaInv, ShapeInv, Losses
<1>4. ShapeInv'
  BY <1>2, <1>3 DEF SchemaInv, ShapeInv
<1>5. OnWay(q)'
  BY <1>1, <1>2, StateFacts DEF OnWay, NextStep, PlaceOf
\* The table of the step is locked, or there was none before the run.
<1>6. version > 0 => Head(run.plan).table \in run.locked \/ Head(run.plan).table \notin Names
  BY StateFacts
<1>7. TookWhatItLocked(q)'
  <2>1. CASE run.goal = 2
    BY <1>1, <1>2, <2>1 DEF TookWhatItLocked, NextStep
  <2>2. CASE run.goal = 0
    <3>1. /\ version > 0 /\ p \in 1..3 /\ q = p - 1
          /\ Head(run.plan).table = IF p = 2 THEN "alerts" ELSE "files"
          /\ run'.loss = run.loss \cup TakenFrom(p)
      BY <1>1, <1>2, <2>2 DEF NextStep, OnWay
    <3>2. Head(run.plan).table \in run.locked
      BY <1>6, <3>1 DEF Names
    <3>3. CASE p = 3
      BY <1>1, <1>2, <2>2, <3>1, <3>2, <3>3 DEF TookWhatItLocked, TakenFrom
    <3>4. CASE p = 2
      BY <1>1, <1>2, <2>2, <3>1, <3>2, <3>4 DEF TookWhatItLocked, TakenFrom
    <3>5. CASE p = 1
      BY <1>1, <1>2, <2>2, <3>1, <3>5 DEF TookWhatItLocked, TakenFrom
    <3>6. QED
      BY <3>1, <3>3, <3>4, <3>5
  <2>3. CASE run.goal = 1
    BY <1>1, <1>2, <1>6, <2>3, StateFacts DEF TookWhatItLocked, NextStep, TakenFrom, Names, OnWay
  <2>4. QED
    BY <1>1, <2>1, <2>2, <2>3 DEF OnWay
<1>8. LockInv'
  BY <1>2 DEF SchemaInv, LockInv
<1>9. SessionInv' /\ StoreInv' /\ CreateInv'
  BY <1>2 DEF SchemaInv, SessionInv, StoreInv, CreateInv
<1>10. QED
  BY <1>4, <1>5, <1>7, <1>8, <1>9 DEF SchemaInv, RunInv

\* A commit brings the tables of the goal.  Nobody holds a table it changes.
LEMMA CommitsStep == SchemaInv /\ Commits => SchemaInv'
<1> SUFFICES ASSUME SchemaInv, Commits PROVE SchemaInv'
  OBVIOUS
<1>1. /\ run.goal # -1 /\ run.plan = <<>> /\ run' = NoRun
      /\ schema' = run.tables /\ version' = run.goal
      /\ rows' = [f \in Files |-> Without(run.loss, rows[f])]
      /\ alerts' = AlertsWithout(run.loss)
      /\ UNCHANGED <<session, troubles>>
  BY DEF Commits, Running
<1>2. PICK p \in 0..3 : OnWay(p) /\ TookWhatItLocked(p)
  BY <1>1, NoRunFacts DEF SchemaInv, RunInv
<1>3. run.goal \in 0..2 /\ p = PlaceOf(run.goal) /\ (version < run.goal \/ run.goal < version)
  BY <1>1, <1>2, PlanEnds, StateFacts DEF OnWay, PlaceOf
<1>4. schema' = TablesAt(PlaceOf(version'))
  BY <1>1, <1>2, <1>3 DEF OnWay
<1>5. DOMAIN schema' = IF version' = 0 THEN {} ELSE Names
  BY <1>1, <1>3, <1>4, TablesOfRevisions
<1>6. ShapeInv'
  BY <1>1, <1>3, <1>4, NoRunFacts DEF SchemaInv, ShapeInv
<1>7. RunInv' /\ LockInv'
  BY <1>1, NoRunFacts DEF RunInv, LockInv
<1>8. SessionInv'
  <2>1. ASSUME NEW s \in Sessions
        PROVE  /\ session[s].holds \subseteq DOMAIN schema'
               /\ "files" \in session[s].holds => run.goal = 2
    <3>1. CASE run.goal = 2
      BY <1>1, <1>5, <3>1, StateFacts DEF SchemaInv, SessionInv
    <3>2. CASE run.goal < 2
      <4>1. "files" \notin session[s].holds
        <5>1. version = 2 => "files" \in run.locked
          BY <1>2, <1>3, <3>2 DEF TookWhatItLocked, PlaceOf
        <5>2. QED
          BY <5>1 DEF SchemaInv, SessionInv, LockInv
      <4>2. run.goal = 0 => "alerts" \notin session[s].holds
        BY <1>2, <1>3 DEF TookWhatItLocked, PlaceOf, SchemaInv, LockInv
      <4>3. session[s].holds \subseteq Names
        BY StateFacts DEF SchemaInv, SessionInv
      <4>4. QED
        BY <1>1, <1>3, <1>5, <3>2, <4>1, <4>2, <4>3 DEF Names
    <3>3. QED
      BY <1>3, <3>1, <3>2
  <2>2. QED
    BY <1>1, <2>1 DEF SchemaInv, SessionInv
<1>9. StoreInv'
  <2>1. rows' \in [Files -> {"none", "plain", "hashed"}]
    BY <1>1 DEF SchemaInv, StoreInv, Without
  <2>2. ASSUME NEW f \in Files, rows'[f] = "hashed"
        PROVE  version' = 2
    <3>1. rows[f] = "hashed" /\ "digests" \notin run.loss
      BY <1>1, <2>2 DEF Without
    <3>2. version = 2
      BY <3>1 DEF SchemaInv, StoreInv
    <3>3. QED
      BY <1>1, <1>2, <1>3, <3>1, <3>2 DEF TookWhatItLocked, PlaceOf
  <2>3. ASSUME NEW f \in alerts'
        PROVE  f \in Files /\ rows'[f] # "none"
    <3>1. "alerts" \notin run.loss /\ f \in Files /\ rows[f] # "none"
      BY <1>1, <2>3 DEF AlertsWithout, SchemaInv, StoreInv
    <3>2. "rows" \notin run.loss
      BY <1>2, <1>3, <3>1 DEF TookWhatItLocked, PlaceOf
    <3>3. QED
      BY <1>1, <3>1, <3>2 DEF Without
  <2>4. QED
    BY <2>1, <2>2, <2>3 DEF StoreInv
<1>10. CreateInv'
  BY <1>1 DEF SchemaInv, CreateInv, SessionInv, Writers, Without
<1>11. QED
  BY <1>6, <1>7, <1>8, <1>9, <1>10 DEF SchemaInv

\* A run asks for a table, and has it once nobody holds it.
LEMMA LockSteps == SchemaInv /\ (Asks \/ Locks) => SchemaInv'
<1> SUFFICES ASSUME SchemaInv, Asks \/ Locks PROVE SchemaInv'
  OBVIOUS
<1>1. /\ run'.plan = run.plan /\ run'.goal = run.goal /\ run'.tables = run.tables
      /\ run'.loss = run.loss /\ DOMAIN run' = DOMAIN run
      /\ run.locked \subseteq run'.locked /\ run'.locked \subseteq DOMAIN schema
      /\ UNCHANGED <<schema, version, rows, alerts, session, troubles>>
  BY StateFacts DEF Asks, Locks, SchemaInv, LockInv
<1>2. run.plan # <<>>
  BY DEF Asks, Locks, SchemaInv, LockInv
<1>3. PICK p \in 0..3, q \in 0..3 : OnWay(p) /\ TookWhatItLocked(p) /\ NextStep(p, q)
  BY <1>2, NextStepExists
<1>4. ShapeInv'
  BY <1>1 DEF SchemaInv, ShapeInv
<1>5. OnWay(p)' /\ TookWhatItLocked(p)'
  BY <1>1, <1>3 DEF OnWay, TookWhatItLocked
<1>6. LockInv'
  <2>1. CASE Asks
    <3>1. /\ run'.waits = Head(run.plan).table /\ run'.locked = run.locked
          /\ Head(run.plan).table \in DOMAIN schema \ run.locked
      BY <2>1, StateFacts DEF Asks
    <3>2. QED
      BY <1>1, <1>2, <3>1 DEF SchemaInv, LockInv
  <2>2. CASE Locks
    <3>1. /\ run'.waits = "none" /\ run'.locked = run.locked \cup {run.waits}
          /\ run.waits = Head(run.plan).table
          /\ \A s \in Sessions : run.waits \notin session[s].holds
      BY <2>2, StateFacts DEF Locks, SchemaInv, LockInv
    \* At head alerts are the table of the second step, which comes after files.
    <3>2. version = 2 /\ run.waits = "alerts" => "files" \in run.locked
      BY <1>3, <3>1 DEF OnWay, NextStep, TookWhatItLocked
    <3>3. QED
      BY <1>1, <3>1, <3>2 DEF SchemaInv, LockInv
  <2>3. QED
    BY <2>1, <2>2
<1>7. SessionInv' /\ StoreInv' /\ CreateInv'
  BY <1>1 DEF SchemaInv, SessionInv, StoreInv, CreateInv
<1>8. QED
  BY <1>4, <1>5, <1>6, <1>7 DEF SchemaInv, RunInv

-----------------------------------------------------------------------------
(* Sessions.                                                               *)

\* What a session does first, and what is left after it.
LEMMA TodoFacts ==
  ASSUME NEW todo \in Todo, todo # <<>>
  PROVE  \/ /\ Head(todo) = "files" /\ Tail(todo) \in {<<>>, <<"alerts">>}
            /\ todo # <<"alerts">>
         \/ /\ Head(todo) = "alerts" /\ Tail(todo) = <<>>
            /\ todo # <<"files">>
<1>1. CASE todo = <<"files">>
  BY <1>1
<1>2. CASE todo = <<"alerts">>
  BY <1>2
<1>3. CASE todo = <<"files", "alerts">>
  <2>1. Head(todo) = "files" /\ Tail(todo) = <<"alerts">>
    BY <1>3, PlanOfTwo
  <2>2. todo # <<"alerts">>
    BY <1>3
  <2>3. QED
    BY <2>1, <2>2
<1>4. QED
  BY <1>1, <1>2, <1>3 DEF Todo

\* What the invariant says of one session.
SessionOK(s) ==
  /\ session[s] \in SessionType
  /\ session[s].holds \subseteq DOMAIN schema /\ session[s].holds \cap run.locked = {}
  /\ "files" \in session[s].holds => version = 2
  /\ session[s].holds # {} /\ session[s].todo # <<>> =>
       session[s].holds = {"files"} /\ session[s].todo = <<"alerts">>
  /\ session[s].op \in Writers =>
       /\ session[s].file \in Files
       /\ \/ session[s].todo \in {<<"files">>, <<"files", "alerts">>}
          \/ "files" \in session[s].holds

LEMMA OneSession ==
  ASSUME SchemaInv, NEW s \in Sessions, NEW new,
         session' = [session EXCEPT ![s] = new], SessionOK(s)',
         UNCHANGED <<schema, version, run, troubles>>, StoreInv', CreateInv'
  PROVE  SchemaInv'
<1>1. \A b \in Sessions \ {s} : session'[b] = session[b]
  BY DEF SchemaInv, ShapeInv
<1>2. ShapeInv'
  BY <1>1 DEF SchemaInv, ShapeInv, SessionOK
<1>3. RunInv'
  BY DEF SchemaInv, RunInv, OnWay, TookWhatItLocked
<1>4. LockInv' /\ SessionInv'
  BY <1>1 DEF SchemaInv, LockInv, SessionInv, SessionOK
<1>5. QED
  BY <1>2, <1>3, <1>4 DEF SchemaInv

LEMMA SessionFacts ==
  ASSUME SchemaInv, NEW s \in Sessions
  PROVE  SessionOK(s)
BY DEF SchemaInv, ShapeInv, SessionInv, LockInv, SessionOK

LEMMA NoSessionFacts ==
  /\ NoSession \in SessionType
  /\ NoSession.op = "none" /\ NoSession.todo = <<>> /\ NoSession.holds = {}
BY DEF NoSession, Todo, Kinds, SessionType

\* A session that is not a POST leaves the files of POSTs alone, as long as it
\* brings no row.
LEMMA NoNewCreate ==
  ASSUME SchemaInv, NEW s \in Sessions, NEW new,
         session' = [session EXCEPT ![s] = new],
         new.op # "create" \/ (new.op = session[s].op /\ new.file = session[s].file),
         \A f \in Files : rows[f] = "none" => rows'[f] = "none"
  PROVE  CreateInv'
<1>1. \A b \in Sessions : session'[b] = IF b = s THEN new ELSE session[b]
  BY DEF SchemaInv, ShapeInv
<1>2. \A b \in Sessions : session'[b].op = "create" =>
         session[b].op = "create" /\ session'[b].file = session[b].file
  BY <1>1
<1>3. \A b \in Sessions : session[b].op = "create" =>
         session[b].file \in Files /\ rows[session[b].file] = "none"
  BY DEF SchemaInv, SessionInv, CreateInv, Writers
<1>4. QED
  BY <1>2, <1>3 DEF SchemaInv, CreateInv

\* A session begins with its tables still to touch; a POST, with a file that no
\* other session has.
LEMMA OpensStep ==
  ASSUME SchemaInv, NEW s \in Sessions, Opens(s)
  PROVE  SchemaInv'
<1>1. session[s] = NoSession /\ UNCHANGED <<schema, version, rows, alerts, run, troubles>>
  BY DEF Opens
<1>2. PICK op \in DOMAIN Visits, f \in Files \cup {None} :
        /\ op \in Writers => f \in Files
        /\ op = "create" => rows[f] = "none" /\ \A b \in Sessions : session[b].file # f
        /\ session' = [session EXCEPT ![s] =
                         [op |-> op, todo |-> Visits[op], holds |-> {}, file |-> f]]
  BY DEF Opens
<1> DEFINE new == [op |-> op, todo |-> Visits[op], holds |-> {}, file |-> f]
<1>3. /\ op \in Kinds /\ Visits[op] \in Todo
      /\ op \in Writers => Visits[op] \in {<<"files">>, <<"files", "alerts">>}
  BY DEF Visits, Kinds, Todo, Writers
<1>4. \A b \in Sessions : session'[b] = IF b = s THEN new ELSE session[b]
  BY <1>2 DEF SchemaInv, ShapeInv
<1>5. SessionOK(s)'
  BY <1>2, <1>3, <1>4 DEF SessionOK, SessionType
<1>6. StoreInv'
  BY <1>1 DEF SchemaInv, StoreInv
<1>7. CreateInv'
  BY <1>1, <1>2, <1>4 DEF SchemaInv, CreateInv
<1>8. QED
  BY <1>1, <1>2, <1>5, <1>6, <1>7, OneSession

\* A statement takes its table, or raises and ends the session.
LEMMA TouchesStep ==
  ASSUME SchemaInv, NEW s \in Sessions, Touches(s)
  PROVE  SchemaInv'
<1> DEFINE old == session[s]
           table == Head(old.todo)
           new == session'[s]
<1>1. /\ old.todo # <<>> /\ table \notin run.locked
      /\ UNCHANGED <<schema, version, rows, alerts, run, troubles>>
  BY DEF Touches
<1>2. SessionOK(s) /\ session \in [Sessions -> SessionType]
  BY SessionFacts DEF SchemaInv, ShapeInv
<1>3. /\ session' = [session EXCEPT ![s] = new]
      /\ Serves(table) /\ Finds(s) => new = [old EXCEPT !.todo = Tail(@), !.holds = @ \cup {table}]
      /\ ~(Serves(table) /\ Finds(s)) => new = NoSession
  BY <1>2 DEF Touches
<1> HIDE DEF new
<1>4. SessionOK(s)' /\ (new.op # "create" \/ (new.op = old.op /\ new.file = old.file))
  <2>1. CASE ~(Serves(table) /\ Finds(s))
    BY <1>1, <1>3, <2>1, NoSessionFacts DEF SessionOK, new, Writers
  <2>2. CASE Serves(table) /\ Finds(s)
    <3>1. /\ new.todo = Tail(old.todo) /\ new.holds = old.holds \cup {table}
          /\ new.op = old.op /\ new.file = old.file
      BY <1>2, <1>3, <2>2 DEF SessionOK, SessionType
    <3>2. table \in DOMAIN schema /\ (table = "files" => version = 2)
      BY <2>2, StateFacts DEF Serves
    <3>3. table \in Names /\ Tail(old.todo) \in Todo
      BY <1>1, <1>2, TodoFacts DEF SessionOK, SessionType, Todo, Names
    <3>4. new \in SessionType
      <4>1. old \in SessionType
        BY <1>2 DEF SessionOK
      <4>2. old.holds \cup {table} \in SUBSET Names
        BY <3>3, <4>1 DEF SessionType
      <4>3. new = [old EXCEPT !.todo = Tail(old.todo), !.holds = old.holds \cup {table}]
        BY <1>3, <2>2
      <4> HIDE DEF old, table
      <4>4. QED
        BY <3>3, <4>1, <4>2, <4>3 DEF SessionType
    <3>5. CASE table = "files"
      <4>1. old.holds = {} /\ Tail(old.todo) \in {<<>>, <<"alerts">>}
        BY <1>1, <1>2, <3>5, TodoFacts DEF SessionOK, SessionType
      <4>2. QED
        BY <1>1, <1>2, <1>3, <3>1, <3>2, <3>4, <3>5, <4>1 DEF SessionOK, new
    <3>6. CASE table = "alerts"
      <4>1. /\ Tail(old.todo) = <<>>
            /\ old.todo \notin {<<"files">>, <<"files", "alerts">>}
        <5>1. old.todo # <<"files">> /\ Tail(old.todo) = <<>>
          BY <1>1, <1>2, <3>6, TodoFacts DEF SessionOK, SessionType
        <5>2. old.todo # <<"files", "alerts">>
          BY <3>6
        <5>3. QED
          BY <5>1, <5>2
      <4>2. QED
        BY <1>1, <1>2, <1>3, <3>1, <3>2, <3>4, <3>6, <4>1 DEF SessionOK, new
    <3>7. QED
      BY <3>1, <3>3, <3>5, <3>6 DEF Names
  <2>3. QED
    BY <2>1, <2>2
<1>5. StoreInv'
  BY <1>1 DEF SchemaInv, StoreInv
<1>6. CreateInv'
  BY <1>1, <1>3, <1>4, NoNewCreate
<1>7. QED
  BY <1>1, <1>3, <1>4, <1>5, <1>6, OneSession

\* Whoever ends and writes a row holds files, and so is of head.
LEMMA WritesAtHead ==
  ASSUME SchemaInv, NEW s \in Sessions, session[s].todo = <<>>, session[s].op \in Writers
  PROVE  session[s].file \in Files /\ version = 2
BY TodoFacts DEF SchemaInv, SessionInv

\* A session ends in one of four ways.
LEMMA EndsCases ==
  ASSUME SchemaInv, NEW s \in Sessions, Ends(s)
  PROVE  LET f == session[s].file IN
         \/ /\ session[s].op = "create" /\ f \in Files /\ version = 2
            /\ rows' = [rows EXCEPT ![f] = "hashed"] /\ alerts' = alerts
         \/ /\ session[s].op = "delete" /\ f \in Files /\ version = 2 /\ f \notin alerts
            /\ rows' = [rows EXCEPT ![f] = "none"] /\ alerts' = alerts
         \/ /\ f \in Files /\ rows[f] # "none"
            /\ alerts' = alerts \cup {f} /\ rows' = rows
         \/ rows' = rows /\ alerts' = alerts
BY WritesAtHead DEF Ends, Inserted, Deleted, Alerted, Writers

LEMMA EndsStep ==
  ASSUME SchemaInv, NEW s \in Sessions, Ends(s)
  PROVE  SchemaInv'
<1> DEFINE f == session[s].file
<1>1. /\ session[s].todo = <<>> /\ session' = [session EXCEPT ![s] = NoSession]
      /\ UNCHANGED <<schema, version, run, troubles>>
  BY DEF Ends, Closes
<1>2. SessionOK(s)'
  <2>1. session'[s] = NoSession
    BY <1>1 DEF SchemaInv, ShapeInv
  <2>2. QED
    BY <2>1, NoSessionFacts DEF SessionOK, Writers
<1>3. /\ rows \in [Files -> {"none", "plain", "hashed"}]
      /\ alerts \subseteq {g \in Files : rows[g] # "none"}
      /\ \A g \in Files : rows[g] = "hashed" => version = 2
  BY DEF SchemaInv, StoreInv
<1>4. StoreInv'
  BY <1>1, <1>3, EndsCases DEF StoreInv
<1>5. CreateInv'
  \* Of the other POSTs none has the file that gets its row.
  <2>1. CASE session[s].op = "create" /\ f \in Files /\ rows' = [rows EXCEPT ![f] = "hashed"]
    <3>1. \A b \in Sessions : session'[b] = IF b = s THEN NoSession ELSE session[b]
      BY <1>1 DEF SchemaInv, ShapeInv
    <3>2. \A b \in Sessions : session[b].op = "create" => session[b].file \in Files
      BY DEF SchemaInv, SessionInv, Writers
    <3>3. QED
      BY <1>3, <2>1, <3>1, <3>2, NoSessionFacts DEF SchemaInv, CreateInv
  <2>2. CASE \A g \in Files : rows[g] = "none" => rows'[g] = "none"
    BY <1>1, <2>2, NoSessionFacts, NoNewCreate
  <2>3. QED
    BY <1>3, <2>1, <2>2, EndsCases
<1>6. QED
  BY <1>1, <1>2, <1>4, <1>5, OneSession

-----------------------------------------------------------------------------
(* Theorems.                                                               *)

\* Every step keeps SchemaInv.
LEMMA SchemaStep == SchemaInv /\ [Next]_vars => SchemaInv'
<1> SUFFICES ASSUME SchemaInv, [Next]_vars PROVE SchemaInv'
  OBVIOUS
<1> USE TroublesAssumption
<1>1. CASE Upgrade
  <2>1. /\ version \in {0, 1} /\ Begin(Upwards(version), 2) /\ troubles' \in 0..MaxTroubles
    BY <1>1, StateFacts, LatestIsTwo DEF Upgrade
  <2>2. Upwards(version) = UpFrom(PlaceOf(version))
    BY <2>1, PlansOfRevisions DEF PlaceOf
  <2>3. QED
    BY <2>1, <2>2, RunBegins
<1>2. CASE Downgrade
  <2>1. PICK goal \in 0..(version - 1) : Begin(Downwards(version, goal), goal)
    BY <1>2 DEF Downgrade
  <2>2. troubles' \in 0..MaxTroubles
    BY <1>2, StateFacts DEF Downgrade
  <2>3. \/ goal = 0 /\ version > 0 /\ Downwards(version, goal) = DownFrom(PlaceOf(version))
        \/ goal = 1 /\ version = 2 /\ Downwards(version, goal) = DownToFirst(PlaceOf(version))
    BY <2>1, StateFacts, PlansOfRevisions DEF PlaceOf
  <2>4. goal \in 0..2
    BY <2>1, StateFacts
  <2>5. QED
    BY <2>1, <2>2, <2>3, <2>4, RunBegins
<1>3. CASE Asks \/ Locks
  BY <1>3, LockSteps
<1>4. CASE Performs
  <2>1. CASE Possible(run.tables, Head(run.plan))
    BY <1>4, <2>1, KeepsStep DEF Performs
  <2>2. CASE ~Possible(run.tables, Head(run.plan))
    BY <1>4, <2>2, RunEnds, StateFacts DEF Performs
  <2>3. QED
    BY <2>1, <2>2
<1>5. CASE Commits
  BY <1>5, CommitsStep
<1>6. CASE Interrupted
  BY <1>6, RunEnds, StateFacts DEF Interrupted
<1>7. CASE \E s \in Sessions : Opens(s) \/ Touches(s) \/ Ends(s)
  BY <1>7, OpensStep, TouchesStep, EndsStep
<1>8. CASE UNCHANGED vars
  BY <1>8 DEF vars, SchemaInv, ShapeInv, RunInv, OnWay, TookWhatItLocked, LockInv,
              SessionInv, StoreInv, CreateInv
<1>9. QED
  BY <1>1, <1>2, <1>3, <1>4, <1>5, <1>6, <1>7, <1>8 DEF Next

\* SchemaInv holds of every behaviour.
THEOREM SchemaInductive == Spec => []SchemaInv
BY SchemaInit, SchemaStep, PTL DEF Spec

\* Tables, rows, the run and the sessions keep their types, a digest is stored
\* only where there is a column for it, also while a migration takes the column
\* away, and an alert only for a file that has a row.
THEOREM SchemaTypes == Spec => []SchemaTypeOK
<1>1. SchemaInv => SchemaTypeOK
  <2> SUFFICES ASSUME SchemaInv PROVE SchemaTypeOK
    OBVIOUS
  <2>1. DOMAIN Models = Names
    BY Declarations DEF Names
  <2>2. DOMAIN schema \in {{}, Names} /\ version \in 0..2
    BY StateFacts
  <2>3. (\E f \in Files : rows[f] = "hashed") => "sha256" \in DOMAIN schema.files.columns
    <3>1. version = 2 => schema = Models
      BY StateFacts, TablesOfRevisions
    <3>2. QED
      BY <3>1, Declarations DEF SchemaInv, StoreInv
  <2>4. run.goal \in (-1)..2 /\ run.waits \in {"none"} \cup Names
    BY StateFacts, NoRunFacts DEF SchemaInv, RunInv, LockInv, OnWay
  <2>5. run.locked \subseteq Names /\ troubles \in 0..MaxTroubles
    BY StateFacts
  <2>6. \A s \in Sessions : session[s].holds \subseteq Names /\ session[s].file \in Files \cup {None}
    BY SessionFacts DEF SessionOK, SessionType
  <2>7. /\ rows \in [Files -> {"none", "plain", "hashed"}]
        /\ alerts \subseteq {f \in Files : rows[f] # "none"}
    BY DEF SchemaInv, StoreInv
  <2>8. QED
    BY <2>1, <2>2, <2>3, <2>4, <2>5, <2>6, <2>7, LatestIsTwo DEF SchemaTypeOK
<1>2. QED
  BY <1>1, SchemaInductive, PTL

\* Whatever was interrupted, alembic_version tells the tables that are there,
\* and at head they are those of the models.
THEOREM HeadIsAlwaysTheModel == Spec => []HeadIsTheModel
<1>1. SchemaInv => HeadIsTheModel
  <2> SUFFICES ASSUME SchemaInv PROVE HeadIsTheModel
    OBVIOUS
  <2>1. /\ version = 0 => DOMAIN schema = {}
        /\ version = 2 => schema = Models
    BY StateFacts, TablesOfRevisions
  <2>2. QED
    BY <2>1, LatestIsTwo DEF HeadIsTheModel
<1>2. QED
  BY <1>1, SchemaInductive, PTL

\* Alembic and the sessions never wait for each other in a circle: from head
\* down files are locked first, and below head no session has files.
THEOREM NeverACircle == Spec => []NoCircle
<1>1. SchemaInv => NoCircle
  <2> SUFFICES ASSUME SchemaInv, NEW s \in Sessions,
                      run.waits \in session[s].holds, session[s].todo # <<>>
               PROVE  Head(session[s].todo) \notin run.locked
    BY DEF NoCircle
  <2>1. session[s].holds = {"files"} /\ session[s].todo = <<"alerts">> /\ version = 2
    BY DEF SchemaInv, SessionInv
  <2>2. run.waits = "files" /\ "files" \notin run.locked
    BY <2>1 DEF SchemaInv, LockInv
  <2>3. QED
    BY <2>1, <2>2 DEF SchemaInv, LockInv
<1>2. QED
  BY <1>1, SchemaInductive, PTL

\* A commit of alembic takes a digest only down from head, and a row or an alert
\* only down to the beginning.
LEMMA CommitsLose ==
  ASSUME SchemaInv, Commits
  PROVE  /\ \A f \in Files : rows'[f] # rows[f] =>
              \/ rows'[f] = "plain" /\ version = 2 /\ version' = 1
              \/ rows'[f] = "none" /\ version > 0 /\ version' = 0
         /\ alerts \subseteq alerts' \/ (version > 0 /\ version' = 0)
<1>1. /\ run.goal # -1 /\ run.plan = <<>> /\ version' = run.goal
      /\ \A f \in Files : rows'[f] = Without(run.loss, rows[f])
      /\ alerts' = AlertsWithout(run.loss)
  BY DEF Commits, Running
<1>2. PICK p \in 0..3 : OnWay(p) /\ TookWhatItLocked(p)
  BY <1>1, NoRunFacts DEF SchemaInv, RunInv
<1>3. \A f \in Files : /\ rows[f] \in {"none", "plain", "hashed"}
                      /\ rows[f] = "hashed" => version = 2
  BY DEF SchemaInv, StoreInv
<1>4. CASE run.goal = 2
  BY <1>1, <1>2, <1>3, <1>4 DEF TookWhatItLocked, Without, AlertsWithout
<1>5. CASE run.goal = 1
  <2>1. version = 2 /\ version' = 1
    BY <1>1, <1>2, <1>5 DEF OnWay
  <2>2. "rows" \notin run.loss /\ "alerts" \notin run.loss
    BY <1>2, <1>5 DEF TookWhatItLocked
  <2>3. \A f \in Files : rows'[f] \in {rows[f], "plain"}
    BY <1>1, <1>3, <2>2 DEF Without
  <2>4. alerts' = alerts
    BY <1>1, <2>2 DEF AlertsWithout
  <2>5. QED
    BY <2>1, <2>3, <2>4
<1>6. CASE run.goal = 0
  <2>1. p = 0 /\ version > 0
    BY <1>1, <1>2, <1>6, PlanEnds DEF OnWay
  <2>2. QED
    BY <1>1, <1>2, <1>6, <2>1 DEF TookWhatItLocked, Without
<1>7. QED
  BY <1>2, <1>4, <1>5, <1>6 DEF OnWay

\* The end of a session changes at most the row of its own file, for a POST that
\* brings it and a DELETE that takes it, and loses no alert.
LEMMA EndsLose ==
  ASSUME SchemaInv, NEW s \in Sessions, Ends(s), NEW f \in Files
  PROVE  /\ rows'[f] # rows[f] =>
              \/ rows[f] = "none" /\ rows'[f] = "hashed" /\ EndsNow("create", f)
              \/ rows'[f] = "none" /\ f \notin alerts /\ EndsNow("delete", f)
         /\ alerts \subseteq alerts'
<1>1. session[s].todo = <<>> /\ session'[s] = NoSession
  BY DEF Ends, Closes, SchemaInv, ShapeInv
<1>2. session[s].op = "create" => rows[session[s].file] = "none"
  BY DEF SchemaInv, CreateInv
<1>3. rows \in [Files -> {"none", "plain", "hashed"}]
  BY DEF SchemaInv, StoreInv
<1>4. \A op : version = 2 /\ session[s].op = op /\ session[s].file = f => EndsNow(op, f)
  BY <1>1, LatestIsTwo DEF EndsNow
<1>5. QED
  BY <1>2, <1>3, <1>4, EndsCases

\* Rows, digests and alerts go only with a downgrade that says so, and rows with
\* a DELETE of head for a file without alerts; an upgrade, or a run that is
\* interrupted, takes nothing with it.
THEOREM OnlyDowngradesLose == Spec => LostByDowngradeOnly
<1> DEFINE Kept ==
      /\ \A f \in Files : rows'[f] # rows[f] =>
          \/ rows[f] = "none" /\ rows'[f] = "hashed" /\ EndsNow("create", f)
          \/ rows'[f] = "none" /\ f \notin alerts /\ EndsNow("delete", f)
          \/ rows'[f] = "plain" /\ version = Latest /\ version' = Latest - 1
          \/ rows'[f] = "none" /\ version > 0 /\ version' = 0
      /\ alerts \subseteq alerts' \/ (version > 0 /\ version' = 0)
<1>1. SchemaInv /\ [Next]_vars => Kept
  <2> SUFFICES ASSUME SchemaInv, [Next]_vars PROVE Kept
    OBVIOUS
  <2>1. CASE Commits
    BY <2>1, CommitsLose, LatestIsTwo
  <2>2. CASE \E s \in Sessions : Ends(s)
    <3>1. PICK s \in Sessions : Ends(s)
      BY <2>2
    <3>2. alerts \subseteq alerts'
      BY <3>1, EndsCases
    <3>3. QED
      BY <3>1, <3>2, EndsLose
  <2>3. CASE \/ Upgrade \/ Downgrade \/ Asks \/ Locks \/ Performs \/ Interrupted
             \/ \E s \in Sessions : Opens(s) \/ Touches(s)
             \/ UNCHANGED vars
    <3>1. rows' = rows /\ alerts' = alerts
      BY <2>3 DEF Upgrade, Downgrade, Begin, Asks, Locks, Performs, Keeps, Interrupted, Opens,
                  Touches, vars
    <3>2. QED
      BY <3>1
  <2>4. QED
    BY <2>1, <2>2, <2>3 DEF Next
<1>2. QED
  BY <1>1, SchemaInductive, PTL DEF Spec, LostByDowngradeOnly
=============================================================================

-------------------------- MODULE SchemaMigrations --------------------------
(***************************************************************************)
(* Alembic at work on the database of a running system: the two revisions, *)
(* the one transaction env.py runs them in, the table locks it takes, and  *)
(* the sessions of the API and the worker, whose models name every column. *)
(*                                                                         *)
(* A session locks a table when it first touches it and until it ends; a   *)
(* revision that changes a table wants it for itself.  PostgreSQL serves   *)
(* locks in order: whoever comes after a waiting revision waits behind it. *)
(***************************************************************************)
EXTENDS Integers, Sequences

CONSTANTS
  Sessions,     \* slots for sessions of the API and the worker
  Files,        \* the files there can be
  MaxTroubles,  \* bound on interrupted runs of alembic and on downgrades
  None          \* no file

ASSUME TroublesAssumption == MaxTroubles \in Nat
ASSUME NoneAssumption == None \notin Files

VARIABLES
  schema,   \* table -> its columns and constraints, as committed
  version,  \* how many revisions alembic_version says are applied
  rows,     \* file -> no row, or one with or without a digest
  alerts,   \* the files that have an alert
  run,      \* the run of alembic under way
  session,  \* session -> what it is for, the tables to touch and those it holds
  troubles  \* interruptions and downgrades so far

vars == <<schema, version, rows, alerts, run, session, troubles>>

-----------------------------------------------------------------------------
(* Tables.                                                                 *)

Column(type, size, null, default) ==
  [type |-> type, size |-> size, null |-> null, default |-> default]
Str(size, null) == Column("string", size, null, "")
Of(type, null) == Column(type, 0, null, "")
Timestamp == Column("datetime", 0, FALSE, "now()")

\* What the first revision creates.
Created ==
  [files |->
     [columns |-> [id |-> Str(36, FALSE), title |-> Str(255, FALSE),
                   original_name |-> Str(255, FALSE), stored_name |-> Str(255, FALSE),
                   mime_type |-> Str(255, FALSE), size |-> Of("integer", FALSE),
                   processing_status |-> Str(50, FALSE), scan_status |-> Str(50, TRUE),
                   scan_details |-> Str(500, TRUE), metadata_json |-> Of("json", TRUE),
                   requires_attention |-> Of("boolean", FALSE),
                   created_at |-> Timestamp, updated_at |-> Timestamp],
      key |-> "id", unique |-> {"stored_name"}, references |-> {}],
   alerts |->
     [columns |-> [id |-> Of("integer", FALSE), file_id |-> Str(36, FALSE),
                   level |-> Str(50, FALSE), message |-> Str(500, FALSE),
                   created_at |-> Timestamp],
      key |-> "id", unique |-> {}, references |-> {"files"}]]

\* What the models declare.
Models ==
  LET Name == Str(255, FALSE)
      Status(null) == Str(50, null)
  IN
  [files |->
     [columns |-> [id |-> Str(36, FALSE), title |-> Name, original_name |-> Name,
                   stored_name |-> Name, mime_type |-> Name,
                   size |-> Of("integer", FALSE), sha256 |-> Str(64, TRUE),
                   processing_status |-> Status(FALSE), scan_status |-> Status(TRUE),
                   scan_details |-> Str(500, TRUE), metadata_json |-> Of("json", TRUE),
                   requires_attention |-> Of("boolean", FALSE),
                   created_at |-> Timestamp, updated_at |-> Timestamp],
      key |-> "id", unique |-> {"stored_name"}, references |-> {}],
   alerts |->
     [columns |-> [id |-> Of("integer", FALSE), file_id |-> Str(36, FALSE),
                   level |-> Status(FALSE), message |-> Str(500, FALSE),
                   created_at |-> Timestamp],
      key |-> "id", unique |-> {}, references |-> {"files"}]]

\* Mutant of Sha256: the column is required.
Sha256Required == Str(64, FALSE)

\* The column of the second revision.
Sha256 == Str(64, TRUE)

-----------------------------------------------------------------------------
(* Revisions.                                                              *)

Step(op, table) == [op |-> op, table |-> table]

Revisions ==
  << [up   |-> <<Step("create", "files"), Step("create", "alerts")>>,
      down |-> <<Step("drop", "alerts"), Step("drop", "files")>>],
     [up   |-> <<Step("add sha256", "files")>>,
      down |-> <<Step("drop sha256", "files")>>] >>

Latest == Len(Revisions)

\* The steps of all revisions above or down to the one given.
Upwards(from) ==
  IF from = 0 THEN Revisions[1].up \o Revisions[2].up ELSE Revisions[from + 1].up
Downwards(from, goal) ==
  IF from - goal = 2 THEN Revisions[2].down \o Revisions[1].down ELSE Revisions[from].down

\* PostgreSQL refuses a reference to no table, to drop a table others refer to,
\* and a required column without a default where there are rows.
Possible(tables, step) ==
  CASE step.op = "create" -> Created[step.table].references \subseteq DOMAIN tables
    [] step.op = "drop" ->
         \A t \in DOMAIN tables \ {step.table} : step.table \notin tables[t].references
    [] step.op = "add sha256" ->
         Sha256.null \/ Sha256.default # "" \/ \A f \in Files : rows[f] = "none"
    [] OTHER -> TRUE

\* The tables after a step.
Performed(tables, step) ==
  CASE step.op = "create" ->
         [t \in DOMAIN tables \cup {step.table} |->
            IF t = step.table THEN Created[t] ELSE tables[t]]
    [] step.op = "drop" -> [t \in DOMAIN tables \ {step.table} |-> tables[t]]
    [] step.op = "add sha256" ->
         [tables EXCEPT !.files.columns =
            [c \in DOMAIN @ \cup {"sha256"} |-> IF c = "sha256" THEN Sha256 ELSE @[c]]]
    [] step.op = "drop sha256" ->
         [tables EXCEPT !.files.columns = [c \in DOMAIN @ \ {"sha256"} |-> @[c]]]

\* What the steps so far, and one more, take away.
Lost(loss, step) ==
  loss \cup IF step.op = "drop sha256" THEN {"digests"}
           ELSE IF step = Step("drop", "alerts") THEN {"alerts"}
           ELSE IF step = Step("drop", "files") THEN {"rows"} ELSE {}

\* What a loss leaves of a row, and of the alerts.
Without(loss, state) ==
  IF "rows" \in loss \/ state = "none" THEN "none"
  ELSE IF "digests" \in loss THEN "plain" ELSE state

AlertsWithout(loss) == IF "alerts" \in loss THEN {} ELSE alerts

-----------------------------------------------------------------------------
(* Runs of alembic.                                                        *)

\* The steps to go, the tables and the losses as the run has left them so far,
\* the table it waits for and those it has.
NoRun == [plan |-> <<>>, goal |-> -1, tables |-> <<>>, loss |-> {},
          waits |-> "none", locked |-> {}]
Running == run.goal # -1

Begin(plan, goal) ==
  /\ ~Running
  /\ run' = [NoRun EXCEPT !.plan = plan, !.goal = goal, !.tables = schema]
  /\ UNCHANGED <<schema, version, rows, alerts, session>>

\* alembic upgrade head
Upgrade ==
  /\ version < Latest
  /\ Begin(Upwards(version), Latest)
  /\ UNCHANGED troubles

\* alembic downgrade, by any number of revisions
Downgrade ==
  /\ troubles < MaxTroubles /\ troubles' = troubles + 1
  /\ \E goal \in 0..(version - 1) : Begin(Downwards(version, goal), goal)

\* A step asks for its table unless the run has it already or has made it.
Asks ==
  /\ run.plan # <<>> /\ run.waits = "none"
  /\ Head(run.plan).table \in DOMAIN schema \ run.locked
  /\ run' = [run EXCEPT !.waits = Head(run.plan).table]
  /\ UNCHANGED <<schema, version, rows, alerts, session, troubles>>

Locks ==
  /\ run.waits # "none"
  /\ \A s \in Sessions : run.waits \notin session[s].holds
  /\ run' = [run EXCEPT !.waits = "none", !.locked = @ \cup {run.waits}]
  /\ UNCHANGED <<schema, version, rows, alerts, session, troubles>>

\* Mutant of Keeps: a transaction for every step.
CommitsEach(step) ==
  /\ schema' = Performed(run.tables, step)
  /\ rows' = [f \in Files |-> Without(Lost({}, step), rows[f])]
  /\ alerts' = AlertsWithout(Lost({}, step))
  /\ run' = [run EXCEPT !.plan = Tail(@), !.tables = schema']

\* context.begin_transaction(): nothing is seen of a step before the commit.
Keeps(step) ==
  /\ run' = [run EXCEPT !.plan = Tail(@), !.tables = Performed(@, step),
                        !.loss = Lost(@, step)]
  /\ UNCHANGED <<schema, rows, alerts>>

Performs ==
  /\ run.plan # <<>> /\ Head(run.plan).table \notin DOMAIN schema \ run.locked
  /\ IF Possible(run.tables, Head(run.plan))
       THEN Keeps(Head(run.plan))
       ELSE run' = NoRun /\ UNCHANGED <<schema, rows, alerts>>
  /\ UNCHANGED <<version, session, troubles>>

Commits ==
  /\ Running /\ run.plan = <<>>
  /\ schema' = run.tables /\ version' = run.goal
  /\ rows' = [f \in Files |-> Without(run.loss, rows[f])]
  /\ alerts' = AlertsWithout(run.loss)
  /\ run' = NoRun
  /\ UNCHANGED <<session, troubles>>

\* alembic dies or loses its connection; PostgreSQL rolls back.
Interrupted ==
  /\ Running /\ troubles < MaxTroubles
  /\ troubles' = troubles + 1
  /\ run' = NoRun
  /\ UNCHANGED <<schema, version, rows, alerts, session>>

-----------------------------------------------------------------------------
(* Sessions.                                                               *)

NoSession == [op |-> "none", todo |-> <<>>, holds |-> {}, file |-> None]

\* Mutant of Visits: the alert is written before its file is read.
VisitsAlertFirst ==
  [files |-> <<"files">>, alerts |-> <<"alerts">>, download |-> <<"files">>,
   create |-> <<"files">>, delete |-> <<"files", "alerts">>,
   task |-> <<"alerts", "files">>]

\* The tables each kind of session touches, in order: requests that read files
\* or alerts, a download, a POST, a DELETE, whose commit has PostgreSQL look for
\* alerts of the file, and a task.
Visits ==
  [files |-> <<"files">>, alerts |-> <<"alerts">>, download |-> <<"files">>,
   create |-> <<"files">>, delete |-> <<"files", "alerts">>,
   task |-> <<"files", "alerts">>]

\* The sessions that write rows, each that of its file.
Writers == {"create", "delete", "task"}

\* A POST makes a file of its own, which nobody has heard of.
Opens(s) ==
  /\ session[s] = NoSession
  /\ \E op \in DOMAIN Visits :
       \E f \in IF op \in Writers THEN Files ELSE {None} :
         /\ op = "create" => rows[f] = "none" /\ \A b \in Sessions : session[b].file # f
         /\ session' = [session EXCEPT ![s] =
                          [op |-> op, todo |-> Visits[op], holds |-> {}, file |-> f]]
  /\ UNCHANGED <<schema, version, rows, alerts, run, troubles>>

\* Mutant of Serves: statements that name only the columns there are.
ServesAny(table) == table \in DOMAIN schema

\* Every statement of a model names all its columns.
Serves(table) ==
  /\ table \in DOMAIN schema
  /\ DOMAIN Models[table].columns \subseteq DOMAIN schema[table].columns

\* A DELETE and a task have nothing to do where there is no row.
Finds(s) == session[s].op \in {"delete", "task"} => rows[session[s].file] # "none"

\* A table or column that is missing raises and ends the session, and so does a
\* row that is.
Touches(s) ==
  /\ session[s].todo # <<>>
  /\ LET table == Head(session[s].todo) IN
     /\ table \notin run.locked \cup {run.waits}
     /\ session' = IF Serves(table) /\ Finds(s)
                     THEN [session EXCEPT ![s].todo = Tail(@), ![s].holds = @ \cup {table}]
                     ELSE [session EXCEPT ![s] = NoSession]
  /\ UNCHANGED <<schema, version, rows, alerts, run, troubles>>

\* A download lasts as long as its client takes to read it.
Streaming(s) == session[s].op = "download" /\ session[s].todo = <<>>

\* Mutant of Closes: the session stays open after its request.
StaysOpen(s) == UNCHANGED session

Closes(s) == session' = [session EXCEPT ![s] = NoSession]

\* The commit of a POST brings its row, with a digest.
Inserted(op, f) == op = "create" /\ rows' = [rows EXCEPT ![f] = "hashed"] /\ UNCHANGED alerts

\* That of a DELETE takes the row away, unless an alert refers to it.
Deleted(op, f) ==
  /\ op = "delete" /\ f \notin alerts
  /\ rows' = [rows EXCEPT ![f] = "none"]
  /\ UNCHANGED alerts

\* That of a task brings the alert of a row that is still there.
Alerted(op, f) ==
  /\ op = "task" /\ rows[f] # "none"
  /\ alerts' = alerts \cup {f}
  /\ UNCHANGED rows

\* A session ends with its commit, or with a rollback: there was nothing to
\* write, PostgreSQL refused it, or the request or task failed.
Ends(s) ==
  /\ session[s] # NoSession /\ session[s].todo = <<>>
  /\ LET op == session[s].op
         f == session[s].file
     IN  Inserted(op, f) \/ Deleted(op, f) \/ Alerted(op, f) \/ UNCHANGED <<rows, alerts>>
  /\ Closes(s)
  /\ UNCHANGED <<schema, version, run, troubles>>

-----------------------------------------------------------------------------
\* An empty database, or one in use since before the second revision, whose
\* rows have no digest and may have an alert.
Init ==
  /\ \/ version = 0 /\ schema = <<>> /\ rows = [f \in Files |-> "none"]
     \/ version = 1 /\ schema = Created /\ rows \in [Files -> {"none", "plain"}]
  /\ alerts \in SUBSET {f \in Files : rows[f] # "none"}
  /\ run = NoRun
  /\ session = [s \in Sessions |-> NoSession]
  /\ troubles = 0

Next ==
  \/ Upgrade \/ Downgrade \/ Asks \/ Locks \/ Performs \/ Commits \/ Interrupted
  \/ \E s \in Sessions : Opens(s) \/ Touches(s) \/ Ends(s)

\* A run goes on and statements are executed as soon as their locks allow; a
\* session ends with its request or task, a download when its client likes.
Fairness ==
  /\ WF_vars(Asks) /\ WF_vars(Locks) /\ WF_vars(Performs) /\ WF_vars(Commits)
  /\ \A s \in Sessions : WF_vars(Touches(s)) /\ WF_vars(~Streaming(s) /\ Ends(s))

Spec == Init /\ [][Next]_vars /\ Fairness

-----------------------------------------------------------------------------
(* Properties.                                                             *)

\* Every variable has its type, a digest is stored only where there is a column
\* for it, and an alert only for a file that has a row.
SchemaTypeOK ==
  /\ DOMAIN schema \in {{}, DOMAIN Models} /\ version \in 0..Latest
  /\ rows \in [Files -> {"none", "plain", "hashed"}]
  /\ (\E f \in Files : rows[f] = "hashed") => "sha256" \in DOMAIN schema.files.columns
  /\ alerts \subseteq {f \in Files : rows[f] # "none"}
  /\ run.goal \in (-1)..Latest /\ run.waits \in {"none"} \cup DOMAIN Models
  /\ run.locked \subseteq DOMAIN Models
  /\ \A s \in Sessions : session[s].holds \subseteq DOMAIN Models
                         /\ session[s].file \in Files \cup {None}
  /\ troubles \in 0..MaxTroubles

\* Whatever was interrupted, alembic_version tells the tables that are there,
\* and those of the last revision are the ones the models declare, column by
\* column, with their sizes, defaults and constraints.
HeadIsTheModel ==
  /\ version = 0 => DOMAIN schema = {}
  /\ version = Latest => schema = Models

\* The session that ends in this step is a request of head, of its kind, for f.
EndsNow(op, f) ==
  /\ version = Latest
  /\ \E s \in Sessions : /\ session[s].op = op /\ session[s].file = f
                         /\ session[s].todo = <<>> /\ session'[s] = NoSession

\* What users stored is lost only by a downgrade that says so, or by their own
\* DELETE.  A row goes with its table, in a downgrade to the beginning, or with
\* a DELETE of head for a file without alerts; a digest goes with its column;
\* an alert, with its table.  Beyond that a row changes only when a POST of head
\* brings it.  An upgrade, interrupted or not, takes nothing away.
LostByDowngradeOnly ==
  [][/\ \A f \in Files : rows'[f] # rows[f] =>
          \/ rows[f] = "none" /\ rows'[f] = "hashed" /\ EndsNow("create", f)
          \/ rows'[f] = "none" /\ f \notin alerts /\ EndsNow("delete", f)
          \/ rows'[f] = "plain" /\ version = Latest /\ version' = Latest - 1
          \/ rows'[f] = "none" /\ version > 0 /\ version' = 0
     /\ alerts \subseteq alerts' \/ (version > 0 /\ version' = 0)]_vars

\* No circle of locks: of the sessions a run waits for, none waits for the run.
NoCircle ==
  \A s \in Sessions :
    run.waits \in session[s].holds /\ session[s].todo # <<>> =>
      Head(session[s].todo) \notin run.locked

\* A statement is executed at last, if only to fail, also one that queues
\* behind a run which waits for a session - unless that session is a download.
AnsweredUnlessDownload ==
  \A s \in Sessions :
    session[s].todo # <<>> ~> \/ session[s].todo = <<>>
                              \/ \E d \in Sessions : Streaming(d)

\* An operator who repeats the upgrade gets there in spite of interruptions,
\* requests, and rows that are older than the digest, once downloads end.
UpgradeReachesHead ==
  WF_vars(Upgrade) /\ (\A s \in Sessions : WF_vars(Ends(s)))
    => <>[](version = Latest)
=============================================================================

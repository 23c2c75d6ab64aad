---------------------------- MODULE FileExchange ----------------------------
(***************************************************************************)
(* The backend as a whole: the HTTP handlers of /files, the PostgreSQL     *)
(* tables, the blob directory, the Celery queue and the worker processes.  *)
(*                                                                         *)
(* A handler or a task is split where another actor can run: at every      *)
(* await, and at every call that leaves the process.  A commit is one      *)
(* step, because PostgreSQL makes it one: the row lock an UPDATE or DELETE *)
(* takes and the key lock an alert's foreign key takes order the two       *)
(* transactions, and the loser sees the winner's result.                   *)
(***************************************************************************)
EXTENDS FileDomain, Sequences

CONSTANTS
  Files,            \* the identifiers uuid4 can return
  Requests,         \* slots for concurrent HTTP requests of one API process
  Workers,          \* worker processes of the Celery pool
  Faults,           \* what may go wrong in this run, a subset of FaultKinds
  MaxRedeliveries,  \* bound on duplicated deliveries
  None              \* no row, no object, no file

\* storage: save_stream raises; unlink: unlinking a blob raises; db: a commit
\* raises; broker: delay raises, or Redis loses a message; extract: reading a
\* blob or parsing it raises; api, worker: that process dies.
FaultKinds == {"storage", "unlink", "db", "broker", "extract", "api", "worker"}

ASSUME FaultsAssumption == Faults \subseteq FaultKinds
ASSUME BoundAssumption == MaxRedeliveries \in Nat
ASSUME NoneAssumption == None \notin Row /\ None \notin Files /\ None \notin Titles

VARIABLES
  row,           \* table files: id -> row or None
  alerts,        \* table alerts: id -> the alerts of that file, oldest first
  blobs,         \* the files whose blob is in the storage directory
  used,          \* the identifiers already drawn
  queue,         \* Celery queue: id -> number of undelivered messages
  redeliveries,  \* duplicated deliveries so far
  req,           \* request slot -> the handler running in it
  task,          \* worker -> the task running in it
  unlinked       \* history: the files whose blob a DELETE has unlinked

vars == <<row, alerts, blobs, used, queue, redeliveries, req, task, unlinked>>

-----------------------------------------------------------------------------
(* Requests and tasks.                                                     *)

Op == {"none", "create", "patch", "delete", "download"}
ReqPc == {"idle", "done", "discard", "insert", "refresh", "enqueue",
          "commit", "reread", "unlink", "exists", "send"}
Code == {"none", "200", "201", "204", "400", "404", "404_stored", "500"}

\* obj is the ORM object the handler goes on to use (after a 201 the one in
\* the response), title the one a PATCH asks for, code the response: "404" is
\* FileNotFound, "404_stored" is StoredFileMissing, "500" any other exception.
Request == [op : Op, pc : ReqPc, file : Files \cup {None}, obj : Row \cup {None},
            title : Titles \cup {None}, code : Code]

Handler(op, pc, f, obj, title, code) ==
  [op |-> op, pc |-> pc, file |-> f, obj |-> obj, title |-> title, code |-> code]

IdleRequest == Handler("none", "idle", None, None, None, "none")

TaskPc == {"idle", "load", "check", "extract", "commit"}

\* base is the row the task's session loaded, found what storage.exists said.
Task == [pc : TaskPc, file : Files \cup {None}, base : Row \cup {None},
         found : BOOLEAN]

IdleTask == [pc |-> "idle", file |-> None, base |-> None, found |-> FALSE]

Active(r) == req[r].pc \notin {"idle", "done"}
At(r, op, pc) == req[r].op = op /\ req[r].pc = pc
Goto(r, pc) == req' = [req EXCEPT ![r].pc = pc]
Begin(r, op, pc, f, obj, title) ==
  req' = [req EXCEPT ![r] = Handler(op, pc, f, obj, title, "none")]
Refuse(r, op, f, code) ==
  req' = [req EXCEPT ![r] = Handler(op, "done", f, None, None, code)]
Answer(r, code) == Refuse(r, req[r].op, req[r].file, code)

\* How a commit can end: a legal one takes effect, an illegal one (a violated
\* constraint, a row that is gone) raises, and a lost connection raises with
\* the effect of a legal one in place or not.
CommitEnds(legal, applied, raised) ==
  \/ applied = legal /\ raised = ~legal
  \/ "db" \in Faults /\ raised /\ (applied => legal)

-----------------------------------------------------------------------------
Init ==
  /\ row = [f \in Files |-> None]
  /\ alerts = [f \in Files |-> <<>>]
  /\ blobs = {}
  /\ used = {}
  /\ queue = [f \in Files |-> 0]
  /\ redeliveries = 0
  /\ req = [r \in Requests |-> IdleRequest]
  /\ task = [w \in Workers |-> IdleTask]
  /\ unlinked = {}

-----------------------------------------------------------------------------
(* POST /files.                                                            *)

\* Mutants of CreateNext: the task enqueued before the commit, and the
\* response serialised after the task was enqueued.
EnqueueFirst(step) ==
  CASE step = "saved" -> "enqueue"
    [] step = "enqueued" -> "insert"
    [] step = "inserted" -> "refresh"
    [] step = "refreshed" -> "done"

RefreshLast(step) ==
  CASE step = "saved" -> "insert"
    [] step = "inserted" -> "enqueue"
    [] step = "enqueued" -> "refresh"
    [] step = "refreshed" -> "done"

\* The order of the route's steps once the blob is stored.
CreateNext(step) ==
  CASE step = "saved" -> "insert"
    [] step = "inserted" -> "refresh"
    [] step = "refreshed" -> "enqueue"
    [] step = "enqueued" -> "done"

\* Go on to that step with obj in the session, or respond with it.
CreateGoto(r, step, obj) ==
  req' = [req EXCEPT ![r].pc = CreateNext(step), ![r].obj = obj,
                     ![r].code = IF CreateNext(step) = "done" THEN "201" ELSE @]

\* Draw an identifier and store the stream.  When save_stream raises, the
\* final name may or may not be left behind (see LocalStorage in the README).
CreateSave(r, f, title, upload) ==
  /\ ~Active(r) /\ f \notin used
  /\ used' = used \cup {f}
  /\ \/ /\ blobs' = blobs \cup {f}
        /\ IF IsEmpty(upload)
             THEN Begin(r, "create", "discard", f, None, None)
             ELSE Begin(r, "create", CreateNext("saved"), f,
                        NewRow(title, upload), None)
     \/ /\ "storage" \in Faults
        /\ blobs' \in {blobs, blobs \cup {f}}
        /\ Refuse(r, "create", f, "500")
  /\ UNCHANGED <<row, alerts, queue, redeliveries, task, unlinked>>

\* Mutant of CreateDiscard: the 400 without the unlink.
DiscardKeepsBlob(r) ==
  /\ At(r, "create", "discard")
  /\ Answer(r, "400")
  /\ UNCHANGED <<row, alerts, blobs, used, queue, redeliveries, task, unlinked>>

\* An empty upload is unlinked again and answered 400.
CreateDiscard(r) ==
  /\ At(r, "create", "discard")
  /\ \/ blobs' = blobs \ {req[r].file} /\ Answer(r, "400")
     \/ "unlink" \in Faults /\ blobs' = blobs /\ Answer(r, "500")
  /\ UNCHANGED <<row, alerts, used, queue, redeliveries, task, unlinked>>

\* Mutant of BlobsAfterInsert: a cleanup for every commit that raises.
CleanUpAfterError(f, raised) == IF raised THEN blobs \ {f} ELSE blobs

\* The blob is kept whatever the commit does.
BlobsAfterInsert(f, raised) == blobs

CreateInsert(r) ==
  LET f == req[r].file IN
  /\ At(r, "create", "insert")
  /\ \E applied, raised \in BOOLEAN :
       /\ CommitEnds(FitsColumns(req[r].obj), applied, raised)
       /\ row' = IF applied THEN [row EXCEPT ![f] = req[r].obj] ELSE row
       /\ blobs' = BlobsAfterInsert(f, raised)
       /\ IF raised THEN Answer(r, "500") ELSE CreateGoto(r, "inserted", req[r].obj)
  /\ UNCHANGED <<alerts, used, queue, redeliveries, task, unlinked>>

\* A statement of its own raises if the database is gone or, in refresh, if
\* the row is.
ReadRaises(found) == ~found \/ "db" \in Faults

\* Re-read the row.  An exception here comes after the commit and before the
\* task: the row stays without one.
CreateRefresh(r) ==
  LET f == req[r].file IN
  /\ At(r, "create", "refresh")
  /\ \/ row[f] # None /\ CreateGoto(r, "refreshed", row[f])
     \/ ReadRaises(row[f] # None) /\ Answer(r, "500")
  /\ UNCHANGED <<row, alerts, blobs, used, queue, redeliveries, task, unlinked>>

CreateEnqueue(r) ==
  LET f == req[r].file IN
  /\ At(r, "create", "enqueue")
  /\ \/ queue' = [queue EXCEPT ![f] = @ + 1] /\ CreateGoto(r, "enqueued", req[r].obj)
     \/ /\ "broker" \in Faults
        /\ \E sent \in {0, 1} : queue' = [queue EXCEPT ![f] = @ + sent]
        /\ Answer(r, "500")
  /\ UNCHANGED <<row, alerts, blobs, used, redeliveries, task, unlinked>>

-----------------------------------------------------------------------------
(* PATCH /files/{id}.                                                      *)

PatchGet(r, f, title) ==
  /\ ~Active(r)
  /\ IF row[f] = None THEN Refuse(r, "patch", f, "404")
                      ELSE Begin(r, "patch", "commit", f, row[f], title)
  /\ UNCHANGED <<row, alerts, blobs, used, queue, redeliveries, task, unlinked>>

\* Mutant of PatchMayCommit: a version check, which fails after any other commit.
PatchMayCommitUnchanged(f, old, new) == row[f] = old /\ FitsColumns(new)

\* Without a net change the flush writes nothing and a deleted row goes
\* unnoticed here; with one, no row to update is a StaleDataError.
PatchMayCommit(f, old, new) == new = old \/ (row[f] # None /\ FitsColumns(new))

PatchCommit(r) ==
  LET f == req[r].file
      old == req[r].obj
      new == [old EXCEPT !.title = req[r].title]
  IN
  /\ At(r, "patch", "commit")
  /\ \E applied, raised \in BOOLEAN :
       /\ CommitEnds(PatchMayCommit(f, old, new), applied, raised)
       /\ row' = IF applied /\ new # old
                   THEN [row EXCEPT ![f] = Merge(@, old, new)] ELSE row
       /\ IF raised THEN Answer(r, "500") ELSE Goto(r, "reread")
  /\ UNCHANGED <<alerts, blobs, used, queue, redeliveries, task, unlinked>>

PatchReread(r) ==
  LET f == req[r].file IN
  /\ At(r, "patch", "reread")
  /\ \/ row[f] # None /\ Answer(r, "200")
     \/ ReadRaises(row[f] # None) /\ Answer(r, "500")
  /\ UNCHANGED <<row, alerts, blobs, used, queue, redeliveries, task, unlinked>>

-----------------------------------------------------------------------------
(* DELETE /files/{id}.                                                     *)

DeleteGet(r, f) ==
  /\ ~Active(r)
  /\ IF row[f] = None THEN Refuse(r, "delete", f, "404")
                      ELSE Begin(r, "delete", "unlink", f, None, None)
  /\ UNCHANGED <<row, alerts, blobs, used, queue, redeliveries, task, unlinked>>

\* The session only marks the row as deleted; the blob goes at once.
DeleteUnlink(r) ==
  LET f == req[r].file IN
  /\ At(r, "delete", "unlink")
  /\ \/ /\ blobs' = blobs \ {f}
        /\ unlinked' = unlinked \cup {f}
        /\ Goto(r, "commit")
     \/ /\ "unlink" \in Faults
        /\ UNCHANGED <<blobs, unlinked>>
        /\ Answer(r, "500")
  /\ UNCHANGED <<row, alerts, used, queue, redeliveries, task>>

\* Mutant of DeleteAllowed: the foreign key is not enforced.
AnyDeleteAllowed(f) == TRUE

\* alerts.file_id has no ON DELETE action.
DeleteAllowed(f) == alerts[f] = <<>>

\* A row another DELETE has removed meanwhile is only a warning: 204 again.
DeleteCommit(r) ==
  LET f == req[r].file IN
  /\ At(r, "delete", "commit")
  /\ \E applied, raised \in BOOLEAN :
       /\ CommitEnds(DeleteAllowed(f), applied, raised)
       /\ row' = IF applied THEN [row EXCEPT ![f] = None] ELSE row
       /\ Answer(r, IF raised THEN "500" ELSE "204")
  /\ UNCHANGED <<alerts, blobs, used, queue, redeliveries, task, unlinked>>

-----------------------------------------------------------------------------
(* GET /files/{id}/download.                                               *)

DownloadGet(r, f) ==
  /\ ~Active(r)
  /\ IF row[f] = None THEN Refuse(r, "download", f, "404")
                      ELSE Begin(r, "download", "exists", f, None, None)
  /\ UNCHANGED <<row, alerts, blobs, used, queue, redeliveries, task, unlinked>>

DownloadExists(r) ==
  /\ At(r, "download", "exists")
  /\ IF req[r].file \in blobs THEN Goto(r, "send") ELSE Answer(r, "404_stored")
  /\ UNCHANGED <<row, alerts, blobs, used, queue, redeliveries, task, unlinked>>

\* FileResponse stats the path again when it sends and raises if it is gone.
DownloadSend(r) ==
  /\ At(r, "download", "send")
  /\ Answer(r, IF req[r].file \in blobs THEN "200" ELSE "500")
  /\ UNCHANGED <<row, alerts, blobs, used, queue, redeliveries, task, unlinked>>

-----------------------------------------------------------------------------
(* The process_file task.                                                  *)

TaskAt(w, pc) == task[w].pc = pc
TaskGoto(w, pc) == task' = [task EXCEPT ![w].pc = pc]
TaskEnds(w) == task' = [task EXCEPT ![w] = IdleTask]

\* Celery acknowledges on delivery: from here on only the worker knows.
TaskDeliver(w, f) ==
  /\ TaskAt(w, "idle") /\ queue[f] > 0
  /\ queue' = [queue EXCEPT ![f] = @ - 1]
  /\ task' = [task EXCEPT ![w].pc = "load", ![w].file = f]
  /\ UNCHANGED <<row, alerts, blobs, used, redeliveries, req, unlinked>>

TaskLoad(w) ==
  LET f == task[w].file IN
  /\ TaskAt(w, "load")
  /\ \/ row[f] # None /\ task' = [task EXCEPT ![w].pc = "check", ![w].base = row[f]]
     \/ ReadRaises(row[f] # None) /\ TaskEnds(w)
  /\ UNCHANGED <<row, alerts, blobs, used, queue, redeliveries, req, unlinked>>

TaskCheck(w) ==
  LET found == task[w].file \in blobs IN
  /\ TaskAt(w, "check")
  /\ task' = [task EXCEPT ![w].pc = IF found THEN "extract" ELSE "commit",
                          ![w].found = found]
  /\ UNCHANGED <<row, alerts, blobs, used, queue, redeliveries, req, unlinked>>

\* A blob unlinked since the check, or one that cannot be read, ends the task
\* with an exception: rollback, no retry.
TaskExtract(w) ==
  LET reads == ReadsBlob(task[w].base.upload) IN
  /\ TaskAt(w, "extract")
  /\ \/ (reads => task[w].file \in blobs) /\ TaskGoto(w, "commit")
     \/ reads /\ task[w].file \notin blobs /\ TaskEnds(w)
     \/ reads /\ "extract" \in Faults /\ TaskEnds(w)
  /\ UNCHANGED <<row, alerts, blobs, used, queue, redeliveries, req, unlinked>>

\* The UPDATE needs a row to match, the alert one to refer to.
TaskMayCommit(f) == row[f] # None

\* Mutant of TaskSaves: the loaded row written back as a whole.
TaskSavesAll(current, loaded, new) == new

\* The task assigns attributes of the object its own session loaded.
TaskSaves(current, loaded, new) == Merge(current, loaded, new)

TaskCommit(w) ==
  LET f == task[w].file
      old == task[w].base
      new == Outcome(old, task[w].found)
  IN
  /\ TaskAt(w, "commit")
  /\ \E applied, raised \in BOOLEAN :
       /\ CommitEnds(TaskMayCommit(f), applied, raised)
       /\ row' = IF applied THEN [row EXCEPT ![f] = TaskSaves(@, old, new)] ELSE row
       /\ alerts' = IF applied
                      THEN [alerts EXCEPT ![f] = Append(@, AlertFor(new))]
                      ELSE alerts
  /\ TaskEnds(w)
  /\ UNCHANGED <<blobs, used, queue, redeliveries, req, unlinked>>

-----------------------------------------------------------------------------
(* The environment: Redis and the processes.                               *)

\* A reserved message whose visibility timeout expires is delivered again.
Redeliver(f) ==
  /\ queue[f] > 0 /\ redeliveries < MaxRedeliveries
  /\ queue' = [queue EXCEPT ![f] = @ + 1]
  /\ redeliveries' = redeliveries + 1
  /\ UNCHANGED <<row, alerts, blobs, used, req, task, unlinked>>

LoseMessage(f) ==
  /\ "broker" \in Faults /\ queue[f] > 0
  /\ queue' = [queue EXCEPT ![f] = @ - 1]
  /\ UNCHANGED <<row, alerts, blobs, used, redeliveries, req, task, unlinked>>

WorkerCrash(w) ==
  /\ "worker" \in Faults /\ ~TaskAt(w, "idle")
  /\ TaskEnds(w)
  /\ UNCHANGED <<row, alerts, blobs, used, queue, redeliveries, req, unlinked>>

\* The API process dies with every request it was handling.
ApiCrash ==
  /\ "api" \in Faults /\ \E r \in Requests : Active(r)
  /\ req' = [r \in Requests |-> IF Active(r) THEN IdleRequest ELSE req[r]]
  /\ UNCHANGED <<row, alerts, blobs, used, queue, redeliveries, task, unlinked>>

-----------------------------------------------------------------------------
RequestArrives(r) ==
  \E f \in Files :
    \/ \E title \in Titles, upload \in Uploads : CreateSave(r, f, title, upload)
    \/ \E title \in Titles : PatchGet(r, f, title)
    \/ DeleteGet(r, f)
    \/ DownloadGet(r, f)

HandlerStep(r) ==
  \/ CreateDiscard(r) \/ CreateInsert(r) \/ CreateRefresh(r) \/ CreateEnqueue(r)
  \/ PatchCommit(r) \/ PatchReread(r)
  \/ DeleteUnlink(r) \/ DeleteCommit(r)
  \/ DownloadExists(r) \/ DownloadSend(r)

TaskStep(w) == TaskLoad(w) \/ TaskCheck(w) \/ TaskExtract(w) \/ TaskCommit(w)

Environment ==
  \/ \E f \in Files : Redeliver(f) \/ LoseMessage(f)
  \/ \E w \in Workers : WorkerCrash(w)
  \/ ApiCrash

Next ==
  \/ \E r \in Requests : RequestArrives(r) \/ HandlerStep(r)
  \/ \E w \in Workers : TaskStep(w) \/ \E f \in Files : TaskDeliver(w, f)
  \/ Environment

Spec == Init /\ [][Next]_vars

\* The event loop resumes every handler, a worker runs the task it was given,
\* and the pool takes every message there is; nobody owes a new request.
Fairness ==
  /\ \A r \in Requests : WF_vars(HandlerStep(r))
  /\ \A w \in Workers : WF_vars(TaskStep(w))
  /\ \A f \in Files : WF_vars(\E w \in Workers : TaskDeliver(w, f))

FairSpec == Spec /\ Fairness
=============================================================================

----------------------- MODULE FileExchangeProperties -----------------------
(***************************************************************************)
(* What the backend of FileExchange keeps true: under every fault, when no *)
(* message is delivered twice, when nothing fails; the inductive invariant *)
(* the proofs rest on; the abstract life cycle it implements; and what the *)
(* comments and the README of the code say although it is not so.          *)
(***************************************************************************)
EXTENDS FileExchange

-----------------------------------------------------------------------------
(* Type correctness.                                                       *)

\* Every variable has its type.  A stored row fits its columns and is never
\* that of an empty upload, whatever sizes clients send.
TypeOK ==
  /\ row \in [Files -> Row \cup {None}]
  /\ \A f \in Files : row[f] # None => FitsColumns(row[f]) /\ row[f].upload.size > 0
  /\ alerts \in [Files -> Seq(Alert)]
  /\ blobs \subseteq Files /\ used \subseteq Files /\ unlinked \subseteq Files
  /\ queue \in [Files -> Nat]
  /\ redeliveries \in 0..MaxRedeliveries
  /\ req \in [Requests -> Request]
  /\ task \in [Workers -> Task]

-----------------------------------------------------------------------------
(* Safety under every fault.                                               *)

\* Only a DELETE can cost a file its content: a row whose blob is missing, a
\* row the worker marked failed, and a download that found the row but not
\* the blob all mean that a DELETE of that file has unlinked it (create_file
\* writes the blob before the row and leaves it alone afterwards).
LossMeansDelete ==
  /\ \A f \in Files :
       row[f] # None /\ (f \notin blobs \/ row[f].processing_status = "failed")
         => f \in unlinked
  /\ \A r \in Requests :
       At(r, "download", "done") /\ req[r].code \notin {"200", "404"}
         => req[r].file \in unlinked

\* A DELETE answered 204 is final: no row, no blob and no alert of the file is
\* there or comes back, whatever a PATCH or a worker that loaded the row
\* before goes on to commit (their UPDATE matches no row and raises).
DeletedIsGone ==
  \A r \in Requests :
    At(r, "delete", "done") /\ req[r].code = "204"
      => LET f == req[r].file
         IN  row[f] = None /\ alerts[f] = <<>> /\ f \notin blobs

\* The worker's single transaction: a row is "uploaded" exactly while it has
\* no alert, the other committed statuses are the two terminal ones (never
\* "processing", which exists in the worker's memory only), and an alert has
\* a row to refer to.  No PATCH committed meanwhile puts a status back.
StatusMatchesAlerts ==
  \A f \in Files :
    IF row[f] = None THEN alerts[f] = <<>>
    ELSE IF row[f].processing_status = "uploaded" THEN alerts[f] = <<>>
    ELSE row[f].processing_status \in {"processed", "failed"} /\ alerts[f] # <<>>

\* The route commits before it enqueues: a task that finds no row runs after
\* a DELETE, never ahead of the insert it belongs to.
MissingRowMeansDeleted ==
  \A f \in Files :
    /\ row[f] = None
    /\ queue[f] > 0 \/ \E w \in Workers : TaskAt(w, "load") /\ task[w].file = f
    => f \in unlinked

\* The response to a POST says "uploaded": it is serialised from the row as
\* it was before the task could run.
CreatedIsUploaded ==
  \A r \in Requests :
    At(r, "create", "done") /\ req[r].code = "201"
      => req[r].obj # None /\ req[r].obj.processing_status = "uploaded"

\* No update is lost: while a row exists its title changes in the commit of a
\* PATCH of that file only, and to the title that PATCH carries; a worker
\* that loaded the row under another title does not write it back.
TitleChangesByPatch ==
  [][\A f \in Files :
       row[f] # None /\ row'[f] # None /\ row'[f].title # row[f].title
         => \E r \in Requests : /\ At(r, "patch", "commit") /\ req[r].file = f
                                 /\ row'[f].title = req[r].title]_vars

-----------------------------------------------------------------------------
(* The inductive invariant behind the properties above.                    *)

\* A POST that holds a blob but no committed row, and one that has its row but
\* has not enqueued the task.
Undecided(r) == At(r, "create", "discard") \/ At(r, "create", "insert")
Committed(r) == At(r, "create", "refresh") \/ At(r, "create", "enqueue")

\* What handlers and tasks carry from one step to the next has its type.
SessionOK ==
  \A r \in Requests :
    /\ req[r].pc # "idle" => req[r].file \in Files
    /\ At(r, "create", "insert") => /\ req[r].obj \in Row
                                    /\ ~IsEmpty(req[r].obj.upload)
    /\ Committed(r) => req[r].obj \in Row
    /\ At(r, "patch", "commit") => req[r].obj \in Row /\ req[r].title \in Titles

TaskOK ==
  \A w \in Workers :
    /\ ~TaskAt(w, "idle") => task[w].file \in Files
    /\ task[w].pc \in {"check", "extract", "commit"} => task[w].base \in Row

TypeInv == TypeOK /\ SessionOK /\ TaskOK

\* Nobody but the creators has anything of file f; the requests that asked for
\* it before found nothing.
Untouched(f, creators) ==
  /\ row[f] = None /\ alerts[f] = <<>> /\ queue[f] = 0 /\ f \notin unlinked
  /\ \A w \in Workers : task[w].file # f
  /\ \A q \in Requests \ creators :
       req[q].file = f => req[q].pc = "done" /\ req[q].code = "404"

\* f has a row, or had one until a DELETE.
Known(f) == row[f] # None \/ f \in unlinked

FreshInv == \A f \in Files \ used : Untouched(f, {}) /\ f \notin blobs

UnlinkInv == \A f \in unlinked : f \notin blobs

CreateInv ==
  \A r \in Requests :
    LET f == req[r].file IN
    /\ Undecided(r) => Untouched(f, {r}) /\ f \in used /\ f \in blobs
    /\ At(r, "create", "insert") => req[r].obj.processing_status = "uploaded"
    /\ Committed(r) =>
         /\ alerts[f] = <<>> /\ queue[f] = 0
         /\ \A w \in Workers : task[w].file # f
         /\ \A q \in Requests \ {r} : Committed(q) => req[q].file # f
    /\ At(r, "create", "enqueue") => req[r].obj.processing_status = "uploaded"

\* Whoever is at work on a file once its POST has committed knows the file.
KnownInv ==
  /\ \A f \in Files : queue[f] > 0 => Known(f)
  /\ \A w \in Workers : ~TaskAt(w, "idle") => Known(task[w].file)
  /\ \A r \in Requests : Active(r) /\ ~Undecided(r) => Known(req[r].file)
  /\ \A r \in Requests : At(r, "delete", "commit") => req[r].file \in unlinked

\* What a task remembers is still true when it commits.
TaskInv ==
  \A w \in Workers :
    LET f == task[w].file IN
    /\ task[w].pc \in {"check", "extract", "commit"} =>
         /\ task[w].base.processing_status # "processing"
         /\ task[w].base.processing_status # "uploaded" => alerts[f] # <<>>
    /\ TaskAt(w, "extract") => task[w].found
    /\ TaskAt(w, "commit") /\ ~task[w].found => f \in unlinked

IndInv ==
  /\ FreshInv /\ UnlinkInv /\ CreateInv /\ KnownInv /\ TaskInv
  /\ LossMeansDelete /\ DeletedIsGone /\ StatusMatchesAlerts /\ CreatedIsUploaded

-----------------------------------------------------------------------------
(* As long as no message has been delivered twice.                         *)

\* A settled file has one alert and the columns of its row and that alert all
\* belong to the same outcome: scan result and metadata of this upload if it
\* was processed, no metadata, the failure text and a critical alert if not.
OneCoherentOutcome ==
  redeliveries = 0 => \A f \in Files :
    LET file == row[f] IN
    /\ file # None /\ file.processing_status = "processed"
         => /\ file.scan_details = Scan(file.upload).details
            /\ file.metadata = Extract(file.upload)
            /\ Len(alerts[f]) = 1
            /\ alerts[f][1].level = IF file.requires_attention THEN "warning" ELSE "info"
    /\ file # None /\ file.processing_status = "failed"
         => /\ file.scan_details = {"missing"} /\ file.metadata = {}
            /\ alerts[f] = <<[level |-> "critical", details |-> {}]>>

\* A message and the task it starts are never there twice, and neither exists
\* while the POST has yet to enqueue it.
AtMostOneTask ==
  redeliveries = 0 => \A f \in Files :
    /\ queue[f] <= 1
    /\ \A w \in Workers : task[w].file = f =>
         /\ queue[f] = 0
         /\ \A v \in Workers \ {w} : task[v].file # f
    /\ \A r \in Requests :
         Active(r) /\ req[r].op = "create" /\ req[r].file = f =>
           queue[f] = 0 /\ \A w \in Workers : task[w].file # f

\* An alert ends the work on its file.
NoneAfterAlert ==
  redeliveries = 0 => \A f \in Files : alerts[f] # <<>> =>
    queue[f] = 0 /\ \A w \in Workers : TaskAt(w, "idle") \/ task[w].file # f

\* One task per upload: a file has at most one message or task at a time, none
\* before its POST has got to the enqueue, and none any more once it has the
\* alert of an outcome - so nobody processes a settled file again, though the
\* task itself never asks what the row says already.
OneTaskPerUpload == AtMostOneTask /\ NoneAfterAlert

\* The columns a task fills, as the insert leaves them.
Untreated(file) ==
  /\ file.processing_status = "uploaded"
  /\ file.scan_details = {} /\ file.metadata = {} /\ ~file.requires_attention

Loaded(w) == task[w].pc \in {"check", "extract", "commit"}

CreateOK ==
  \A r \in Requests :
    /\ Active(r) /\ req[r].op = "create" => Undecided(r) \/ Committed(r)
    /\ At(r, "create", "insert") => Untreated(req[r].obj)

UploadedIsUntreated ==
  \A f \in Files :
    row[f] # None /\ row[f].processing_status = "uploaded" => Untreated(row[f])

\* A task that was delivered once finds a row nobody has treated, and the row
\* it loaded is still that row when it commits, but for the title.
DeliveredOnce ==
  redeliveries = 0 =>
    /\ \A f \in Files : queue[f] > 0 => alerts[f] = <<>>
    /\ \A w \in Workers : ~TaskAt(w, "idle") =>
         LET f == task[w].file IN
         /\ alerts[f] = <<>>
         /\ Loaded(w) =>
              /\ Untreated(task[w].base)
              /\ row[f] # None => row[f].upload = task[w].base.upload

\* What makes the two properties inductive.
OnceInv ==
  /\ OneCoherentOutcome /\ AtMostOneTask
  /\ CreateOK /\ UploadedIsUntreated /\ DeliveredOnce

\* Seen per file, the backend is the life cycle of module FileLifecycle, under
\* every fault and with messages delivered twice.
Phase(f) == IF row[f] # None THEN row[f].processing_status
            ELSE IF f \in unlinked THEN "gone" ELSE "absent"

Lifecycle == INSTANCE FileLifecycle
               WITH phase <- [f \in Files |-> Phase(f)],
                    feed <- [f \in Files |-> [i \in DOMAIN alerts[f] |->
                                                alerts[f][i].level]],
                    twice <- redeliveries > 0

ImplementsLifecycle == Lifecycle!Spec

-----------------------------------------------------------------------------
(* When nothing fails (Faults = {}).                                       *)

\* Somebody is still working on a row that says "uploaded".
Pending(f) ==
  \/ queue[f] > 0
  \/ \E w \in Workers : task[w].file = f
  \/ \E r \in Requests :
       req[r].file = f /\ (Committed(r) \/ At(r, "delete", "commit"))

\* A non-terminal status means that work is pending, which is what the page
\* assumes when it goes on polling.
UploadedIsPending ==
  \A f \in Files :
    row[f] # None /\ row[f].processing_status = "uploaded" => Pending(f)

\* Every blob belongs to a row or to a POST that has yet to decide about it.
NoOrphan ==
  \A f \in blobs :
    \/ row[f] # None
    \/ \E r \in Requests : req[r].file = f /\ Undecided(r)

\* Nothing but a DELETE makes a PATCH fail: a worker or another PATCH that
\* commits between its load and its commit does not, and a 500 means that the
\* file lost its row before the commit or the refresh after it.
PatchFailsByDelete ==
  \A r \in Requests :
    At(r, "patch", "done") /\ req[r].code = "500" => req[r].file \in unlinked

\* Every insert finds room in its columns.
EverythingFits ==
  /\ \A upload \in Uploads : upload.size <= IntMax
  /\ \A title \in Titles : title \notin LongTitles

\* A row that has lost its blob and was not treated yet is about to be deleted.
DeleteUnderWay ==
  \A f \in unlinked :
    row[f] # None /\ row[f].processing_status = "uploaded" =>
      \E r \in Requests : At(r, "delete", "commit") /\ req[r].file = f

\* What makes UploadedIsPending inductive.
PendingInv ==
  /\ UploadedIsPending /\ DeleteUnderWay
  /\ \A w \in Workers : TaskAt(w, "idle") => task[w].file = None

\* Every upload settles: its row reaches a terminal status or is deleted.
UploadsSettle ==
  \A f \in Files :
    (row[f] # None /\ row[f].processing_status = "uploaded")
      ~> (row[f] = None \/ row[f].processing_status \in {"processed", "failed"})

-----------------------------------------------------------------------------
(* What comments and the README say and the code does not do.              *)

\* "delete removes both row and blob": a row that is there can be downloaded,
\* except while a DELETE of it is under way.
RowHasBlob ==
  \A f \in Files :
    row[f] # None /\ (\A r \in Requests : At(r, "delete", "commit") => req[r].file # f)
      => f \in blobs

\* The steps are idempotent: processing a file raises one alert.
OneAlertPerFile == \A f \in Files : Len(alerts[f]) <= 1

\* A POST that failed to commit its row has cleaned its blob up.
FailedCreateLeavesNothing ==
  \A r \in Requests :
    At(r, "create", "done") /\ req[r].code = "500" /\ row[req[r].file] = None
      => req[r].file \notin blobs
=============================================================================

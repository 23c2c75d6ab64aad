------------------------- MODULE FileExchangeProofs -------------------------
(***************************************************************************)
(* Proofs about FileExchange for any number of files, requests, workers,   *)
(* titles and uploads, any bound on redeliveries and any set of faults.    *)
(***************************************************************************)
EXTENDS FileExchangeProperties, TLAPS

-----------------------------------------------------------------------------
(* The operators of FileDomain: what type they return and which status a   *)
(* task may write.                                                         *)

\* create_file builds a row of the table, with status "uploaded".
LEMMA NewRowFacts ==
  ASSUME NEW title \in Titles, NEW upload \in Uploads
  PROVE  /\ NewRow(title, upload) \in Row
         /\ NewRow(title, upload).title = title
         /\ NewRow(title, upload).upload = upload
         /\ NewRow(title, upload).processing_status = "uploaded"
BY DEF NewRow, Row, ProcessingStatus, ScanStatus

\* The scan returns a status of the enumeration and reasons the code knows.
LEMMA ScanType ==
  ASSUME NEW upload
  PROVE  /\ Scan(upload).status \in ScanStatus
         /\ Scan(upload).details \in SUBSET ScanDetail
         /\ Scan(upload).requires_attention \in BOOLEAN
BY DEF Scan, Reasons, ScanStatus, ScanReason, ScanDetail

\* The worker's object stays a row, keeps what the client chose and ends in
\* the terminal status that says whether the blob was found.
LEMMA OutcomeFacts ==
  ASSUME NEW file \in Row, NEW found \in BOOLEAN
  PROVE  /\ Outcome(file, found) \in Row
         /\ Outcome(file, found).title = file.title
         /\ Outcome(file, found).upload = file.upload
         /\ Outcome(file, found).processing_status
              = IF found THEN "processed" ELSE "failed"
<1> DEFINE started == [file EXCEPT !.processing_status = "processing"]
           scanned == ApplyScan(started, Scan(file.upload))
<1>1. started \in Row /\ started.title = file.title /\ started.upload = file.upload
  BY DEF Row, ProcessingStatus
<1>2. /\ scanned \in Row
      /\ scanned.title = file.title /\ scanned.upload = file.upload
  BY <1>1, ScanType DEF Row, ApplyScan
<1>3. /\ Processed(scanned) \in Row
      /\ Processed(scanned).title = file.title
      /\ Processed(scanned).upload = file.upload
      /\ Processed(scanned).processing_status = "processed"
  BY <1>2 DEF Row, Processed, Extract, MetadataKey, ProcessingStatus
<1>4. /\ Failed(scanned) \in Row
      /\ Failed(scanned).title = file.title
      /\ Failed(scanned).upload = file.upload
      /\ Failed(scanned).processing_status = "failed"
  BY <1>2 DEF Row, Failed, ScanStatus, ScanDetail, ProcessingStatus
<1>5. Outcome(file, found) = IF found THEN Processed(scanned) ELSE Failed(scanned)
  BY DEF Outcome
<1>6. QED
  BY <1>3, <1>4, <1>5

\* The alert of a row is a row of table alerts.
LEMMA AlertForType ==
  ASSUME NEW file \in Row
  PROVE  AlertFor(file) \in Alert
BY DEF AlertFor, Alert, AlertLevel, Row

\* A flush writes a row, takes each of its columns from the table or from the
\* session, never changes the upload, and writes only what the session changed.
LEMMA MergeFacts ==
  ASSUME NEW current \in Row, NEW loaded \in Row, NEW new \in Row
  PROVE  /\ Merge(current, loaded, new) \in Row
         /\ Merge(current, loaded, new).upload = current.upload
         /\ Merge(current, loaded, new).title
              = IF new.title = loaded.title THEN current.title ELSE new.title
         /\ Merge(current, loaded, new).processing_status
              = IF new.processing_status = loaded.processing_status
                  THEN current.processing_status ELSE new.processing_status
BY DEF Merge, Pick, Row

\* A PATCH writes the title and leaves every other column as the table has it.
LEMMA PatchColumns ==
  ASSUME NEW current \in Row, NEW loaded \in Row, NEW title \in Titles
  PROVE  LET merged == Merge(current, loaded, [loaded EXCEPT !.title = title])
         IN  /\ merged \in Row
             /\ merged.upload = current.upload
             /\ merged.processing_status = current.processing_status
             /\ merged.scan_details = current.scan_details
             /\ merged.metadata = current.metadata
             /\ merged.requires_attention = current.requires_attention
<1> DEFINE new == [loaded EXCEPT !.title = title]
<1>1. /\ new \in Row
      /\ new.processing_status = loaded.processing_status
      /\ new.scan_details = loaded.scan_details
      /\ new.metadata = loaded.metadata
      /\ new.requires_attention = loaded.requires_attention
  BY DEF Row
<1> HIDE DEF new
<1>2. Merge(current, loaded, new) \in Row
  BY <1>1, MergeFacts
<1>3. QED
  BY <1>1, <1>2 DEF Merge, Pick, new

\* The columns a task fills, as it has them when it reaches its commit.
LEMMA OutcomeColumns ==
  ASSUME NEW file \in Row, NEW found \in BOOLEAN
  PROVE  LET new == Outcome(file, found)
             scan == Scan(file.upload)
         IN  /\ new.requires_attention = scan.requires_attention
             /\ new.scan_details = IF found THEN scan.details ELSE {"missing"}
             /\ new.metadata = IF found THEN Extract(file.upload) ELSE file.metadata
<1> DEFINE started == [file EXCEPT !.processing_status = "processing"]
           scanned == ApplyScan(started, Scan(file.upload))
<1>1. started \in Row /\ started.upload = file.upload /\ started.metadata = file.metadata
  BY DEF Row, ProcessingStatus
<1>2. /\ scanned \in Row
      /\ scanned.upload = file.upload /\ scanned.metadata = file.metadata
      /\ scanned.scan_details = Scan(file.upload).details
      /\ scanned.requires_attention = Scan(file.upload).requires_attention
  BY <1>1, ScanType DEF Row, ApplyScan
<1> HIDE DEF scanned
<1>3. /\ Processed(scanned).requires_attention = scanned.requires_attention
      /\ Processed(scanned).scan_details = scanned.scan_details
      /\ Processed(scanned).metadata = Extract(scanned.upload)
  BY <1>2 DEF Row, Processed
<1>4. /\ Failed(scanned).requires_attention = scanned.requires_attention
      /\ Failed(scanned).scan_details = {"missing"}
      /\ Failed(scanned).metadata = scanned.metadata
  BY <1>2 DEF Row, Failed
<1>5. Outcome(file, found) = IF found THEN Processed(scanned) ELSE Failed(scanned)
  BY DEF Outcome, scanned
<1>6. QED
  BY <1>2, <1>3, <1>4, <1>5

\* The alert of a row the worker failed, and of one it processed.
LEMMA AlertFacts ==
  ASSUME NEW file \in Row
  PROVE  /\ file.processing_status = "failed"
              => AlertFor(file) = [level |-> "critical", details |-> {}]
         /\ file.processing_status # "failed"
              => AlertFor(file).level = IF file.requires_attention
                                          THEN "warning" ELSE "info"
BY DEF AlertFor

\* What the table holds: rows that fit their columns and are not empty.  A
\* flush keeps a row that way if the title it may write fits.
LEMMA MergeStored ==
  ASSUME NEW current \in Row, NEW loaded \in Row, NEW new \in Row,
         FitsColumns(current), current.upload.size > 0,
         new.title = loaded.title \/ FitsColumns(new)
  PROVE  /\ Merge(current, loaded, new) \in Row
         /\ FitsColumns(Merge(current, loaded, new))
         /\ Merge(current, loaded, new).upload.size > 0
<1> DEFINE merged == Merge(current, loaded, new)
<1>1. /\ merged \in Row
      /\ merged.upload = current.upload
      /\ merged.title \in {current.title, new.title}
      /\ new.title = loaded.title => merged.title = current.title
  BY MergeFacts
<1> HIDE DEF merged
<1>2. merged.title \notin LongTitles
  BY <1>1 DEF FitsColumns
<1>3. merged.upload.size <= IntMax /\ merged.upload.size > 0
  BY <1>1 DEF FitsColumns
<1>4. QED
  BY <1>1, <1>2, <1>3 DEF FitsColumns, merged

-----------------------------------------------------------------------------
(* Type correctness.                                                       *)

\* A handler with well-typed parts is a request.
LEMMA HandlerType ==
  ASSUME NEW op \in Op, NEW pc \in ReqPc, NEW f \in Files \cup {None},
         NEW obj \in Row \cup {None}, NEW title \in Titles \cup {None},
         NEW code \in Code
  PROVE  Handler(op, pc, f, obj, title, code) \in Request
BY DEF Handler, Request

LEMMA TypeInit == Init => TypeInv
<1> SUFFICES ASSUME Init PROVE TypeInv
  OBVIOUS
<1> USE BoundAssumption, NoneAssumption DEF Init
<1>1. TypeOK
  BY DEF TypeOK, IdleRequest, Handler, Request, Op, ReqPc, Code, IdleTask, Task, TaskPc
<1>2. SessionOK
  BY DEF SessionOK, IdleRequest, Handler, Committed, At
<1>3. TaskOK
  BY DEF TaskOK, IdleTask, TaskAt
<1>4. QED
  BY <1>1, <1>2, <1>3 DEF TypeInv

LEMMA TypeNext == TypeInv /\ [Next]_vars => TypeInv'
<1> SUFFICES ASSUME TypeInv, [Next]_vars PROVE TypeInv'
  OBVIOUS
<1> USE NoneAssumption, BoundAssumption
<1> USE DEF TypeInv
<1> DEFINE Data == /\ row \in [Files -> Row \cup {None}]
                   /\ \A f \in Files : row[f] # None =>
                        FitsColumns(row[f]) /\ row[f].upload.size > 0
                   /\ alerts \in [Files -> Seq(Alert)]
                   /\ blobs \subseteq Files /\ used \subseteq Files
                   /\ unlinked \subseteq Files
                   /\ queue \in [Files -> Nat]
                   /\ redeliveries \in 0..MaxRedeliveries
           Sessions == req \in [Requests -> Request] /\ SessionOK
           Tasks == task \in [Workers -> Task] /\ TaskOK
<1>0. Data /\ Sessions /\ Tasks
  BY DEF TypeOK
<1>a. SUFFICES Data' /\ Sessions' /\ Tasks'
  BY DEF TypeOK
<1>b. UNCHANGED req => Sessions'
  BY <1>0 DEF SessionOK, Committed, At
<1>c. UNCHANGED task => Tasks'
  BY <1>0 DEF TaskOK, TaskAt
<1>d. UNCHANGED <<row, alerts, blobs, used, unlinked, queue, redeliveries>> => Data'
  BY <1>0
<1>e. ASSUME NEW r \in Requests, NEW h \in Request,
             req' = [req EXCEPT ![r] = h],
             h.pc # "idle" => h.file \in Files,
             h.op = "create" /\ h.pc = "insert"
               => h.obj \in Row /\ ~IsEmpty(h.obj.upload),
             h.op = "create" /\ h.pc \in {"refresh", "enqueue"} => h.obj \in Row,
             h.op = "patch" /\ h.pc = "commit"
               => h.obj \in Row /\ h.title \in Titles
      PROVE  Sessions'
  BY <1>0, <1>e DEF SessionOK, Committed, At
<1>f. ASSUME NEW w \in Workers, NEW t \in Task,
             task' = [task EXCEPT ![w] = t],
             t.pc # "idle" => t.file \in Files,
             t.pc \in {"check", "extract", "commit"} => t.base \in Row
      PROVE  Tasks'
  BY <1>0, <1>f DEF TaskOK, TaskAt
<1>g. ASSUME NEW w \in Workers, TaskEnds(w) PROVE Tasks'
  <2>1. IdleTask \in Task /\ IdleTask.pc = "idle"
    BY DEF IdleTask, Task, TaskPc
  <2>2. QED
    BY <1>f, <1>g, <2>1 DEF TaskEnds
<1>h. ASSUME NEW r \in Requests, NEW op \in Op, NEW f \in Files, NEW code \in Code,
             Refuse(r, op, f, code)
      PROVE  Sessions'
  <2>1. Handler(op, "done", f, None, None, code) \in Request
    BY HandlerType DEF ReqPc
  <2>2. QED
    BY <1>e, <1>h, <2>1 DEF Refuse, Handler
<1>i. ASSUME NEW r \in Requests, NEW code \in Code, Active(r), Answer(r, code)
      PROVE  Sessions'
  <2>1. req[r].op \in Op /\ req[r].file \in Files
    BY <1>0, <1>i DEF SessionOK, Request, Active
  <2>2. QED
    BY <1>h, <1>i, <2>1 DEF Answer
<1>1. CASE UNCHANGED vars
  BY <1>1, <1>b, <1>c, <1>d DEF vars
<1>2. ASSUME NEW r \in Requests, NEW f \in Files, NEW title \in Titles,
             NEW upload \in Uploads, CreateSave(r, f, title, upload)
      PROVE  Data' /\ Sessions' /\ Tasks'
  <2>1. Data' /\ Tasks'
    BY <1>0, <1>2, <1>c DEF CreateSave
  <2>2. CASE Refuse(r, "create", f, "500")
    BY <1>h, <2>1, <2>2 DEF Op, Code
  <2>3. CASE IsEmpty(upload) /\ Begin(r, "create", "discard", f, None, None)
    <3>1. Handler("create", "discard", f, None, None, "none") \in Request
      BY HandlerType DEF Op, ReqPc, Code
    <3>2. QED
      BY <1>e, <2>1, <2>3, <3>1 DEF Begin, Handler
  <2>4. CASE ~IsEmpty(upload)
             /\ Begin(r, "create", CreateNext("saved"), f, NewRow(title, upload), None)
    <3> DEFINE h == Handler("create", "insert", f, NewRow(title, upload), None, "none")
    <3>1. /\ h \in Request /\ h.file = f /\ h.pc = "insert" /\ h.op = "create"
          /\ h.obj \in Row /\ h.obj.upload = upload
      BY NewRowFacts, HandlerType DEF Op, ReqPc, Code, Handler
    <3>2. req' = [req EXCEPT ![r] = h]
      BY <2>4 DEF Begin, CreateNext
    <3> HIDE DEF h
    <3>3. QED
      BY <1>e, <2>1, <2>4, <3>1, <3>2
  <2>5. QED
    BY <1>2, <2>2, <2>3, <2>4 DEF CreateSave
<1>3. ASSUME NEW r \in Requests, CreateDiscard(r)
      PROVE  Data' /\ Sessions' /\ Tasks'
  <2>1. Data' /\ Tasks'
    BY <1>0, <1>3, <1>c DEF CreateDiscard
  <2>2. Answer(r, "400") \/ Answer(r, "500")
    BY <1>3 DEF CreateDiscard
  <2>3. QED
    BY <1>3, <1>i, <2>1, <2>2 DEF CreateDiscard, At, Active, Code
<1>4. ASSUME NEW r \in Requests, NEW step \in {"inserted", "refreshed", "enqueued"},
             NEW obj \in Row, req[r].file \in Files, req[r].op = "create",
             CreateGoto(r, step, obj)
      PROVE  Sessions'
  <2> DEFINE code == IF CreateNext(step) = "done" THEN "201" ELSE req[r].code
             h == [req[r] EXCEPT !.pc = CreateNext(step), !.obj = obj, !.code = code]
  <2>1. CreateNext(step) \in {"refresh", "enqueue", "done"} /\ code \in Code
    BY <1>0 DEF CreateNext, Code, Request
  <2>2. h \in Request /\ h.file \in Files /\ h.op = "create"
        /\ h.pc = CreateNext(step) /\ h.obj = obj
    <3> HIDE DEF code
    <3>1. QED
      BY <1>0, <1>4, <2>1 DEF Request, ReqPc
  <2>3. req' = [req EXCEPT ![r] = h]
    BY <1>0, <1>4 DEF CreateGoto, Request
  <2> HIDE DEF h
  <2>4. QED
    BY <1>e, <2>1, <2>2, <2>3
<1>5. ASSUME NEW r \in Requests, CreateInsert(r)
      PROVE  Data' /\ Sessions' /\ Tasks'
  <2>1. /\ req[r].file \in Files /\ req[r].op = "create" /\ Active(r)
        /\ req[r].obj \in Row /\ ~IsEmpty(req[r].obj.upload)
    BY <1>0, <1>5 DEF CreateInsert, SessionOK, At, Active
  <2>2. Tasks'
    BY <1>5, <1>c DEF CreateInsert
  <2>3. req[r].obj.upload.size > 0
    BY <2>1, UploadsAssumption DEF IsEmpty, Row, Upload
  <2>4. ASSUME NEW applied \in BOOLEAN, NEW raised \in BOOLEAN,
               CommitEnds(FitsColumns(req[r].obj), applied, raised),
               row' = IF applied THEN [row EXCEPT ![req[r].file] = req[r].obj] ELSE row
        PROVE  Data'
    <3>1. applied => FitsColumns(req[r].obj)
      BY <2>4 DEF CommitEnds
    <3>2. QED
      BY <1>0, <1>5, <2>1, <2>3, <2>4, <3>1 DEF CreateInsert, BlobsAfterInsert
  <2>5. Data'
    BY <1>5, <2>4 DEF CreateInsert
  <2>6. Answer(r, "500") \/ CreateGoto(r, "inserted", req[r].obj)
    BY <1>5 DEF CreateInsert
  <2>7. Sessions'
    BY <1>i, <1>4, <2>1, <2>6 DEF Code
  <2>8. QED
    BY <2>2, <2>5, <2>7
<1>6. ASSUME NEW r \in Requests, CreateRefresh(r)
      PROVE  Data' /\ Sessions' /\ Tasks'
  <2>1. req[r].file \in Files /\ req[r].op = "create" /\ Active(r)
    BY <1>0, <1>6 DEF CreateRefresh, SessionOK, At, Active
  <2>2. Data' /\ Tasks'
    BY <1>6, <1>c, <1>d DEF CreateRefresh
  <2>3. CASE Answer(r, "500")
    BY <1>i, <2>1, <2>2, <2>3 DEF Code
  <2>4. CASE row[req[r].file] # None /\ CreateGoto(r, "refreshed", row[req[r].file])
    BY <1>0, <1>4, <2>1, <2>2, <2>4
  <2>5. QED
    BY <1>6, <2>3, <2>4 DEF CreateRefresh
<1>7. ASSUME NEW r \in Requests, CreateEnqueue(r)
      PROVE  Data' /\ Sessions' /\ Tasks'
  <2>1. /\ req[r].file \in Files /\ req[r].op = "create" /\ Active(r)
        /\ req[r].obj \in Row
    BY <1>0, <1>7 DEF CreateEnqueue, SessionOK, At, Active, Committed
  <2>2. Data' /\ Tasks'
    <3>1. \E sent \in {0, 1} : queue' = [queue EXCEPT ![req[r].file] = @ + sent]
      BY <1>0, <1>7 DEF CreateEnqueue
    <3>2. queue' \in [Files -> Nat]
      BY <1>0, <2>1, <3>1
    <3>3. QED
      BY <1>0, <1>7, <1>c, <3>2 DEF CreateEnqueue
  <2>3. Answer(r, "500") \/ CreateGoto(r, "enqueued", req[r].obj)
    BY <1>7 DEF CreateEnqueue
  <2>4. QED
    BY <1>i, <1>4, <2>1, <2>2, <2>3 DEF Code
<1>8. ASSUME NEW r \in Requests, NEW f \in Files, NEW title \in Titles,
             PatchGet(r, f, title)
      PROVE  Data' /\ Sessions' /\ Tasks'
  <2>1. Data' /\ Tasks'
    BY <1>8, <1>c, <1>d DEF PatchGet
  <2>2. CASE Refuse(r, "patch", f, "404")
    BY <1>h, <2>1, <2>2 DEF Op, Code
  <2>3. CASE row[f] # None /\ Begin(r, "patch", "commit", f, row[f], title)
    <3>1. Handler("patch", "commit", f, row[f], title, "none") \in Request
      BY <1>0, HandlerType DEF Op, ReqPc, Code
    <3>2. row[f] \in Row
      BY <1>0, <2>3
    <3>3. QED
      BY <1>e, <2>1, <2>3, <3>1, <3>2 DEF Begin, Handler
  <2>4. QED
    BY <1>8, <2>2, <2>3 DEF PatchGet
<1>j. ASSUME NEW r \in Requests, NEW pc \in ReqPc, Active(r), Goto(r, pc),
             pc \notin {"idle", "insert", "refresh", "enqueue", "commit"}
      PROVE  Sessions'
  <2> DEFINE h == [req[r] EXCEPT !.pc = pc]
  <2>1. h \in Request /\ h.file \in Files /\ h.pc = pc
    BY <1>0, <1>j DEF Request, SessionOK, Active
  <2>2. req' = [req EXCEPT ![r] = h]
    BY <1>0, <1>j DEF Goto, Request
  <2>3. QED
    BY <1>e, <1>j, <2>1, <2>2
<1>9. ASSUME NEW r \in Requests, PatchCommit(r)
      PROVE  Data' /\ Sessions' /\ Tasks'
  <2> DEFINE f == req[r].file
             old == req[r].obj
             new == [old EXCEPT !.title = req[r].title]
  <2>1. f \in Files /\ old \in Row /\ req[r].title \in Titles /\ Active(r)
    BY <1>0, <1>9 DEF PatchCommit, SessionOK, At, Active
  <2>2. new \in Row /\ new.title = req[r].title /\ new.upload = old.upload
    BY <2>1 DEF Row
  <2>3. Tasks'
    BY <1>9, <1>c DEF PatchCommit
  <2>4. ASSUME NEW applied \in BOOLEAN, NEW raised \in BOOLEAN,
               CommitEnds(PatchMayCommit(f, old, new), applied, raised),
               row' = IF applied /\ new # old
                        THEN [row EXCEPT ![f] = Merge(@, old, new)] ELSE row
        PROVE  Data'
    <3>1. CASE ~(applied /\ new # old)
      BY <1>9, <1>d, <2>4, <3>1 DEF PatchCommit
    <3>2. CASE applied /\ new # old
      <4>1. row[f] \in Row /\ FitsColumns(row[f]) /\ row[f].upload.size > 0
            /\ FitsColumns(new)
        BY <1>0, <2>1, <2>4, <3>2 DEF CommitEnds, PatchMayCommit
      <4>2. /\ Merge(row[f], old, new) \in Row
            /\ FitsColumns(Merge(row[f], old, new))
            /\ Merge(row[f], old, new).upload.size > 0
        <5> HIDE DEF old, new
        <5>1. QED
          BY <2>1, <2>2, <4>1, MergeStored
      <4>3. QED
        BY <1>0, <1>9, <2>1, <2>4, <3>2, <4>2 DEF PatchCommit
    <3>3. QED
      BY <3>1, <3>2
  <2>5. Data'
    BY <1>9, <2>4 DEF PatchCommit
  <2>6. Answer(r, "500") \/ Goto(r, "reread")
    BY <1>9 DEF PatchCommit
  <2>7. Sessions'
    BY <1>i, <1>j, <2>1, <2>6 DEF Code, ReqPc
  <2>8. QED
    BY <2>3, <2>5, <2>7
<1>10. ASSUME NEW r \in Requests, PatchReread(r)
       PROVE  Data' /\ Sessions' /\ Tasks'
  <2>1. Data' /\ Tasks' /\ Active(r)
    BY <1>10, <1>c, <1>d DEF PatchReread, At, Active
  <2>2. Answer(r, "500") \/ Answer(r, "200")
    BY <1>10 DEF PatchReread
  <2>3. QED
    BY <1>i, <2>1, <2>2 DEF Code
<1>11. ASSUME NEW r \in Requests, NEW f \in Files, NEW op \in {"delete", "download"},
              NEW pc \in {"unlink", "exists"},
              \/ Refuse(r, op, f, "404")
              \/ Begin(r, op, pc, f, None, None)
       PROVE  Sessions'
  <2>1. Handler(op, pc, f, None, None, "none") \in Request
    BY HandlerType DEF Op, ReqPc, Code
  <2>2. QED
    BY <1>e, <1>h, <1>11, <2>1 DEF Begin, Handler, Op, Code
<1>12. ASSUME NEW r \in Requests, NEW f \in Files, DeleteGet(r, f)
       PROVE  Data' /\ Sessions' /\ Tasks'
  BY <1>12, <1>c, <1>d, <1>11 DEF DeleteGet
<1>13. ASSUME NEW r \in Requests, DeleteUnlink(r)
       PROVE  Data' /\ Sessions' /\ Tasks'
  <2>1. req[r].file \in Files /\ Active(r)
    BY <1>0, <1>13 DEF DeleteUnlink, SessionOK, At, Active
  <2>2. Data' /\ Tasks'
    BY <1>0, <1>13, <1>c, <2>1 DEF DeleteUnlink
  <2>3. CASE Answer(r, "500")
    BY <1>i, <2>1, <2>2, <2>3 DEF Code
  <2>4. CASE Goto(r, "commit")
    <3> DEFINE h == [req[r] EXCEPT !.pc = "commit"]
    <3>1. h \in Request /\ h.file \in Files /\ h.pc = "commit" /\ h.op = "delete"
      BY <1>0, <1>13, <2>1 DEF Request, ReqPc, DeleteUnlink, At
    <3>2. req' = [req EXCEPT ![r] = h]
      BY <1>0, <2>4 DEF Goto, Request
    <3>3. QED
      BY <1>e, <2>2, <3>1, <3>2
  <2>5. QED
    BY <1>13, <2>3, <2>4 DEF DeleteUnlink
<1>14. ASSUME NEW r \in Requests, DeleteCommit(r)
       PROVE  Data' /\ Sessions' /\ Tasks'
  <2>1. req[r].file \in Files /\ Active(r)
    BY <1>0, <1>14 DEF DeleteCommit, SessionOK, At, Active
  <2>2. Data' /\ Tasks'
    BY <1>0, <1>14, <1>c, <2>1 DEF DeleteCommit
  <2>3. Answer(r, "500") \/ Answer(r, "204")
    BY <1>14 DEF DeleteCommit
  <2>4. QED
    BY <1>i, <2>1, <2>2, <2>3 DEF Code
<1>15. ASSUME NEW r \in Requests, NEW f \in Files, DownloadGet(r, f)
       PROVE  Data' /\ Sessions' /\ Tasks'
  BY <1>15, <1>c, <1>d, <1>11 DEF DownloadGet
<1>16. ASSUME NEW r \in Requests, DownloadExists(r) \/ DownloadSend(r)
       PROVE  Data' /\ Sessions' /\ Tasks'
  <2>1. Data' /\ Tasks' /\ Active(r)
    BY <1>16, <1>c, <1>d DEF DownloadExists, DownloadSend, At, Active
  <2>2. \/ Goto(r, "send")
        \/ \E code \in {"200", "404_stored", "500"} : Answer(r, code)
    BY <1>16 DEF DownloadExists, DownloadSend
  <2>3. QED
    BY <1>i, <1>j, <2>1, <2>2 DEF Code, ReqPc
<1>17. ASSUME NEW w \in Workers, NEW f \in Files, TaskDeliver(w, f)
       PROVE  Data' /\ Sessions' /\ Tasks'
  <2> DEFINE t == [task[w] EXCEPT !.pc = "load", !.file = f]
  <2>1. t \in Task /\ t.pc = "load" /\ t.file = f
    BY <1>0 DEF Task, TaskPc
  <2>2. task' = [task EXCEPT ![w] = t]
    BY <1>0, <1>17 DEF TaskDeliver, Task
  <2>3. Tasks'
    BY <1>f, <2>1, <2>2
  <2>4. queue' \in [Files -> Nat]
    BY <1>0, <1>17 DEF TaskDeliver
  <2>5. QED
    BY <1>0, <1>17, <1>b, <2>3, <2>4 DEF TaskDeliver
<1>18. ASSUME NEW w \in Workers, TaskLoad(w)
       PROVE  Data' /\ Sessions' /\ Tasks'
  <2> DEFINE f == task[w].file
             t == [task[w] EXCEPT !.pc = "check", !.base = row[f]]
  <2>1. f \in Files
    BY <1>0, <1>18 DEF TaskLoad, TaskOK, TaskAt
  <2>2. Data' /\ Sessions'
    BY <1>18, <1>b, <1>d DEF TaskLoad
  <2>3. CASE TaskEnds(w)
    BY <1>g, <2>2, <2>3
  <2>4. CASE row[f] # None /\ task' = [task EXCEPT ![w].pc = "check", ![w].base = row[f]]
    <3>1. t \in Task /\ t.file = f /\ t.base = row[f] /\ row[f] \in Row
      BY <1>0, <2>1, <2>4 DEF Task, TaskPc
    <3>2. task' = [task EXCEPT ![w] = t]
      BY <1>0, <2>4 DEF Task
    <3>3. QED
      BY <1>f, <2>1, <2>2, <3>1, <3>2
  <2>5. QED
    BY <1>18, <2>3, <2>4 DEF TaskLoad
<1>19. ASSUME NEW w \in Workers, TaskCheck(w)
       PROVE  Data' /\ Sessions' /\ Tasks'
  <2> DEFINE found == task[w].file \in blobs
             pc == IF found THEN "extract" ELSE "commit"
             t == [task[w] EXCEPT !.pc = pc, !.found = found]
  <2>1. t \in Task /\ t.file \in Files /\ t.base \in Row
    <3>1. pc \in TaskPc /\ found \in BOOLEAN
      BY DEF TaskPc
    <3> HIDE DEF pc, found
    <3>2. QED
      BY <1>0, <1>19, <3>1 DEF Task, TaskCheck, TaskOK, TaskAt
  <2>2. task' = [task EXCEPT ![w] = t]
    BY <1>0, <1>19 DEF TaskCheck, Task
  <2>3. QED
    BY <1>19, <1>b, <1>d, <1>f, <2>1, <2>2 DEF TaskCheck
<1>20. ASSUME NEW w \in Workers, TaskExtract(w)
       PROVE  Data' /\ Sessions' /\ Tasks'
  <2> DEFINE t == [task[w] EXCEPT !.pc = "commit"]
  <2>1. Data' /\ Sessions'
    BY <1>20, <1>b, <1>d DEF TaskExtract
  <2>2. CASE TaskEnds(w)
    BY <1>g, <2>1, <2>2
  <2>3. CASE TaskGoto(w, "commit")
    <3>1. t \in Task /\ t.file \in Files /\ t.base \in Row
      BY <1>0, <1>20 DEF Task, TaskPc, TaskExtract, TaskOK, TaskAt
    <3>2. task' = [task EXCEPT ![w] = t]
      BY <1>0, <2>3 DEF TaskGoto, Task
    <3>3. QED
      BY <1>f, <2>1, <3>1, <3>2
  <2>4. QED
    BY <1>20, <2>2, <2>3 DEF TaskExtract
<1>21. ASSUME NEW w \in Workers, TaskCommit(w)
       PROVE  Data' /\ Sessions' /\ Tasks'
  <2> DEFINE f == task[w].file
             old == task[w].base
             new == Outcome(old, task[w].found)
  <2>1. f \in Files /\ old \in Row /\ task[w].found \in BOOLEAN
    BY <1>0, <1>21 DEF TaskCommit, TaskOK, TaskAt, Task
  <2>2. new \in Row /\ new.title = old.title
    BY <2>1, OutcomeFacts
  <2>3. Sessions' /\ Tasks'
    BY <1>21, <1>b, <1>g DEF TaskCommit
  <2>4. ASSUME NEW applied \in BOOLEAN, NEW raised \in BOOLEAN,
               CommitEnds(TaskMayCommit(f), applied, raised),
               row' = IF applied THEN [row EXCEPT ![f] = Merge(@, old, new)] ELSE row,
               alerts' = IF applied THEN [alerts EXCEPT ![f] = Append(@, AlertFor(new))]
                                    ELSE alerts
        PROVE  Data'
    <3>1. CASE ~applied
      BY <1>21, <1>d, <2>4, <3>1 DEF TaskCommit, TaskSaves
    <3>2. CASE applied
      <4>1. row[f] \in Row /\ FitsColumns(row[f]) /\ row[f].upload.size > 0
        BY <1>0, <2>1, <2>4, <3>2 DEF CommitEnds, TaskMayCommit
      <4>2. /\ Merge(row[f], old, new) \in Row
            /\ FitsColumns(Merge(row[f], old, new))
            /\ Merge(row[f], old, new).upload.size > 0
        <5> HIDE DEF old, new
        <5>1. QED
          BY <2>1, <2>2, <4>1, MergeStored
      <4>3. alerts' \in [Files -> Seq(Alert)]
        BY <1>0, <2>1, <2>2, <2>4, <3>2, AlertForType
      <4>4. QED
        BY <1>0, <1>21, <2>1, <2>4, <3>2, <4>2, <4>3 DEF TaskCommit
    <3>3. QED
      BY <3>1, <3>2
  <2>5. QED
    BY <1>21, <2>3, <2>4 DEF TaskCommit, TaskSaves
<1>22. ASSUME Environment
       PROVE  Data' /\ Sessions' /\ Tasks'
  <2>1. ASSUME NEW f \in Files, Redeliver(f) \/ LoseMessage(f)
        PROVE  Data' /\ Sessions' /\ Tasks'
    BY <1>0, <1>b, <1>c, <2>1 DEF Redeliver, LoseMessage
  <2>2. ASSUME NEW w \in Workers, WorkerCrash(w)
        PROVE  Data' /\ Sessions' /\ Tasks'
    BY <1>b, <1>d, <1>g, <2>2 DEF WorkerCrash
  <2>3. CASE ApiCrash
    <3>1. IdleRequest \in Request /\ IdleRequest.pc = "idle"
      BY HandlerType DEF IdleRequest, Handler, Op, ReqPc, Code
    <3>2. Sessions'
      BY <1>0, <2>3, <3>1 DEF ApiCrash, SessionOK, Committed, At
    <3>3. QED
      BY <1>c, <1>d, <2>3, <3>2 DEF ApiCrash
  <2>4. QED
    BY <1>22, <2>1, <2>2, <2>3 DEF Environment
<1>23. QED
  BY <1>1, <1>2, <1>3, <1>5, <1>6, <1>7, <1>8, <1>9, <1>10, <1>12, <1>13, <1>14,
     <1>15, <1>16, <1>17, <1>18, <1>19, <1>20, <1>21, <1>22
     DEF Next, RequestArrives, HandlerStep, TaskStep

\* Every variable always has its type, every row fits its columns and no row
\* belongs to an empty upload.
THEOREM TypeCorrect == Spec => []TypeOK
<1>1. TypeInv => TypeOK
  BY DEF TypeInv
<1>2. QED
  BY TypeInit, TypeNext, <1>1, PTL DEF Spec
=============================================================================

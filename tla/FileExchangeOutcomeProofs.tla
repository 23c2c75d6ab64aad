--------------------- MODULE FileExchangeOutcomeProofs ---------------------
(***************************************************************************)
(* How files come out of the backend, for any number of files, requests    *)
(* and workers: one coherent outcome per upload as long as no message is   *)
(* delivered twice, the life cycle of FileLifecycle in any case, and no    *)
(* work or blob forgotten when nothing fails.                              *)
(***************************************************************************)
EXTENDS FileExchangeSafetyProofs, SequenceTheorems

-----------------------------------------------------------------------------
(* What a task that was delivered once writes.                             *)

LEMMA AppendToEmpty ==
  ASSUME NEW e
  PROVE  Append(<<>>, e) = <<e>>
OBVIOUS

\* Over a row nobody has treated the flush of the worker writes every column
\* of its outcome, whichever of them differ from the row it loaded.
LEMMA MergeOutcome ==
  ASSUME NEW current \in Row, NEW loaded \in Row, NEW found \in BOOLEAN,
         Untreated(current), Untreated(loaded), current.upload = loaded.upload
  PROVE  LET new == Outcome(loaded, found)
             merged == Merge(current, loaded, new)
         IN  /\ merged.upload = current.upload
             /\ merged.processing_status = new.processing_status
             /\ merged.scan_details = new.scan_details
             /\ merged.metadata = new.metadata
             /\ merged.requires_attention = new.requires_attention
<1> DEFINE new == Outcome(loaded, found)
           merged == Merge(current, loaded, new)
<1>1. new \in Row /\ new.requires_attention \in BOOLEAN
  BY OutcomeFacts DEF Row
<1> HIDE DEF new
<1>2. /\ merged.upload = current.upload
      /\ merged.processing_status = Pick(current.processing_status,
                                         loaded.processing_status, new.processing_status)
      /\ merged.scan_details = Pick(current.scan_details, loaded.scan_details,
                                    new.scan_details)
      /\ merged.metadata = Pick(current.metadata, loaded.metadata, new.metadata)
      /\ merged.requires_attention = Pick(current.requires_attention,
                                          loaded.requires_attention,
                                          new.requires_attention)
  BY DEF Merge
<1>3. current.requires_attention = FALSE /\ loaded.requires_attention = FALSE
  BY DEF Untreated, Row
<1>4. QED
  BY <1>2, <1>3 DEF Pick, Untreated, new

-----------------------------------------------------------------------------
(* One outcome per upload.                                                 *)

LEMMA OnceInit == Init => OnceInv
<1> SUFFICES ASSUME Init PROVE OnceInv
  OBVIOUS
<1> USE NoneAssumption DEF Init, IdleRequest, Handler, IdleTask, At, Active, TaskAt
<1>1. OneCoherentOutcome /\ AtMostOneTask
  BY DEF OneCoherentOutcome, AtMostOneTask
<1>2. CreateOK /\ UploadedIsUntreated /\ DeliveredOnce
  BY DEF CreateOK, UploadedIsUntreated, DeliveredOnce, Loaded
<1>3. QED
  BY <1>1, <1>2 DEF OnceInv

\* A row with other values in the title only, or no row any more.
SameOutcome(f) ==
  \/ row'[f] = row[f]
  \/ row'[f] = None
  \/ /\ row[f] # None
     /\ row'[f].upload = row[f].upload
     /\ row'[f].processing_status = row[f].processing_status
     /\ row'[f].scan_details = row[f].scan_details
     /\ row'[f].metadata = row[f].metadata
     /\ row'[f].requires_attention = row[f].requires_attention

LEMMA OnceNext == TypeInv /\ IndInv /\ OnceInv /\ [Next]_vars => OnceInv'
<1> SUFFICES ASSUME TypeInv, IndInv, OnceInv, [Next]_vars PROVE OnceInv'
  OBVIOUS
<1> USE NoneAssumption
<1>0. /\ row \in [Files -> Row \cup {None}]
      /\ alerts \in [Files -> Seq(Alert)]
      /\ queue \in [Files -> Nat] /\ redeliveries \in Nat
      /\ req \in [Requests -> Request]
      /\ task \in [Workers -> Task]
  BY BoundAssumption DEF TypeInv, TypeOK
\* A step of request r that treats no row: it changes titles at most, and goes
\* on with a POST only if that has a committed row.
<1>e. ASSUME NEW r \in Requests,
             UNCHANGED <<alerts, queue, redeliveries, task>>,
             \A f \in Files : SameOutcome(f),
             \A q \in Requests \ {r} : req'[q] = req[q],
             Active(r)' /\ req'[r].op = "create" =>
               Committed(r) /\ Committed(r)' /\ req'[r].file = req[r].file
      PROVE  OnceInv'
  <2>1. OneCoherentOutcome'
    BY <1>e DEF OnceInv, OneCoherentOutcome, SameOutcome
  <2>2. AtMostOneTask'
    BY <1>e DEF OnceInv, AtMostOneTask, Active, Committed, At
  <2>3. CreateOK'
    BY <1>e DEF OnceInv, CreateOK, Active, Undecided, Committed, At
  <2>4. UploadedIsUntreated'
    BY <1>e DEF OnceInv, UploadedIsUntreated, Untreated, SameOutcome
  <2>5. DeliveredOnce'
    <3>1. ASSUME NEW w \in Workers, ~TaskAt(w, "idle") PROVE task[w].file \in Files
      BY <3>1 DEF TypeInv, TaskOK
    <3>2. QED
      BY <1>e, <3>1 DEF OnceInv, DeliveredOnce, Loaded, TaskAt, SameOutcome
  <2>6. QED
    BY <2>1, <2>2, <2>3, <2>4, <2>5 DEF OnceInv
\* A step of worker w that ends its task or goes on with it.
<1>f. ASSUME NEW w \in Workers,
             UNCHANGED <<row, alerts, queue, redeliveries, req>>,
             \A v \in Workers \ {w} : task'[v] = task[v],
             \/ task'[w].pc = "idle" /\ task'[w].file = None
             \/ /\ ~TaskAt(w, "idle") /\ task'[w].file = task[w].file
                /\ Loaded(w)' =>
                     \/ Loaded(w) /\ task'[w].base = task[w].base
                     \/ row[task[w].file] # None /\ task'[w].base = row[task[w].file]
      PROVE  OnceInv'
  <2>0. ASSUME NEW v \in Workers, ~TaskAt(v, "idle") PROVE task[v].file \in Files
    BY <2>0 DEF TypeInv, TaskOK
  <2>1. OneCoherentOutcome' /\ CreateOK' /\ UploadedIsUntreated'
    BY <1>f DEF OnceInv, OneCoherentOutcome, CreateOK, UploadedIsUntreated, Active,
                Undecided, Committed, At
  <2>2. AtMostOneTask'
    BY <1>f, <2>0 DEF OnceInv, AtMostOneTask, Active
  <2>3. DeliveredOnce'
    <3> SUFFICES ASSUME redeliveries = 0, NEW v \in Workers, ~TaskAt(v, "idle")'
                 PROVE  /\ alerts[task'[v].file] = <<>>
                        /\ Loaded(v)' =>
                             /\ Untreated(task'[v].base)
                             /\ row[task'[v].file] # None =>
                                  row[task'[v].file].upload = task'[v].base.upload
      BY <1>f DEF OnceInv, DeliveredOnce, TaskAt, Loaded, Untreated
    <3>1. CASE v # w
      BY <1>f, <3>1 DEF OnceInv, DeliveredOnce, TaskAt, Loaded
    <3>2. CASE v = w
      <4>1. ~TaskAt(w, "idle") /\ task'[w].file = task[w].file /\ task[w].file \in Files
        BY <1>f, <2>0, <3>2 DEF TaskAt
      <4>2. alerts[task[w].file] = <<>>
        BY <4>1 DEF OnceInv, DeliveredOnce
      <4>3. row[task[w].file] # None => Untreated(row[task[w].file])
        BY <4>1, <4>2 DEF OnceInv, UploadedIsUntreated, IndInv, StatusMatchesAlerts
      <4>4. QED
        BY <1>f, <3>2, <4>1, <4>2, <4>3 DEF OnceInv, DeliveredOnce, TaskAt, Loaded
    <3>3. QED
      BY <3>1, <3>2
  <2>4. QED
    BY <2>1, <2>2, <2>3 DEF OnceInv
<1>g. ASSUME NEW w \in Workers, TaskEnds(w),
             UNCHANGED <<row, alerts, queue, redeliveries, req>>
      PROVE  OnceInv'
  BY <1>0, <1>f, <1>g, TaskEndsFacts
\* A handler that answers, and one that begins or goes on with something else
\* than a POST.
<1>h. ASSUME NEW r \in Requests, NEW code, Answer(r, code),
             UNCHANGED <<row, alerts, queue, redeliveries, task>>
      PROVE  OnceInv'
  BY <1>0, <1>e, <1>h, AnswerFacts DEF Active, SameOutcome
<1>i. ASSUME NEW r \in Requests, NEW op \in Op \ {"create"}, NEW pc, NEW f, NEW obj,
             NEW title, NEW code,
             Refuse(r, op, f, code) \/ Begin(r, op, pc, f, obj, title),
             UNCHANGED <<row, alerts, queue, redeliveries, task>>
      PROVE  OnceInv'
  <2>1. \A q \in Requests \ {r} : req'[q] = req[q]
    BY <1>0, <1>i, RefuseFacts, BeginFacts
  <2>2. req'[r].op # "create"
    BY <1>0, <1>i, RefuseFacts, BeginFacts
  <2>3. QED
    BY <1>e, <1>i, <2>1, <2>2 DEF SameOutcome
<1>j. ASSUME NEW r \in Requests, NEW pc, Goto(r, pc), req[r].op # "create",
             UNCHANGED <<row, alerts, queue, redeliveries, task>>
      PROVE  OnceInv'
  BY <1>0, <1>e, <1>j, GotoFacts DEF SameOutcome
<1>1. ASSUME NEW r \in Requests, NEW f \in Files, NEW title \in Titles,
             NEW upload \in Uploads, CreateSave(r, f, title, upload)
      PROVE  OnceInv'
  <2>1. f \notin used /\ UNCHANGED <<row, alerts, queue, redeliveries, task>>
    BY <1>1 DEF CreateSave
  <2>2. queue[f] = 0 /\ \A w \in Workers : task[w].file # f
    BY <2>1 DEF IndInv, FreshInv, Untouched
  <2>3. /\ \A q \in Requests \ {r} : req'[q] = req[q]
        /\ req'[r].op = "create" /\ req'[r].file = f
        /\ \/ req'[r].pc \in {"done", "discard"}
           \/ req'[r].pc = "insert" /\ req'[r].obj = NewRow(title, upload)
    BY <1>0, <1>1, RefuseFacts, BeginFacts DEF CreateSave, CreateNext
  <2>4. Untreated(NewRow(title, upload))
    BY DEF Untreated, NewRow
  <2>5. CreateOK'
    BY <2>3, <2>4 DEF OnceInv, CreateOK, Active, Undecided, Committed, At, Untreated
  <2>6. AtMostOneTask'
    BY <2>1, <2>2, <2>3 DEF OnceInv, AtMostOneTask, Active
  <2>7. OneCoherentOutcome' /\ UploadedIsUntreated' /\ DeliveredOnce'
    BY <2>1 DEF OnceInv, OneCoherentOutcome, UploadedIsUntreated, DeliveredOnce,
                TaskAt, Loaded
  <2>8. QED
    BY <2>5, <2>6, <2>7 DEF OnceInv
<1>2. ASSUME NEW r \in Requests, CreateDiscard(r)
      PROVE  OnceInv'
  BY <1>2, <1>h DEF CreateDiscard
<1>3. ASSUME NEW r \in Requests, CreateInsert(r)
      PROVE  OnceInv'
  <2> DEFINE f == req[r].file
  <2>1. /\ At(r, "create", "insert") /\ f \in Files
        /\ UNCHANGED <<alerts, queue, redeliveries, task>>
    BY <1>3 DEF CreateInsert, TypeInv, SessionOK, At
  <2>2. /\ row[f] = None /\ \A w \in Workers : task[w].file # f
        /\ Untreated(req[r].obj)
    BY <2>1 DEF IndInv, CreateInv, Undecided, Untouched, OnceInv, CreateOK
  <2>3. PICK applied \in BOOLEAN, raised \in BOOLEAN :
          /\ row' = IF applied THEN [row EXCEPT ![f] = req[r].obj] ELSE row
          /\ IF raised THEN Answer(r, "500") ELSE CreateGoto(r, "inserted", req[r].obj)
    BY <1>3 DEF CreateInsert
  <2>4. /\ \A q \in Requests \ {r} : req'[q] = req[q]
        /\ req'[r].op = "create" /\ req'[r].file = f /\ req'[r].pc \in {"done", "refresh"}
    BY <1>0, <2>1, <2>3, AnswerFacts, CreateGotoFacts DEF At, CreateNext
  <2>5. /\ \A g \in Files \ {f} : row'[g] = row[g]
        /\ row'[f] # None => row'[f] = req[r].obj
    BY <1>0, <2>1, <2>2, <2>3
  <2>6. OneCoherentOutcome' /\ UploadedIsUntreated'
    BY <2>1, <2>2, <2>5 DEF OnceInv, OneCoherentOutcome, UploadedIsUntreated, Untreated
  <2>7. DeliveredOnce'
    BY <2>1, <2>2, <2>5 DEF OnceInv, DeliveredOnce, TaskAt, Loaded, TypeInv, TaskOK
  <2>8. AtMostOneTask' /\ CreateOK'
    BY <2>1, <2>4 DEF OnceInv, AtMostOneTask, CreateOK, Active, Undecided,
                      Committed, At
  <2>9. QED
    BY <2>6, <2>7, <2>8 DEF OnceInv
<1>4. ASSUME NEW r \in Requests, CreateRefresh(r)
      PROVE  OnceInv'
  <2>1. /\ At(r, "create", "refresh")
        /\ UNCHANGED <<row, alerts, queue, redeliveries, task>>
    BY <1>4 DEF CreateRefresh
  <2>2. CASE Answer(r, "500")
    BY <1>h, <2>1, <2>2
  <2>3. CASE CreateGoto(r, "refreshed", row[req[r].file])
    <3>1. /\ \A q \in Requests \ {r} : req'[q] = req[q]
          /\ req'[r].op = "create" /\ req'[r].pc = "enqueue"
          /\ req'[r].file = req[r].file
      BY <1>0, <2>1, <2>3, CreateGotoFacts DEF At, CreateNext
    <3>2. QED
      BY <1>e, <2>1, <3>1 DEF Committed, At, SameOutcome
  <2>4. QED
    BY <1>4, <2>2, <2>3 DEF CreateRefresh
<1>5. ASSUME NEW r \in Requests, CreateEnqueue(r)
      PROVE  OnceInv'
  <2> DEFINE f == req[r].file
  <2>1. /\ At(r, "create", "enqueue") /\ f \in Files
        /\ UNCHANGED <<row, alerts, redeliveries, task>>
    BY <1>5 DEF CreateEnqueue, TypeInv, SessionOK, At
  <2>2. /\ alerts[f] = <<>> /\ queue[f] = 0
        /\ \A w \in Workers : task[w].file # f
        /\ \A q \in Requests \ {r} : Committed(q) => req[q].file # f
    BY <2>1 DEF IndInv, CreateInv, Committed
  <2>3. ASSUME NEW q \in Requests \ {r}, Active(q), req[q].op = "create"
        PROVE  req[q].file # f
    <3>1. Undecided(q) => Untouched(req[q].file, {q})
      BY DEF IndInv, CreateInv
    <3>2. QED
      BY <2>1, <2>2, <2>3, <3>1 DEF OnceInv, CreateOK, Untouched, At
  <2>4. /\ \A g \in Files \ {f} : queue'[g] = queue[g]
        /\ queue'[f] \in {0, 1}
    BY <1>0, <1>5, <2>1, <2>2 DEF CreateEnqueue
  <2>5. /\ \A q \in Requests \ {r} : req'[q] = req[q]
        /\ req'[r].op = "create" /\ req'[r].pc = "done"
    BY <1>0, <1>5, <2>1, AnswerFacts, CreateGotoFacts DEF CreateEnqueue, At, CreateNext
  <2>6. AtMostOneTask'
    BY <2>1, <2>2, <2>3, <2>4, <2>5 DEF OnceInv, AtMostOneTask, Active
  <2>7. CreateOK'
    BY <2>5 DEF OnceInv, CreateOK, Active, Undecided, Committed, At
  <2>8. OneCoherentOutcome' /\ UploadedIsUntreated' /\ DeliveredOnce'
    BY <2>1, <2>2, <2>4 DEF OnceInv, OneCoherentOutcome, UploadedIsUntreated,
                            DeliveredOnce, TaskAt, Loaded
  <2>9. QED
    BY <2>6, <2>7, <2>8 DEF OnceInv
<1>6. ASSUME NEW r \in Requests, NEW f \in Files, NEW title \in Titles,
             PatchGet(r, f, title)
      PROVE  OnceInv'
  BY <1>6, <1>i DEF PatchGet, Op
<1>7. ASSUME NEW r \in Requests, PatchCommit(r)
      PROVE  OnceInv'
  <2> DEFINE f == req[r].file
             old == req[r].obj
             new == [old EXCEPT !.title = req[r].title]
  <2>1. /\ At(r, "patch", "commit") /\ f \in Files
        /\ old \in Row /\ req[r].title \in Titles
        /\ UNCHANGED <<alerts, queue, redeliveries, task>>
    BY <1>7 DEF PatchCommit, At, TypeInv, SessionOK
  <2>2. PICK applied \in BOOLEAN, raised \in BOOLEAN :
          /\ CommitEnds(PatchMayCommit(f, old, new), applied, raised)
          /\ row' = IF applied /\ new # old
                      THEN [row EXCEPT ![f] = Merge(@, old, new)] ELSE row
          /\ IF raised THEN Answer(r, "500") ELSE Goto(r, "reread")
    BY <1>7 DEF PatchCommit
  <2>3. /\ \A q \in Requests \ {r} : req'[q] = req[q]
        /\ req'[r].op = "patch"
    BY <1>0, <2>1, <2>2, AnswerFacts, GotoFacts DEF At
  <2>4. CASE row' = row
    BY <1>e, <2>1, <2>3, <2>4 DEF SameOutcome
  <2>5. CASE row[f] \in Row /\ row' = [row EXCEPT ![f] = Merge(@, old, new)]
    <3>1. /\ row'[f] = Merge(row[f], old, new)
          /\ \A g \in Files \ {f} : row'[g] = row[g]
      BY <1>0, <2>1, <2>5
    <3>2. SameOutcome(f)
      BY <2>1, <2>5, <3>1, PatchColumns DEF SameOutcome
    <3>3. \A g \in Files : SameOutcome(g)
      BY <3>1, <3>2 DEF SameOutcome
    <3>4. QED
      BY <1>e, <2>1, <2>3, <3>3
  <2>6. QED
    BY <1>0, <2>1, <2>2, <2>4, <2>5 DEF CommitEnds, PatchMayCommit
<1>8. ASSUME NEW r \in Requests, PatchReread(r)
      PROVE  OnceInv'
  BY <1>8, <1>h DEF PatchReread
<1>9. ASSUME NEW r \in Requests, NEW f \in Files, DeleteGet(r, f)
      PROVE  OnceInv'
  BY <1>9, <1>i DEF DeleteGet, Op
<1>10. ASSUME NEW r \in Requests, DeleteUnlink(r)
       PROVE  OnceInv'
  BY <1>10, <1>h, <1>j DEF DeleteUnlink, At
<1>11. ASSUME NEW r \in Requests, DeleteCommit(r)
       PROVE  OnceInv'
  <2>1. PICK applied, raised \in BOOLEAN :
          /\ row' = IF applied THEN [row EXCEPT ![req[r].file] = None] ELSE row
          /\ Answer(r, IF raised THEN "500" ELSE "204")
    BY <1>11 DEF DeleteCommit
  <2>2. \A f \in Files : SameOutcome(f)
    BY <1>0, <2>1 DEF SameOutcome
  <2>3. /\ \A q \in Requests \ {r} : req'[q] = req[q]
        /\ req'[r].pc = "done"
    BY <1>0, <2>1, AnswerFacts
  <2>4. QED
    BY <1>e, <1>11, <2>2, <2>3 DEF DeleteCommit, Active
<1>12. ASSUME NEW r \in Requests, NEW f \in Files, DownloadGet(r, f)
       PROVE  OnceInv'
  BY <1>12, <1>i DEF DownloadGet, Op
<1>13. ASSUME NEW r \in Requests, DownloadExists(r) \/ DownloadSend(r)
       PROVE  OnceInv'
  BY <1>13, <1>h, <1>j DEF DownloadExists, DownloadSend, At
<1>14. ASSUME NEW w \in Workers, NEW f \in Files, TaskDeliver(w, f)
       PROVE  OnceInv'
  <2>1. /\ queue[f] > 0 /\ UNCHANGED <<row, alerts, redeliveries, req>>
        /\ \A v \in Workers \ {w} : task'[v] = task[v]
        /\ task'[w].pc = "load" /\ task'[w].file = f
        /\ queue'[f] = queue[f] - 1
        /\ \A g \in Files \ {f} : queue'[g] = queue[g]
    BY <1>0, <1>14 DEF TaskDeliver, Task
  <2>2. redeliveries = 0 =>
          /\ alerts[f] = <<>> /\ queue'[f] = 0
          /\ \A v \in Workers : task[v].file # f
          /\ \A r \in Requests :
               Active(r) /\ req[r].op = "create" => req[r].file # f
    BY <1>0, <2>1 DEF OnceInv, AtMostOneTask, DeliveredOnce
  <2>3. AtMostOneTask'
    BY <2>1, <2>2 DEF OnceInv, AtMostOneTask, Active
  <2>4. DeliveredOnce'
    BY <2>1, <2>2 DEF OnceInv, DeliveredOnce, TaskAt, Loaded
  <2>5. OneCoherentOutcome' /\ CreateOK' /\ UploadedIsUntreated'
    BY <2>1 DEF OnceInv, OneCoherentOutcome, CreateOK, UploadedIsUntreated, Active,
                Undecided, Committed, At
  <2>6. QED
    BY <2>3, <2>4, <2>5 DEF OnceInv
<1>15. ASSUME NEW w \in Workers, TaskLoad(w)
       PROVE  OnceInv'
  <2>1. CASE row[task[w].file] # None
             /\ task' = [task EXCEPT ![w].pc = "check", ![w].base = row[task[w].file]]
    <3>1. /\ \A v \in Workers \ {w} : task'[v] = task[v]
          /\ task'[w].file = task[w].file /\ task'[w].base = row[task[w].file]
      BY <1>0, <2>1 DEF Task
    <3>2. QED
      BY <1>15, <1>f, <2>1, <3>1 DEF TaskLoad, TaskAt
  <2>2. QED
    BY <1>15, <1>g, <2>1 DEF TaskLoad
<1>16. ASSUME NEW w \in Workers, TaskCheck(w) \/ (TaskExtract(w) /\ ~TaskEnds(w))
       PROVE  OnceInv'
  <2>1. /\ \A v \in Workers \ {w} : task'[v] = task[v]
        /\ task'[w].file = task[w].file /\ task'[w].base = task[w].base
    BY <1>0, <1>16 DEF TaskCheck, TaskExtract, TaskGoto, Task
  <2>2. QED
    BY <1>16, <1>f, <2>1 DEF TaskCheck, TaskExtract, TaskAt, Loaded
<1>17. ASSUME NEW w \in Workers, TaskExtract(w), TaskEnds(w)
       PROVE  OnceInv'
  BY <1>17, <1>g DEF TaskExtract
<1>18. ASSUME NEW w \in Workers, TaskCommit(w)
       PROVE  OnceInv'
  <2> DEFINE f == task[w].file
             old == task[w].base
             found == task[w].found
             new == Outcome(old, found)
             merged == Merge(row[f], old, new)
  <2>1. /\ TaskAt(w, "commit") /\ f \in Files /\ old \in Row /\ found \in BOOLEAN
        /\ TaskEnds(w) /\ UNCHANGED <<queue, redeliveries, req>>
    BY <1>0, <1>18 DEF TaskCommit, TaskAt, TypeInv, TaskOK, Task
  <2>2. /\ \A v \in Workers \ {w} : task'[v] = task[v]
        /\ task'[w].pc = "idle" /\ task'[w].file = None
    BY <1>0, <2>1, TaskEndsFacts
  <2>3. /\ new \in Row /\ new.upload = old.upload
        /\ new.processing_status = IF found THEN "processed" ELSE "failed"
        /\ new.requires_attention = Scan(old.upload).requires_attention
        /\ new.scan_details = IF found THEN Scan(old.upload).details ELSE {"missing"}
        /\ new.metadata = IF found THEN Extract(old.upload) ELSE old.metadata
    BY <2>1, OutcomeFacts, OutcomeColumns
  <2>4. PICK applied \in BOOLEAN, raised \in BOOLEAN :
          /\ CommitEnds(TaskMayCommit(f), applied, raised)
          /\ row' = IF applied THEN [row EXCEPT ![f] = Merge(@, old, new)] ELSE row
          /\ alerts' = IF applied THEN [alerts EXCEPT ![f] = Append(@, AlertFor(new))]
                                  ELSE alerts
    BY <1>18 DEF TaskCommit, TaskSaves
  <2>5. redeliveries = 0 =>
          /\ alerts[f] = <<>> /\ Untreated(old)
          /\ row[f] # None => Untreated(row[f]) /\ row[f].upload = old.upload
    BY <2>1 DEF OnceInv, DeliveredOnce, UploadedIsUntreated, IndInv,
                StatusMatchesAlerts, TaskAt, Loaded
  <2>6. ~applied => OnceInv'
    BY <1>g, <2>1, <2>4
  <2>7. applied => row[f] \in Row
    BY <1>0, <2>1, <2>4 DEF CommitEnds, TaskMayCommit
  <2>8. redeliveries = 0 /\ applied =>
          /\ merged.upload = row[f].upload
          /\ merged.processing_status = new.processing_status
          /\ merged.scan_details = new.scan_details
          /\ merged.metadata = new.metadata
          /\ merged.requires_attention = new.requires_attention
    BY <2>1, <2>5, <2>7, MergeOutcome
  <2>9. applied => merged \in Row /\ merged.processing_status # "uploaded"
    <3>1. /\ old.processing_status # "processing"
          /\ old.processing_status # "uploaded" => alerts[f] # <<>>
      BY <2>1 DEF IndInv, TaskInv, TaskAt
    <3> HIDE DEF old, new
    <3>2. QED
      BY <2>1, <2>3, <2>7, <3>1, MergeFacts DEF IndInv, StatusMatchesAlerts
  <2> HIDE DEF old, new, merged
  <2>10. CASE applied
    <3>1. /\ \A g \in Files \ {f} : row'[g] = row[g] /\ alerts'[g] = alerts[g]
          /\ row'[f] = merged /\ alerts'[f] = Append(alerts[f], AlertFor(new))
      BY <1>0, <2>1, <2>4, <2>10 DEF merged
    <3>2. redeliveries = 0 => alerts'[f] = <<AlertFor(new)>>
      BY <2>5, <3>1, AppendToEmpty
    <3>3. /\ ~found => AlertFor(new) = [level |-> "critical", details |-> {}]
          /\ found => AlertFor(new).level = IF new.requires_attention
                                              THEN "warning" ELSE "info"
      BY <2>3, AlertFacts
    <3>4. OneCoherentOutcome'
      <4>1. redeliveries = 0 =>
              /\ merged.processing_status = "processed"
                   => /\ merged.scan_details = Scan(merged.upload).details
                      /\ merged.metadata = Extract(merged.upload)
                      /\ Len(alerts'[f]) = 1
                      /\ alerts'[f][1].level = IF merged.requires_attention
                                                 THEN "warning" ELSE "info"
              /\ merged.processing_status = "failed"
                   => /\ merged.scan_details = {"missing"} /\ merged.metadata = {}
                      /\ alerts'[f] = <<[level |-> "critical", details |-> {}]>>
        <5>1. redeliveries = 0 => Len(alerts'[f]) = 1 /\ alerts'[f][1] = AlertFor(new)
          BY <3>2
        <5>2. redeliveries = 0 => merged.upload = old.upload /\ old.metadata = {}
          BY <2>5, <2>7, <2>8, <2>10 DEF Untreated
        <5>3. QED
          BY <2>3, <2>8, <2>10, <3>2, <3>3, <5>1, <5>2
      <4>2. ASSUME redeliveries' = 0, NEW g \in Files, row'[g] # None
            PROVE  /\ row'[g].processing_status = "processed"
                        => /\ row'[g].scan_details = Scan(row'[g].upload).details
                           /\ row'[g].metadata = Extract(row'[g].upload)
                           /\ Len(alerts'[g]) = 1
                           /\ alerts'[g][1].level = IF row'[g].requires_attention
                                                      THEN "warning" ELSE "info"
                   /\ row'[g].processing_status = "failed"
                        => /\ row'[g].scan_details = {"missing"}
                           /\ row'[g].metadata = {}
                           /\ alerts'[g] = <<[level |-> "critical", details |-> {}]>>
        <5>1. redeliveries = 0
          BY <2>1, <4>2
        <5>2. CASE g = f
          BY <3>1, <4>1, <5>1, <5>2
        <5>3. CASE g # f
          <6>1. row'[g] = row[g] /\ alerts'[g] = alerts[g] /\ row[g] # None
            BY <3>1, <4>2, <5>3
          <6>2. QED
            BY <5>1, <6>1 DEF OnceInv, OneCoherentOutcome
        <5>4. QED
          BY <5>2, <5>3
      <4>3. QED
        BY <4>2 DEF OneCoherentOutcome
    <3>5. AtMostOneTask' /\ CreateOK'
      BY <2>1, <2>2 DEF OnceInv, AtMostOneTask, CreateOK, Active, Undecided,
                        Committed, At
    <3>6. UploadedIsUntreated'
      BY <2>9, <2>10, <3>1 DEF OnceInv, UploadedIsUntreated, Untreated
    <3>7. DeliveredOnce'
      <4>1. redeliveries = 0 => queue[f] = 0 /\ \A v \in Workers \ {w} : task[v].file # f
        BY <2>1 DEF OnceInv, AtMostOneTask
      <4>2. \A v \in Workers : ~TaskAt(v, "idle") => task[v].file \in Files
        BY DEF TypeInv, TaskOK
      <4>3. QED
        BY <2>1, <2>2, <3>1, <4>1, <4>2 DEF OnceInv, DeliveredOnce, TaskAt, Loaded
    <3>8. QED
      BY <3>4, <3>5, <3>6, <3>7 DEF OnceInv
  <2>11. QED
    BY <2>6, <2>10
<1>19. ASSUME NEW f \in Files, Redeliver(f)
       PROVE  OnceInv'
  <2>1. redeliveries' # 0 /\ UNCHANGED <<row, req>>
    BY <1>0, <1>19 DEF Redeliver
  <2>2. QED
    BY <2>1 DEF OnceInv, OneCoherentOutcome, AtMostOneTask, CreateOK,
                UploadedIsUntreated, DeliveredOnce, Active, Undecided, Committed, At
<1>20. ASSUME NEW f \in Files, LoseMessage(f)
       PROVE  OnceInv'
  <2>1. /\ queue[f] > 0 /\ UNCHANGED <<row, alerts, redeliveries, req, task>>
        /\ queue'[f] = queue[f] - 1
        /\ \A g \in Files \ {f} : queue'[g] = queue[g]
    BY <1>0, <1>20 DEF LoseMessage
  <2>2. \A g \in Files : queue'[g] \in Nat /\ queue'[g] <= queue[g]
    BY <1>0, <2>1
  <2>3. AtMostOneTask'
    BY <1>0, <2>1, <2>2 DEF OnceInv, AtMostOneTask, Active
  <2>4. DeliveredOnce'
    BY <1>0, <2>1, <2>2 DEF OnceInv, DeliveredOnce, TaskAt, Loaded
  <2>5. OneCoherentOutcome' /\ CreateOK' /\ UploadedIsUntreated'
    BY <2>1 DEF OnceInv, OneCoherentOutcome, CreateOK, UploadedIsUntreated, Active,
                Undecided, Committed, At
  <2>6. QED
    BY <2>3, <2>4, <2>5 DEF OnceInv
<1>21. ASSUME NEW w \in Workers, WorkerCrash(w)
       PROVE  OnceInv'
  BY <1>21, <1>g DEF WorkerCrash
<1>22. CASE ApiCrash
  <2>1. /\ UNCHANGED <<row, alerts, queue, redeliveries, task>>
        /\ \A r \in Requests : req'[r] = req[r] \/ req'[r].pc = "idle"
    BY <1>22 DEF ApiCrash, IdleRequest, Handler
  <2>2. QED
    BY <2>1 DEF OnceInv, OneCoherentOutcome, AtMostOneTask, CreateOK,
                UploadedIsUntreated, DeliveredOnce, TaskAt, Loaded, Active, Undecided,
                Committed, At
<1>23. CASE UNCHANGED vars
  BY <1>23 DEF vars, OnceInv, OneCoherentOutcome, AtMostOneTask, CreateOK,
               UploadedIsUntreated, DeliveredOnce, TaskAt, Loaded, Active, Undecided,
               Committed, At
<1>24. QED
  BY <1>1, <1>2, <1>3, <1>4, <1>5, <1>6, <1>7, <1>8, <1>9, <1>10, <1>11, <1>12, <1>13,
     <1>14, <1>15, <1>16, <1>17, <1>18, <1>19, <1>20, <1>21, <1>22, <1>23
     DEF Next, RequestArrives, HandlerStep, TaskStep, Environment

\* OnceInv holds in every state the backend can reach.
THEOREM OnceInductive == Spec => []OnceInv
BY TypeInit, TypeNext, IndInit, IndNext, OnceInit, OnceNext, PTL DEF Spec

\* As long as no message is delivered twice, a settled file has one alert, and
\* scan result, metadata and alert belong to the same outcome, in spite of
\* crashes, lost commits and PATCHes between the task's read and its commit.
THEOREM OutcomeIsCoherent == Spec => []OneCoherentOutcome
<1>1. OnceInv => OneCoherentOutcome
  BY DEF OnceInv
<1>2. QED
  BY OnceInductive, <1>1, PTL

\* No message and no task of a file ever has a twin, nor a successor once the
\* file has its alert, unless Redis made it.
THEOREM OneTaskForEachUpload == Spec => []OneTaskPerUpload
<1>1. TypeOK /\ OnceInv => OneTaskPerUpload
  <2> SUFFICES ASSUME TypeOK, OnceInv PROVE OneTaskPerUpload
    OBVIOUS
  <2>1. AtMostOneTask
    BY DEF OnceInv
  <2>2. ASSUME redeliveries = 0, NEW f \in Files, alerts[f] # <<>>
        PROVE  queue[f] = 0 /\ \A w \in Workers : TaskAt(w, "idle") \/ task[w].file # f
    BY <2>2 DEF OnceInv, DeliveredOnce, TypeOK
  <2>3. QED
    BY <2>1, <2>2 DEF OneTaskPerUpload, NoneAfterAlert
<1>2. QED
  BY OnceInductive, TypeCorrect, <1>1, PTL

-----------------------------------------------------------------------------
(* The life cycle of a file.                                               *)

\* The levels of the alerts, as Lifecycle sees them.
LevelsOf(s) == [i \in DOMAIN s |-> s[i].level]

LEMMA LevelsOfType ==
  ASSUME NEW s \in Seq(Alert)
  PROVE  /\ LevelsOf(s) \in Seq(AlertLevel) /\ Len(LevelsOf(s)) = Len(s)
         /\ \A i \in 1..Len(s) : LevelsOf(s)[i] = s[i].level
<1>1. Len(s) \in Nat /\ DOMAIN s = 1..Len(s) /\ \A i \in 1..Len(s) : s[i] \in Alert
  OBVIOUS
<1>2. LevelsOf(s) \in [1..Len(s) -> AlertLevel]
  BY <1>1 DEF LevelsOf, Alert
<1>3. LevelsOf(s) \in Seq(AlertLevel)
  BY <1>1, <1>2, SeqDef
<1>4. DOMAIN LevelsOf(s) = 1..Len(s)
  BY <1>2
<1>5. DOMAIN LevelsOf(s) = 1..Len(LevelsOf(s)) /\ Len(LevelsOf(s)) \in Nat
  BY <1>3, LenProperties
<1>6. Len(LevelsOf(s)) = Len(s)
  BY <1>1, <1>4, <1>5
<1>7. \A i \in 1..Len(s) : LevelsOf(s)[i] = s[i].level
  BY <1>1 DEF LevelsOf
<1>8. QED
  BY <1>3, <1>6, <1>7

LEMMA LevelsOfAppend ==
  ASSUME NEW s \in Seq(Alert), NEW a \in Alert
  PROVE  LevelsOf(Append(s, a)) = Append(LevelsOf(s), a.level)
<1> DEFINE long == Append(s, a)
           levels == Append(LevelsOf(s), a.level)
<1>1. /\ Len(s) \in Nat /\ long \in Seq(Alert) /\ Len(long) = Len(s) + 1
      /\ \A i \in 1..Len(long) : long[i] = IF i <= Len(s) THEN s[i] ELSE a
  OBVIOUS
<1>2. /\ LevelsOf(s) \in Seq(AlertLevel) /\ Len(LevelsOf(s)) = Len(s)
      /\ \A i \in 1..Len(s) : LevelsOf(s)[i] = s[i].level
  BY LevelsOfType
<1>3. a.level \in AlertLevel
  BY DEF Alert
<1>4. /\ levels \in Seq(AlertLevel) /\ Len(levels) = Len(s) + 1
      /\ \A i \in 1..Len(long) :
           levels[i] = IF i <= Len(s) THEN LevelsOf(s)[i] ELSE a.level
  BY <1>1, <1>2, <1>3
<1> HIDE DEF long, levels
<1>5. /\ LevelsOf(long) \in Seq(AlertLevel) /\ Len(LevelsOf(long)) = Len(long)
      /\ \A i \in 1..Len(long) : LevelsOf(long)[i] = long[i].level
  BY <1>1, LevelsOfType
<1>6. \A i \in 1..Len(long) : LevelsOf(long)[i] = levels[i]
  BY <1>1, <1>2, <1>4, <1>5
<1>7. LevelsOf(long) = levels
  BY <1>1, <1>4, <1>5, <1>6, SeqEqual
<1>8. QED
  BY <1>7 DEF long, levels

LEMMA LifecycleInit == Init => Lifecycle!Init
<1> SUFFICES ASSUME Init PROVE Lifecycle!Init
  OBVIOUS
<1>1. \A f \in Files : Phase(f) = "absent" /\ LevelsOf(alerts[f]) = <<>>
  BY DEF Init, Phase, LevelsOf
<1>2. redeliveries = 0
  BY DEF Init
<1>3. QED
  BY <1>1, <1>2 DEF Lifecycle!Init, LevelsOf

\* The five ways a step of the backend can look to Lifecycle.
LEMMA LifecycleStutter ==
  ASSUME UNCHANGED <<alerts, redeliveries>>, \A f \in Files : Phase(f)' = Phase(f)
  PROVE  UNCHANGED Lifecycle!vars
BY DEF Lifecycle!vars

LEMMA LifecycleUpload ==
  ASSUME NEW f \in Files, UNCHANGED <<alerts, redeliveries>>,
         \A g \in Files \ {f} : Phase(g)' = Phase(g),
         Phase(f) = "absent", Phase(f)' = "uploaded"
  PROVE  Lifecycle!Upload(f)
BY DEF Lifecycle!Upload

LEMMA LifecycleRemove ==
  ASSUME NEW f \in Files, UNCHANGED <<alerts, redeliveries>>,
         \A g \in Files \ {f} : Phase(g)' = Phase(g),
         Phase(f) = "uploaded", Phase(f)' = "gone"
  PROVE  Lifecycle!Remove(f)
BY DEF Lifecycle!Remove

LEMMA LifecycleDuplicate ==
  ASSUME UNCHANGED alerts, redeliveries' > 0, \A f \in Files : Phase(f)' = Phase(f)
  PROVE  Lifecycle!Duplicate
BY DEF Lifecycle!Duplicate

LEMMA LifecycleRaise ==
  ASSUME NEW f \in Files, NEW outcome \in {"processed", "failed"}, NEW a \in Alert,
         alerts \in [Files -> Seq(Alert)],
         outcome = "failed" <=> a.level = "critical",
         alerts' = [alerts EXCEPT ![f] = Append(@, a)], UNCHANGED redeliveries
  PROVE  Lifecycle!Raise(f, outcome, a.level)
<1>1. \A g \in Files \ {f} : LevelsOf(alerts'[g]) = LevelsOf(alerts[g])
  OBVIOUS
<1>2. LevelsOf(alerts'[f]) = Append(LevelsOf(alerts[f]), a.level)
  BY LevelsOfAppend
<1>3. [g \in Files |-> LevelsOf(alerts'[g])]
        = [[g \in Files |-> LevelsOf(alerts[g])]
             EXCEPT ![f] = Append(@, a.level)]
  BY <1>1, <1>2
<1>4. QED
  BY <1>3 DEF Lifecycle!Raise, LevelsOf

LEMMA LifecycleSettle ==
  ASSUME NEW f \in Files, NEW outcome \in {"processed", "failed"}, NEW level \in AlertLevel,
         Lifecycle!Raise(f, outcome, level), alerts[f] = <<>>,
         \A g \in Files \ {f} : Phase(g)' = Phase(g),
         Phase(f) = "uploaded", Phase(f)' = outcome
  PROVE  Lifecycle!Next
<1>1. LevelsOf(alerts[f]) = <<>>
  BY DEF LevelsOf
<1>2. [g \in Files |-> Phase(g)]' = [[g \in Files |-> Phase(g)] EXCEPT ![f] = outcome]
  OBVIOUS
<1>3. Lifecycle!Settle(f, outcome, level)
  BY <1>1, <1>2 DEF Lifecycle!Settle, LevelsOf
<1>4. outcome \in Lifecycle!Settled /\ level \in Lifecycle!Levels
  BY DEF Lifecycle!Settled, Lifecycle!Levels, AlertLevel
<1>5. QED
  BY <1>3, <1>4 DEF Lifecycle!Next

LEMMA LifecycleResettle ==
  ASSUME NEW f \in Files, NEW outcome \in {"processed", "failed"}, NEW level \in AlertLevel,
         Lifecycle!Raise(f, outcome, level), redeliveries > 0,
         \A g \in Files \ {f} : Phase(g)' = Phase(g),
         Phase(f) \in {"processed", "failed"}, Phase(f)' \in {Phase(f), outcome}
  PROVE  Lifecycle!Next
<1>1. \/ [g \in Files |-> Phase(g)]' = [[g \in Files |-> Phase(g)] EXCEPT ![f] = outcome]
      \/ [g \in Files |-> Phase(g)]' = [g \in Files |-> Phase(g)]
  OBVIOUS
<1>2. Lifecycle!Resettle(f, outcome, level)
  BY <1>1 DEF Lifecycle!Resettle, Lifecycle!Settled
<1>3. outcome \in Lifecycle!Settled /\ level \in Lifecycle!Levels
  BY DEF Lifecycle!Settled, Lifecycle!Levels, AlertLevel
<1>4. QED
  BY <1>2, <1>3 DEF Lifecycle!Next

LEMMA LifecycleNext ==
  TypeInv /\ IndInv /\ OnceInv /\ [Next]_vars => [Lifecycle!Next]_(Lifecycle!vars)
<1> SUFFICES ASSUME TypeInv, IndInv, OnceInv, [Next]_vars
             PROVE  [Lifecycle!Next]_(Lifecycle!vars)
  OBVIOUS
<1> USE NoneAssumption
<1>0. /\ row \in [Files -> Row \cup {None}]
      /\ alerts \in [Files -> Seq(Alert)]
      /\ queue \in [Files -> Nat] /\ redeliveries \in Nat
      /\ unlinked \subseteq Files
      /\ req \in [Requests -> Request]
      /\ task \in [Workers -> Task]
  BY BoundAssumption DEF TypeInv, TypeOK
<1>a. ASSUME UNCHANGED <<row, alerts, unlinked, redeliveries>>
      PROVE  UNCHANGED Lifecycle!vars
  BY <1>a, LifecycleStutter DEF Phase
<1>1. ASSUME NEW r \in Requests, RequestArrives(r)
      PROVE  UNCHANGED Lifecycle!vars
  BY <1>1, <1>a DEF RequestArrives, CreateSave, PatchGet, DeleteGet, DownloadGet
<1>2. ASSUME NEW r \in Requests,
             \/ CreateDiscard(r) \/ CreateRefresh(r) \/ CreateEnqueue(r)
             \/ PatchReread(r) \/ DownloadExists(r) \/ DownloadSend(r)
      PROVE  UNCHANGED Lifecycle!vars
  BY <1>2, <1>a DEF CreateDiscard, CreateRefresh, CreateEnqueue, PatchReread,
                    DownloadExists, DownloadSend
\* The commit of an insert uploads the file, one that fails is not seen.
<1>3. ASSUME NEW r \in Requests, CreateInsert(r)
      PROVE  Lifecycle!Next \/ UNCHANGED Lifecycle!vars
  <2>1. PICK f \in Files :
        /\ f = req[r].file /\ At(r, "create", "insert") /\ req[r].obj \in Row
        /\ UNCHANGED <<alerts, redeliveries, unlinked>>
    BY <1>3 DEF CreateInsert, TypeInv, SessionOK, At
  <2>2. row[f] = None /\ f \notin unlinked /\ req[r].obj.processing_status = "uploaded"
    BY <2>1 DEF IndInv, CreateInv, Undecided, Untouched
  <2>3. PICK applied \in BOOLEAN :
          row' = IF applied THEN [row EXCEPT ![f] = req[r].obj] ELSE row
    BY <1>3, <2>1 DEF CreateInsert
  <2>4. CASE applied
    <3>1. /\ \A g \in Files \ {f} : Phase(g)' = Phase(g)
          /\ Phase(f) = "absent" /\ Phase(f)' = "uploaded"
      BY <1>0, <2>1, <2>2, <2>3, <2>4 DEF Phase
    <3>2. Lifecycle!Upload(f)
      BY <2>1, <3>1, LifecycleUpload
    <3>3. QED
      BY <2>1, <3>2 DEF Lifecycle!Next
  <2>5. QED
    BY <1>a, <2>1, <2>3, <2>4
\* A PATCH changes no status, whatever the row it loaded says.
<1>4. ASSUME NEW r \in Requests, PatchCommit(r)
      PROVE  UNCHANGED Lifecycle!vars
  <2> DEFINE f == req[r].file
             old == req[r].obj
             new == [old EXCEPT !.title = req[r].title]
  <2>1. /\ f \in Files /\ old \in Row /\ req[r].title \in Titles
        /\ UNCHANGED <<alerts, redeliveries, unlinked>>
    BY <1>4 DEF PatchCommit, At, TypeInv, SessionOK
  <2>2. PICK applied \in BOOLEAN, raised \in BOOLEAN :
          /\ CommitEnds(PatchMayCommit(f, old, new), applied, raised)
          /\ row' = IF applied /\ new # old
                      THEN [row EXCEPT ![f] = Merge(@, old, new)] ELSE row
    BY <1>4 DEF PatchCommit
  <2>3. CASE row[f] \in Row /\ row' = [row EXCEPT ![f] = Merge(@, old, new)]
    <3>1. /\ row'[f] = Merge(row[f], old, new)
          /\ \A g \in Files \ {f} : row'[g] = row[g]
      BY <1>0, <2>1, <2>3
    <3>2. row'[f] \in Row /\ row'[f].processing_status = row[f].processing_status
      BY <2>1, <2>3, <3>1, PatchColumns
    <3>3. \A g \in Files : Phase(g)' = Phase(g)
      BY <2>1, <2>3, <3>1, <3>2 DEF Phase
    <3>4. QED
      BY <2>1, <3>3, LifecycleStutter
  <2>4. QED
    BY <1>0, <1>a, <2>1, <2>2, <2>3 DEF CommitEnds, PatchMayCommit
\* An unlink is not seen: the row is still there, or another DELETE has
\* unlinked the blob before.
<1>5. ASSUME NEW r \in Requests, DeleteUnlink(r)
      PROVE  UNCHANGED Lifecycle!vars
  <2>1. /\ At(r, "delete", "unlink") /\ unlinked' \in {unlinked, unlinked \cup {req[r].file}}
        /\ UNCHANGED <<row, alerts, redeliveries>>
    BY <1>5 DEF DeleteUnlink
  <2>2. row[req[r].file] # None \/ req[r].file \in unlinked
    BY <2>1 DEF IndInv, KnownInv, Known, Active, Undecided, At
  <2>3. \A g \in Files : Phase(g)' = Phase(g)
    BY <2>1, <2>2 DEF Phase
  <2>4. QED
    BY <2>1, <2>3, LifecycleStutter
\* A DELETE that commits removes an uploaded file, or finds it gone.
<1>6. ASSUME NEW r \in Requests, DeleteCommit(r)
      PROVE  Lifecycle!Next \/ UNCHANGED Lifecycle!vars
  <2>1. PICK f \in Files :
        /\ f = req[r].file /\ At(r, "delete", "commit")
        /\ UNCHANGED <<alerts, redeliveries, unlinked>>
    BY <1>6 DEF DeleteCommit, TypeInv, SessionOK, At
  <2>2. f \in unlinked
    BY <2>1 DEF IndInv, KnownInv
  <2>3. PICK applied \in BOOLEAN, raised \in BOOLEAN :
          /\ CommitEnds(DeleteAllowed(f), applied, raised)
          /\ row' = IF applied THEN [row EXCEPT ![f] = None] ELSE row
    BY <1>6, <2>1 DEF DeleteCommit
  <2>4. CASE applied /\ row[f] # None
    <3>1. alerts[f] = <<>>
      BY <2>3, <2>4 DEF CommitEnds, DeleteAllowed
    <3>2. row[f].processing_status = "uploaded"
      BY <2>1, <2>4, <3>1 DEF IndInv, StatusMatchesAlerts
    <3>3. /\ \A g \in Files \ {f} : Phase(g)' = Phase(g)
          /\ Phase(f) = "uploaded" /\ Phase(f)' = "gone"
      BY <1>0, <2>1, <2>2, <2>3, <2>4, <3>2 DEF Phase
    <3>4. Lifecycle!Remove(f)
      BY <2>1, <3>3, LifecycleRemove
    <3>5. QED
      BY <2>1, <3>4 DEF Lifecycle!Next
  <2>5. CASE ~applied \/ row[f] = None
    <3>1. row' = row
      BY <1>0, <2>3, <2>5
    <3>2. QED
      BY <1>a, <2>1, <3>1
  <2>6. QED
    BY <2>4, <2>5
<1>7. ASSUME NEW w \in Workers,
             \/ TaskLoad(w) \/ TaskCheck(w) \/ TaskExtract(w) \/ WorkerCrash(w)
             \/ \E f \in Files : TaskDeliver(w, f)
      PROVE  UNCHANGED Lifecycle!vars
  BY <1>7, <1>a DEF TaskLoad, TaskCheck, TaskExtract, WorkerCrash, TaskDeliver
\* The commit of a task settles an uploaded file; a settled one it finds only
\* after a second delivery.
<1>8. ASSUME NEW w \in Workers, TaskCommit(w)
      PROVE  Lifecycle!Next \/ UNCHANGED Lifecycle!vars
  <2>0. PICK f \in Files : f = task[w].file
    BY <1>8 DEF TaskCommit, TaskAt, TypeInv, TaskOK
  <2> DEFINE old == task[w].base
             found == task[w].found
             new == Outcome(old, found)
             merged == Merge(row[f], old, new)
  <2>1. /\ TaskAt(w, "commit") /\ old \in Row /\ found \in BOOLEAN
        /\ UNCHANGED <<redeliveries, unlinked>>
    BY <1>0, <1>8 DEF TaskCommit, TaskAt, TypeInv, TaskOK, Task
  <2>2. new \in Row /\ new.processing_status = IF found THEN "processed" ELSE "failed"
    BY <2>1, OutcomeFacts
  <2>3. PICK outcome \in {"processed", "failed"}, alert \in Alert :
        /\ outcome = new.processing_status /\ alert = AlertFor(new)
        /\ outcome = "failed" <=> alert.level = "critical"
    BY <2>2, AlertFacts, AlertForType
  <2>4. /\ old.processing_status # "processing"
        /\ old.processing_status # "uploaded" => alerts[f] # <<>>
    BY <2>0, <2>1 DEF IndInv, TaskInv, TaskAt
  <2>5. redeliveries = 0 => alerts[f] = <<>>
    BY <2>0, <2>1 DEF OnceInv, DeliveredOnce, TaskAt
  <2>6. PICK applied \in BOOLEAN, raised \in BOOLEAN :
          /\ CommitEnds(TaskMayCommit(f), applied, raised)
          /\ row' = IF applied THEN [row EXCEPT ![f] = Merge(@, old, new)] ELSE row
          /\ alerts' = IF applied THEN [alerts EXCEPT ![f] = Append(@, AlertFor(new))]
                                  ELSE alerts
    BY <1>8, <2>0 DEF TaskCommit, TaskSaves
  <2>7. CASE ~applied
    BY <1>a, <2>1, <2>6, <2>7
  <2>8. CASE applied
    <3>1. row[f] \in Row
      BY <1>0, <2>1, <2>6, <2>8 DEF CommitEnds, TaskMayCommit
    <3>2. /\ row' = [row EXCEPT ![f] = merged]
          /\ alerts' = [alerts EXCEPT ![f] = Append(@, alert)]
      BY <2>3, <2>6, <2>8
    <3>3. /\ merged \in Row
          /\ merged.processing_status
               = IF outcome = old.processing_status THEN row[f].processing_status
                 ELSE outcome
      <4> HIDE DEF old, new
      <4>1. QED
        BY <2>1, <2>2, <2>3, <3>1, MergeFacts
    <3> HIDE DEF old, new, merged
    <3>4. /\ \A g \in Files \ {f} : Phase(g)' = Phase(g)
          /\ Phase(f) = row[f].processing_status
          /\ Phase(f)' = merged.processing_status
      BY <1>0, <2>1, <3>1, <3>2, <3>3 DEF Phase
    <3>5. alert.level \in AlertLevel
      BY DEF Alert
    <3>6. Lifecycle!Raise(f, outcome, alert.level)
      BY <1>0, <2>1, <2>3, <3>2, <3>5, LifecycleRaise
    <3>7. CASE row[f].processing_status = "uploaded"
      <4>1. alerts[f] = <<>>
        BY <2>1, <3>1, <3>7 DEF IndInv, StatusMatchesAlerts
      <4>2. merged.processing_status = outcome
        BY <2>4, <3>3, <3>5, <3>7, <4>1
      <4>3. QED
        BY <3>4, <3>5, <3>6, <3>7, <4>1, <4>2, LifecycleSettle
    <3>8. CASE row[f].processing_status # "uploaded"
      <4>1. alerts[f] # <<>> /\ row[f].processing_status \in {"processed", "failed"}
        BY <2>1, <3>1, <3>8 DEF IndInv, StatusMatchesAlerts
      <4>2. redeliveries > 0
        BY <1>0, <2>5, <4>1
      <4>3. QED
        BY <3>3, <3>4, <3>5, <3>6, <4>1, <4>2, LifecycleResettle
    <3>9. QED
      BY <3>7, <3>8
  <2>9. QED
    BY <2>7, <2>8
<1>9. ASSUME NEW f \in Files, Redeliver(f)
      PROVE  Lifecycle!Next
  <2>1. UNCHANGED <<row, alerts, unlinked>> /\ redeliveries' > 0
    BY <1>0, <1>9 DEF Redeliver
  <2>2. \A g \in Files : Phase(g)' = Phase(g)
    BY <2>1 DEF Phase
  <2>3. Lifecycle!Duplicate
    BY <2>1, <2>2, LifecycleDuplicate
  <2>4. QED
    BY <2>3 DEF Lifecycle!Next
<1>10. ASSUME ApiCrash \/ \E f \in Files : LoseMessage(f)
       PROVE  UNCHANGED Lifecycle!vars
  BY <1>10, <1>a DEF ApiCrash, LoseMessage
<1>11. CASE UNCHANGED vars
  BY <1>11, <1>a DEF vars
<1>12. QED
  BY <1>1, <1>2, <1>3, <1>4, <1>5, <1>6, <1>7, <1>8, <1>9, <1>10, <1>11
     DEF Next, HandlerStep, TaskStep, Environment

\* Under every fault and however often messages are delivered, a file lives as
\* FileLifecycle says: uploaded once, settled together with its alert, removed
\* before that or never, settled anew only by a second delivery.
THEOREM BackendIsLifecycle == Spec => ImplementsLifecycle
BY TypeInit, TypeNext, IndInit, IndNext, OnceInit, OnceNext, LifecycleInit,
   LifecycleNext, PTL DEF Spec, ImplementsLifecycle, Lifecycle!Spec

-----------------------------------------------------------------------------
(* Nothing is forgotten when nothing fails.                                *)

Uploaded(f) == row[f] # None /\ row[f].processing_status = "uploaded"

LEMMA PendingInit == Init => PendingInv
<1> SUFFICES ASSUME Init PROVE PendingInv
  OBVIOUS
<1>1. UploadedIsPending /\ DeleteUnderWay
  BY DEF Init, UploadedIsPending, DeleteUnderWay
<1>2. \A w \in Workers : task[w].file = None
  BY DEF Init, IdleTask
<1>3. QED
  BY <1>1, <1>2 DEF PendingInv

LEMMA PendingNext ==
  ASSUME Faults = {}, TypeInv, IndInv, PendingInv, [Next]_vars
  PROVE  PendingInv'
<1> USE NoneAssumption
<1>0. /\ row \in [Files -> Row \cup {None}]
      /\ alerts \in [Files -> Seq(Alert)]
      /\ queue \in [Files -> Nat] /\ redeliveries \in Nat
      /\ unlinked \subseteq Files
      /\ req \in [Requests -> Request]
      /\ task \in [Workers -> Task]
  BY BoundAssumption DEF TypeInv, TypeOK
<1> DEFINE Waits(r) == Committed(r) \/ At(r, "delete", "commit")
           Idle == \A w \in Workers : TaskAt(w, "idle") => task[w].file = None
\* A step of request r that uploads nothing and unlinks nothing.  If somebody
\* waited for r, its file is not "uploaded" any more, or still waited for.
<1>e. ASSUME NEW r \in Requests, UNCHANGED <<task, unlinked>>,
             \A f \in Files : queue[f] > 0 => queue'[f] > 0,
             \A f \in Files : Uploaded(f)' => Uploaded(f),
             \A q \in Requests \ {r} : req'[q] = req[q],
             \A f \in Files : req[r].file = f /\ Waits(r) /\ Uploaded(f)' =>
               \/ Committed(r) /\ queue'[f] > 0
               \/ Committed(r) /\ Committed(r)' /\ req'[r].file = f
      PROVE  PendingInv'
  <2>1. ASSUME NEW f \in Files, Uploaded(f)' PROVE Pending(f)'
    <3>1. Pending(f)
      BY <1>e, <2>1 DEF PendingInv, UploadedIsPending, Uploaded
    <3>2. QED
      BY <1>0, <1>e, <2>1, <3>1 DEF Pending, Committed, At
  <2>2. ASSUME NEW f \in unlinked, Uploaded(f)'
        PROVE  \E q \in Requests : At(q, "delete", "commit")' /\ req'[q].file = f
    <3>1. PICK q \in Requests : At(q, "delete", "commit") /\ req[q].file = f
      BY <1>0, <1>e, <2>2 DEF PendingInv, DeleteUnderWay, Uploaded
    <3>2. q # r
      BY <1>0, <1>e, <2>2, <3>1 DEF Committed, At
    <3>3. QED
      BY <1>e, <3>1, <3>2 DEF At
  <2>3. Idle'
    BY <1>e DEF PendingInv, TaskAt
  <2>4. QED
    BY <1>e, <2>1, <2>2, <2>3 DEF PendingInv, UploadedIsPending, DeleteUnderWay, Uploaded
\* A step of worker w.
<1>f. ASSUME NEW w \in Workers, UNCHANGED <<unlinked, req>>,
             \A f \in Files : Uploaded(f)' => Uploaded(f),
             \A f \in Files : Uploaded(f)' /\ queue[f] > 0 =>
               queue'[f] > 0 \/ task'[w].file = f,
             \A v \in Workers \ {w} : task'[v] = task[v],
             task'[w].pc = "idle" => task'[w].file = None,
             \A f \in Files : Uploaded(f)' /\ task[w].file = f =>
               task'[w].file = f \/ f \in unlinked
      PROVE  PendingInv'
  <2>1. ASSUME NEW f \in Files, Uploaded(f)' PROVE Pending(f)'
    <3>1. Pending(f)
      BY <1>f, <2>1 DEF PendingInv, UploadedIsPending, Uploaded
    <3>2. CASE f \in unlinked
      <4>1. PICK q \in Requests : At(q, "delete", "commit") /\ req[q].file = f
        BY <1>f, <2>1, <3>2 DEF PendingInv, DeleteUnderWay, Uploaded
      <4>2. QED
        BY <1>f, <4>1 DEF Pending, At
    <3>3. CASE f \notin unlinked
      BY <1>f, <2>1, <3>1, <3>3 DEF Pending, Committed, At
    <3>4. QED
      BY <3>2, <3>3
  <2>2. DeleteUnderWay'
    BY <1>0, <1>f DEF PendingInv, DeleteUnderWay, Uploaded, At
  <2>3. Idle'
    BY <1>f DEF PendingInv, TaskAt
  <2>4. QED
    BY <2>1, <2>2, <2>3 DEF PendingInv, UploadedIsPending, Uploaded
<1>1. ASSUME NEW r \in Requests, RequestArrives(r)
      PROVE  PendingInv'
  <2>1. ~Active(r) /\ UNCHANGED <<row, queue, task, unlinked>>
    BY <1>1 DEF RequestArrives, CreateSave, PatchGet, DeleteGet, DownloadGet
  <2>2. \A q \in Requests \ {r} : req'[q] = req[q]
    BY <1>0, <1>1, RefuseFacts, BeginFacts
       DEF RequestArrives, CreateSave, PatchGet, DeleteGet, DownloadGet
  <2>3. QED
    BY <1>0, <1>e, <2>1, <2>2 DEF Active, Committed, At, Uploaded
<1>2. ASSUME NEW r \in Requests,
             CreateDiscard(r) \/ PatchReread(r) \/ DownloadExists(r) \/ DownloadSend(r)
      PROVE  PendingInv'
  <2>1. ~Waits(r) /\ UNCHANGED <<row, queue, task, unlinked>>
    BY <1>2 DEF CreateDiscard, PatchReread, DownloadExists, DownloadSend, Committed, At
  <2>2. \A q \in Requests \ {r} : req'[q] = req[q]
    BY <1>0, <1>2, AnswerFacts, GotoFacts
       DEF CreateDiscard, PatchReread, DownloadExists, DownloadSend
  <2>3. QED
    BY <1>0, <1>e, <2>1, <2>2 DEF Uploaded
\* The insert makes a row that waits for its POST.
<1>3. ASSUME NEW r \in Requests, CreateInsert(r)
      PROVE  PendingInv'
  <2>1. PICK f \in Files :
        /\ f = req[r].file /\ At(r, "create", "insert")
        /\ UNCHANGED <<queue, task, unlinked>>
    BY <1>3 DEF CreateInsert, TypeInv, SessionOK, At
  <2>2. f \notin unlinked
    BY <2>1 DEF IndInv, CreateInv, Undecided, Untouched
  <2>3. PICK applied \in BOOLEAN, raised \in BOOLEAN :
          /\ applied = ~raised
          /\ row' = IF applied THEN [row EXCEPT ![f] = req[r].obj] ELSE row
          /\ IF raised THEN Answer(r, "500") ELSE CreateGoto(r, "inserted", req[r].obj)
    BY <1>3, <2>1 DEF CreateInsert, CommitEnds
  <2>4. \A q \in Requests \ {r} : req'[q] = req[q]
    BY <1>0, <2>3, AnswerFacts, CreateGotoFacts
  <2>5. CASE ~applied
    BY <1>0, <1>e, <2>1, <2>3, <2>4, <2>5 DEF Committed, At, Uploaded
  <2>6. CASE applied
    <3>1. Committed(r)' /\ req'[r].file = f
      BY <1>0, <2>1, <2>3, <2>6, CreateGotoFacts DEF Committed, At, CreateNext
    <3>2. \A g \in Files \ {f} : row'[g] = row[g]
      BY <1>0, <2>3, <2>6
    <3>3. ASSUME NEW g \in Files, Uploaded(g)' PROVE Pending(g)'
      <4>1. CASE g = f
        BY <3>1, <4>1 DEF Pending
      <4>2. CASE g # f
        <5>1. Pending(g)
          BY <3>2, <3>3, <4>2 DEF PendingInv, UploadedIsPending, Uploaded
        <5>2. QED
          BY <2>1, <2>4, <4>2, <5>1 DEF Pending, Committed, At
      <4>3. QED
        BY <4>1, <4>2
    <3>4. ASSUME NEW g \in unlinked, Uploaded(g)'
          PROVE  \E q \in Requests : At(q, "delete", "commit")' /\ req'[q].file = g
      <4>1. g \in Files \ {f} /\ Uploaded(g)
        BY <1>0, <2>2, <3>2, <3>4 DEF Uploaded
      <4>2. PICK q \in Requests : At(q, "delete", "commit") /\ req[q].file = g
        BY <3>4, <4>1 DEF PendingInv, DeleteUnderWay, Uploaded
      <4>3. QED
        BY <2>1, <2>4, <4>2 DEF At
    <3>5. Idle'
      BY <2>1 DEF PendingInv, TaskAt
    <3>6. QED
      BY <2>1, <3>3, <3>4, <3>5 DEF PendingInv, UploadedIsPending, DeleteUnderWay, Uploaded
  <2>7. QED
    BY <2>5, <2>6
<1>4. ASSUME NEW r \in Requests, CreateRefresh(r)
      PROVE  PendingInv'
  <2>1. /\ At(r, "create", "refresh") /\ UNCHANGED <<row, queue, task, unlinked>>
        /\ \/ CreateGoto(r, "refreshed", row[req[r].file])
           \/ row[req[r].file] = None /\ Answer(r, "500")
    BY <1>4 DEF CreateRefresh, ReadRaises
  <2>2. \A q \in Requests \ {r} : req'[q] = req[q]
    BY <1>0, <2>1, AnswerFacts, CreateGotoFacts
  <2>3. CreateGoto(r, "refreshed", row[req[r].file])
          => Committed(r)' /\ req'[r].file = req[r].file
    BY <1>0, <2>1, CreateGotoFacts DEF Committed, At, CreateNext
  <2>4. QED
    BY <1>0, <1>e, <2>1, <2>2, <2>3 DEF Uploaded, Committed, At
<1>5. ASSUME NEW r \in Requests, CreateEnqueue(r)
      PROVE  PendingInv'
  <2>1. PICK f \in Files :
        /\ f = req[r].file /\ At(r, "create", "enqueue")
        /\ UNCHANGED <<row, task, unlinked>>
        /\ queue' = [queue EXCEPT ![f] = @ + 1]
        /\ CreateGoto(r, "enqueued", req[r].obj)
    BY <1>5 DEF CreateEnqueue, TypeInv, SessionOK, At
  <2>2. \A q \in Requests \ {r} : req'[q] = req[q]
    BY <1>0, <2>1, CreateGotoFacts
  <2>3. queue'[f] > 0 /\ \A g \in Files : queue[g] > 0 => queue'[g] > 0
    BY <1>0, <2>1
  <2>4. QED
    BY <1>e, <2>1, <2>2, <2>3 DEF Uploaded, Committed, At
<1>6. ASSUME NEW r \in Requests, PatchCommit(r)
      PROVE  PendingInv'
  <2> DEFINE old == req[r].obj
             new == [old EXCEPT !.title = req[r].title]
  <2>1. PICK f \in Files :
        /\ f = req[r].file /\ At(r, "patch", "commit")
        /\ old \in Row /\ req[r].title \in Titles
        /\ UNCHANGED <<queue, task, unlinked>>
    BY <1>6 DEF PatchCommit, At, TypeInv, SessionOK
  <2>2. PICK applied \in BOOLEAN, raised \in BOOLEAN :
          /\ CommitEnds(PatchMayCommit(f, old, new), applied, raised)
          /\ row' = IF applied /\ new # old
                      THEN [row EXCEPT ![f] = Merge(@, old, new)] ELSE row
          /\ IF raised THEN Answer(r, "500") ELSE Goto(r, "reread")
    BY <1>6, <2>1 DEF PatchCommit
  <2>3. \A q \in Requests \ {r} : req'[q] = req[q]
    BY <1>0, <2>2, AnswerFacts, GotoFacts
  <2>4. \A g \in Files : Uploaded(g)' => Uploaded(g)
    <3>1. CASE row[f] \in Row /\ row' = [row EXCEPT ![f] = Merge(@, old, new)]
      <4>1. /\ row'[f] = Merge(row[f], old, new)
            /\ \A g \in Files \ {f} : row'[g] = row[g]
        BY <1>0, <3>1
      <4>2. row'[f].processing_status = row[f].processing_status
        BY <2>1, <3>1, <4>1, PatchColumns
      <4>3. QED
        BY <3>1, <4>1, <4>2 DEF Uploaded
    <3>2. CASE row' = row
      BY <3>2 DEF Uploaded
    <3>3. QED
      BY <1>0, <2>2, <3>1, <3>2 DEF CommitEnds, PatchMayCommit
  <2>5. QED
    BY <1>0, <1>e, <2>1, <2>3, <2>4 DEF Committed, At
<1>7. ASSUME NEW r \in Requests, DeleteUnlink(r)
      PROVE  PendingInv'
  <2>1. PICK f \in Files :
        /\ f = req[r].file /\ At(r, "delete", "unlink") /\ Goto(r, "commit")
        /\ unlinked' = unlinked \cup {f} /\ UNCHANGED <<row, queue, task>>
    BY <1>7 DEF DeleteUnlink, TypeInv, SessionOK, At
  <2>2. /\ \A q \in Requests \ {r} : req'[q] = req[q]
        /\ At(r, "delete", "commit")' /\ req'[r].file = f
    BY <1>0, <2>1, GotoFacts DEF At
  <2>3. UploadedIsPending'
    BY <2>1, <2>2 DEF PendingInv, UploadedIsPending, Pending, Committed, At
  <2>4. DeleteUnderWay'
    BY <2>1, <2>2 DEF PendingInv, DeleteUnderWay, At
  <2>5. Idle'
    BY <2>1 DEF PendingInv, TaskAt
  <2>6. QED
    BY <2>3, <2>4, <2>5 DEF PendingInv
\* The row a DELETE leaves is not "uploaded": alerts refer to it.
<1>8. ASSUME NEW r \in Requests, DeleteCommit(r)
      PROVE  PendingInv'
  <2>1. PICK f \in Files :
        /\ f = req[r].file /\ At(r, "delete", "commit")
        /\ UNCHANGED <<queue, task, unlinked>>
        /\ row' = IF alerts[f] = <<>> THEN [row EXCEPT ![f] = None] ELSE row
        /\ \E code : Answer(r, code)
    BY <1>8 DEF DeleteCommit, CommitEnds, DeleteAllowed, TypeInv, SessionOK, At
  <2>2. \A q \in Requests \ {r} : req'[q] = req[q]
    BY <1>0, <2>1, AnswerFacts
  <2>3. ~Uploaded(f)'
    BY <1>0, <2>1 DEF Uploaded, IndInv, StatusMatchesAlerts
  <2>4. \A g \in Files : Uploaded(g)' => Uploaded(g)
    BY <1>0, <2>1 DEF Uploaded
  <2>5. QED
    BY <1>0, <1>e, <2>1, <2>2, <2>3, <2>4 DEF Uploaded
<1>9. ASSUME NEW w \in Workers, NEW f \in Files, TaskDeliver(w, f)
      PROVE  PendingInv'
  <2>1. /\ UNCHANGED <<row, req, unlinked>> /\ task[w].file = None
        /\ \A v \in Workers \ {w} : task'[v] = task[v]
        /\ task'[w].pc = "load" /\ task'[w].file = f
        /\ \A g \in Files \ {f} : queue'[g] = queue[g]
    BY <1>0, <1>9 DEF TaskDeliver, Task, PendingInv
  <2>2. QED
    BY <1>f, <2>1 DEF Uploaded
\* A task ends when its row is gone, or when a DELETE has taken its blob.
<1>10. ASSUME NEW w \in Workers, TaskLoad(w) \/ TaskCheck(w) \/ TaskExtract(w)
       PROVE  PendingInv'
  <2>1. PICK f \in Files : f = task[w].file
    BY <1>10 DEF TaskLoad, TaskCheck, TaskExtract, TypeInv, TaskOK, TaskAt
  <2>2. UNCHANGED <<row, req, queue, unlinked>>
    BY <1>10 DEF TaskLoad, TaskCheck, TaskExtract
  <2>3. CASE TaskEnds(w)
    <3>1. row[f] = None \/ f \notin blobs
      BY <1>0, <1>10, <2>1, <2>3, TaskEndsFacts
         DEF TaskLoad, TaskCheck, TaskExtract, ReadRaises, TaskGoto, Task
    <3>2. Uploaded(f) => f \in unlinked
      BY <3>1 DEF Uploaded, IndInv, LossMeansDelete
    <3>3. /\ \A v \in Workers \ {w} : task'[v] = task[v]
          /\ task'[w].pc = "idle" /\ task'[w].file = None
      BY <1>0, <2>3, TaskEndsFacts
    <3>4. QED
      BY <1>f, <2>1, <2>2, <3>2, <3>3 DEF Uploaded
  <2>4. CASE ~TaskEnds(w)
    <3>1. /\ \A v \in Workers \ {w} : task'[v] = task[v]
          /\ task'[w].pc # "idle" /\ task'[w].file = f
      BY <1>0, <1>10, <2>1, <2>4
         DEF TaskLoad, TaskCheck, TaskExtract, ReadRaises, TaskGoto, Task
    <3>2. QED
      BY <1>f, <2>1, <2>2, <3>1 DEF Uploaded
  <2>5. QED
    BY <2>3, <2>4
\* The row a task has committed is not "uploaded".
<1>11. ASSUME NEW w \in Workers, TaskCommit(w)
       PROVE  PendingInv'
  <2> DEFINE old == task[w].base
             new == Outcome(old, task[w].found)
  <2>1. PICK f \in Files :
        /\ f = task[w].file /\ TaskAt(w, "commit")
        /\ old \in Row /\ task[w].found \in BOOLEAN
        /\ TaskEnds(w) /\ UNCHANGED <<queue, req, unlinked>>
        /\ row' = IF row[f] # None THEN [row EXCEPT ![f] = Merge(@, old, new)] ELSE row
    BY <1>0, <1>11 DEF TaskCommit, TaskAt, TypeInv, TaskOK, Task, CommitEnds,
                       TaskMayCommit, TaskSaves
  <2>2. /\ new \in Row
        /\ new.processing_status = IF task[w].found THEN "processed" ELSE "failed"
    BY <2>1, OutcomeFacts
  <2>3. ~Uploaded(f)'
    <3>1. /\ old.processing_status # "processing"
          /\ old.processing_status # "uploaded" => alerts[f] # <<>>
      BY <2>1 DEF IndInv, TaskInv, TaskAt
    <3>2. CASE row[f] # None
      <4>1. row[f] \in Row /\ row'[f] = Merge(row[f], old, new)
        BY <1>0, <2>1, <3>2
      <4> HIDE DEF old, new
      <4>2. QED
        BY <2>1, <2>2, <3>1, <4>1, MergeFacts DEF IndInv, StatusMatchesAlerts, Uploaded
    <3>3. QED
      BY <2>1, <3>2 DEF Uploaded
  <2>4. \A g \in Files : Uploaded(g)' => Uploaded(g)
    BY <1>0, <2>1, <2>3 DEF Uploaded
  <2>5. /\ \A v \in Workers \ {w} : task'[v] = task[v]
        /\ task'[w].pc = "idle" /\ task'[w].file = None
    BY <1>0, <2>1, TaskEndsFacts
  <2>6. QED
    BY <1>f, <2>1, <2>3, <2>4, <2>5
<1>12. ASSUME NEW f \in Files, Redeliver(f)
       PROVE  PendingInv'
  <2>1. /\ UNCHANGED <<row, req, task, unlinked>>
        /\ \A g \in Files : queue[g] > 0 => queue'[g] > 0
    BY <1>0, <1>12 DEF Redeliver
  <2>2. UploadedIsPending'
    BY <1>0, <2>1 DEF PendingInv, UploadedIsPending, Pending, Committed, At
  <2>3. DeleteUnderWay' /\ Idle'
    BY <2>1 DEF PendingInv, DeleteUnderWay, TaskAt, At
  <2>4. QED
    BY <2>2, <2>3 DEF PendingInv
<1>13. ~ApiCrash /\ (\A w \in Workers : ~WorkerCrash(w)) /\ \A f \in Files : ~LoseMessage(f)
  BY DEF ApiCrash, WorkerCrash, LoseMessage
<1>14. CASE UNCHANGED vars
  BY <1>14 DEF vars, PendingInv, UploadedIsPending, Pending, DeleteUnderWay, Committed,
               TaskAt, At
<1>15. QED
  BY <1>1, <1>2, <1>3, <1>4, <1>5, <1>6, <1>7, <1>8, <1>9, <1>10, <1>11, <1>12, <1>13,
     <1>14 DEF Next, HandlerStep, TaskStep, Environment

\* When nothing fails no row is stuck in "uploaded": a message, a task or a
\* request that will change that is always there.
THEOREM UploadsStayPending ==
  ASSUME Faults = {}
  PROVE  Spec => []UploadedIsPending
<1>1. TypeInv /\ IndInv /\ PendingInv /\ [Next]_vars => PendingInv'
  BY PendingNext
<1>2. PendingInv => UploadedIsPending
  BY DEF PendingInv
<1>3. QED
  BY <1>1, <1>2, TypeInit, TypeNext, IndInit, IndNext, PendingInit, PTL DEF Spec

LEMMA NoOrphanInit == Init => NoOrphan
BY DEF Init, NoOrphan

LEMMA NoOrphanNext ==
  ASSUME Faults = {}, EverythingFits, TypeInv, IndInv, NoOrphan, [Next]_vars
  PROVE  NoOrphan'
<1> USE NoneAssumption
<1>0. /\ row \in [Files -> Row \cup {None}]
      /\ blobs \subseteq Files
      /\ req \in [Requests -> Request]
  BY DEF TypeInv, TypeOK
\* A step of request r that takes a row from blobless files only.
<1>e. ASSUME NEW r \in Requests, blobs' \subseteq blobs,
             \A f \in blobs' : row[f] # None => row'[f] # None,
             \A q \in Requests \ {r} : req'[q] = req[q],
             \A f \in blobs' : Undecided(r) /\ req[r].file = f => row'[f] # None
      PROVE  NoOrphan'
  BY <1>e DEF NoOrphan, Undecided, At
<1>1. ASSUME NEW r \in Requests, NEW f \in Files, NEW title \in Titles,
             NEW upload \in Uploads, CreateSave(r, f, title, upload)
      PROVE  NoOrphan'
  <2>1. /\ ~Active(r) /\ blobs' = blobs \cup {f} /\ UNCHANGED row
        /\ \A q \in Requests \ {r} : req'[q] = req[q]
        /\ Undecided(r)' /\ req'[r].file = f
    BY <1>0, <1>1, BeginFacts DEF CreateSave, CreateNext, Undecided, At
  <2>2. QED
    BY <2>1 DEF NoOrphan, Undecided, Active, At
<1>2. ASSUME NEW r \in Requests, CreateDiscard(r)
      PROVE  NoOrphan'
  <2>1. blobs' = blobs \ {req[r].file} /\ UNCHANGED row /\ Answer(r, "400")
    BY <1>2 DEF CreateDiscard
  <2>2. QED
    BY <1>0, <1>e, <2>1, AnswerFacts
\* The row fits, so the insert commits.
<1>3. ASSUME NEW r \in Requests, CreateInsert(r)
      PROVE  NoOrphan'
  <2>1. PICK f \in Files :
        f = req[r].file /\ req[r].obj \in Row
    BY <1>3 DEF CreateInsert, TypeInv, SessionOK, At
  <2>2. FitsColumns(req[r].obj)
    BY <2>1 DEF FitsColumns, EverythingFits, Row
  <2>3. /\ row' = [row EXCEPT ![f] = req[r].obj] /\ UNCHANGED blobs
        /\ CreateGoto(r, "inserted", req[r].obj)
    BY <1>3, <2>1, <2>2 DEF CreateInsert, CommitEnds, BlobsAfterInsert
  <2>4. \A q \in Requests \ {r} : req'[q] = req[q]
    BY <1>0, <2>3, CreateGotoFacts
  <2>5. QED
    BY <1>0, <1>e, <2>1, <2>3, <2>4
<1>4. ASSUME NEW r \in Requests,
             \/ CreateRefresh(r) \/ CreateEnqueue(r) \/ PatchReread(r)
             \/ DownloadExists(r) \/ DownloadSend(r)
      PROVE  NoOrphan'
  <2>1. ~Undecided(r) /\ UNCHANGED <<row, blobs>>
    BY <1>4 DEF CreateRefresh, CreateEnqueue, PatchReread, DownloadExists, DownloadSend,
                Undecided, At
  <2>2. \A q \in Requests \ {r} : req'[q] = req[q]
    BY <1>0, <1>4, AnswerFacts, GotoFacts, CreateGotoFacts
       DEF CreateRefresh, CreateEnqueue, PatchReread, DownloadExists, DownloadSend
  <2>3. QED
    BY <1>e, <2>1, <2>2
<1>5. ASSUME NEW r \in Requests, NEW f \in Files,
             \/ \E title \in Titles : PatchGet(r, f, title)
             \/ DeleteGet(r, f) \/ DownloadGet(r, f)
      PROVE  NoOrphan'
  <2>1. ~Undecided(r) /\ UNCHANGED <<row, blobs>>
    BY <1>5 DEF PatchGet, DeleteGet, DownloadGet, Undecided, Active, At
  <2>2. \A q \in Requests \ {r} : req'[q] = req[q]
    BY <1>0, <1>5, RefuseFacts, BeginFacts DEF PatchGet, DeleteGet, DownloadGet
  <2>3. QED
    BY <1>e, <2>1, <2>2
<1>6. ASSUME NEW r \in Requests, PatchCommit(r)
      PROVE  NoOrphan'
  <2>1. PICK f \in Files, new \in Row, applied \in BOOLEAN :
        /\ At(r, "patch", "commit") /\ UNCHANGED blobs
        /\ row' = IF applied THEN [row EXCEPT ![f] = Merge(@, req[r].obj, new)] ELSE row
        /\ applied => row[f] \in Row /\ req[r].obj \in Row
        /\ Answer(r, "500") \/ Goto(r, "reread")
    <3> DEFINE f == req[r].file
               old == req[r].obj
               new == [old EXCEPT !.title = req[r].title]
    <3>1. f \in Files /\ old \in Row /\ new \in Row
      BY <1>6 DEF PatchCommit, At, TypeInv, SessionOK, Row
    <3>2. PICK applied \in BOOLEAN, raised \in BOOLEAN :
            /\ CommitEnds(PatchMayCommit(f, old, new), applied, raised)
            /\ row' = IF applied /\ new # old
                        THEN [row EXCEPT ![f] = Merge(@, old, new)] ELSE row
            /\ IF raised THEN Answer(r, "500") ELSE Goto(r, "reread")
      BY <1>6 DEF PatchCommit
    <3>3. (applied /\ new # old) \in BOOLEAN
      OBVIOUS
    <3>4. applied /\ new # old => row[f] \in Row
      BY <1>0, <3>1, <3>2 DEF CommitEnds, PatchMayCommit
    <3>5. QED
      BY <1>6, <3>1, <3>2, <3>3, <3>4 DEF PatchCommit
  <2>2. applied => row'[f] # None
    BY <1>0, <2>1, MergeFacts
  <2>3. \A q \in Requests \ {r} : req'[q] = req[q]
    BY <1>0, <2>1, AnswerFacts, GotoFacts
  <2>4. QED
    BY <1>0, <1>e, <2>1, <2>2, <2>3 DEF Undecided, At
<1>7. ASSUME NEW r \in Requests, DeleteUnlink(r)
      PROVE  NoOrphan'
  <2>1. blobs' \subseteq blobs /\ UNCHANGED row /\ ~Undecided(r)
    BY <1>7 DEF DeleteUnlink, Undecided, At
  <2>2. \A q \in Requests \ {r} : req'[q] = req[q]
    BY <1>0, <1>7, AnswerFacts, GotoFacts DEF DeleteUnlink
  <2>3. QED
    BY <1>e, <2>1, <2>2
\* The row goes after its blob.
<1>8. ASSUME NEW r \in Requests, DeleteCommit(r)
      PROVE  NoOrphan'
  <2>1. PICK f \in Files, applied \in BOOLEAN, raised \in BOOLEAN :
        /\ f = req[r].file /\ At(r, "delete", "commit") /\ UNCHANGED blobs
        /\ row' = IF applied THEN [row EXCEPT ![f] = None] ELSE row
        /\ Answer(r, IF raised THEN "500" ELSE "204")
    BY <1>8 DEF DeleteCommit, TypeInv, SessionOK, At
  <2>2. f \notin blobs
    BY <2>1 DEF IndInv, KnownInv, UnlinkInv
  <2>3. \A q \in Requests \ {r} : req'[q] = req[q]
    BY <1>0, <2>1, AnswerFacts
  <2>4. QED
    BY <1>0, <1>e, <2>1, <2>2, <2>3 DEF Undecided, At
<1>f. ASSUME UNCHANGED <<blobs, req>>, \A f \in Files : row[f] # None => row'[f] # None
      PROVE  NoOrphan'
  BY <1>0, <1>f DEF NoOrphan, Undecided, At
<1>9. ASSUME NEW w \in Workers, TaskCommit(w)
      PROVE  NoOrphan'
  <2> DEFINE old == task[w].base
             new == Outcome(old, task[w].found)
  <2>1. PICK f \in Files :
        /\ f = task[w].file /\ old \in Row /\ task[w].found \in BOOLEAN
        /\ UNCHANGED <<blobs, req>>
        /\ row' = IF row[f] # None THEN [row EXCEPT ![f] = Merge(@, old, new)] ELSE row
    BY <1>9 DEF TaskCommit, TaskAt, TypeInv, TypeOK, TaskOK, Task, CommitEnds,
                TaskMayCommit, TaskSaves
  <2>2. new \in Row
    BY <2>1, OutcomeFacts
  <2> HIDE DEF old, new
  <2>3. row[f] # None => row'[f] \in Row
    BY <1>0, <2>1, <2>2, MergeFacts
  <2>4. QED
    BY <1>0, <1>f, <2>1, <2>3
<1>10. ASSUME \/ \E w \in Workers :
                   \/ TaskLoad(w) \/ TaskCheck(w) \/ TaskExtract(w)
                   \/ \E f \in Files : TaskDeliver(w, f)
              \/ \E f \in Files : Redeliver(f)
              \/ UNCHANGED vars
       PROVE  NoOrphan'
  BY <1>10, <1>f DEF TaskLoad, TaskCheck, TaskExtract, TaskDeliver, Redeliver, vars
<1>11. ~ApiCrash /\ (\A w \in Workers : ~WorkerCrash(w)) /\ \A f \in Files : ~LoseMessage(f)
  BY DEF ApiCrash, WorkerCrash, LoseMessage
<1>12. QED
  BY <1>1, <1>2, <1>3, <1>4, <1>5, <1>6, <1>7, <1>8, <1>9, <1>10, <1>11
     DEF Next, RequestArrives, HandlerStep, TaskStep, Environment

\* When nothing fails and every insert fits, no blob is left without a row,
\* unless its POST has yet to decide about it.
THEOREM BlobsHaveOwners ==
  ASSUME Faults = {}, EverythingFits
  PROVE  Spec => []NoOrphan
<1>1. TypeInv /\ IndInv /\ NoOrphan /\ [Next]_vars => NoOrphan'
  BY NoOrphanNext
<1>2. QED
  BY <1>1, TypeInit, TypeNext, IndInit, IndNext, NoOrphanInit, PTL DEF Spec

-----------------------------------------------------------------------------
(* What a PATCH may fail for.                                              *)

\* A PATCH that ends with a 500 in this step does so for want of a row.
LEMMA PatchFailsNext ==
  ASSUME Faults = {}, EverythingFits, TypeInv, IndInv, PatchFailsByDelete, [Next]_vars
  PROVE  PatchFailsByDelete'
<1>0. /\ row \in [Files -> Row \cup {None}]
      /\ req \in [Requests -> Request]
  BY DEF TypeInv, TypeOK
<1>e. ASSUME NEW r \in Requests, unlinked \subseteq unlinked',
             \A q \in Requests \ {r} : req'[q] = req[q],
             At(r, "patch", "done")' /\ req'[r].code = "500" => req'[r].file \in unlinked
      PROVE  PatchFailsByDelete'
  BY <1>e DEF PatchFailsByDelete, At
\* Who knows the file of a PATCH that finds no row knows of its DELETE.
<1>k. ASSUME NEW r \in Requests, At(r, "patch", "commit") \/ At(r, "patch", "reread"),
             row[req[r].file] = None
      PROVE  req[r].file \in unlinked
  BY <1>k DEF IndInv, KnownInv, Known, Active, Undecided, At
<1>1. ASSUME NEW r \in Requests, PatchCommit(r)
      PROVE  PatchFailsByDelete'
  <2> DEFINE f == req[r].file
             old == req[r].obj
             new == [old EXCEPT !.title = req[r].title]
  <2>1. PICK applied \in BOOLEAN, raised \in BOOLEAN :
          /\ CommitEnds(PatchMayCommit(f, old, new), applied, raised)
          /\ IF raised THEN Answer(r, "500") ELSE Goto(r, "reread")
    BY <1>1 DEF PatchCommit
  <2>2. At(r, "patch", "commit") /\ UNCHANGED unlinked
    BY <1>1 DEF PatchCommit
  <2>3. old \in Row /\ req[r].title \in Titles
    BY <2>2 DEF TypeInv, SessionOK
  <2>4. FitsColumns(new)
    BY <2>3 DEF FitsColumns, EverythingFits, Row
  <2>5. raised => row[f] = None
    BY <2>1, <2>4 DEF CommitEnds, PatchMayCommit
  <2>6. CASE raised
    BY <1>0, <1>e, <1>k, <2>1, <2>2, <2>5, <2>6, AnswerFacts
  <2>7. CASE ~raised
    BY <1>0, <1>e, <2>1, <2>2, <2>7, GotoFacts DEF At
  <2>8. QED
    BY <2>6, <2>7
<1>2. ASSUME NEW r \in Requests, PatchReread(r)
      PROVE  PatchFailsByDelete'
  <2>1. /\ At(r, "patch", "reread") /\ UNCHANGED unlinked
        /\ Answer(r, "200") \/ (row[req[r].file] = None /\ Answer(r, "500"))
    BY <1>2 DEF PatchReread, ReadRaises
  <2>2. QED
    BY <1>0, <1>e, <1>k, <2>1, AnswerFacts
\* A request that arrives is refused with a 404 at most.
<1>3. ASSUME NEW r \in Requests, NEW f \in Files,
             \/ \E title \in Titles, upload \in Uploads : CreateSave(r, f, title, upload)
             \/ \E title \in Titles : PatchGet(r, f, title)
             \/ DeleteGet(r, f) \/ DownloadGet(r, f)
      PROVE  PatchFailsByDelete'
  <2>1. /\ UNCHANGED unlinked /\ \A q \in Requests \ {r} : req'[q] = req[q]
        /\ req'[r].code # "500"
    BY <1>0, <1>3, BeginFacts, RefuseFacts DEF CreateSave, PatchGet, DeleteGet, DownloadGet
  <2>2. QED
    BY <1>e, <2>1
\* The steps of other requests.
<1>4. ASSUME NEW r \in Requests,
             \/ CreateDiscard(r) \/ CreateInsert(r) \/ CreateRefresh(r) \/ CreateEnqueue(r)
             \/ DeleteUnlink(r) \/ DeleteCommit(r) \/ DownloadExists(r) \/ DownloadSend(r)
      PROVE  PatchFailsByDelete'
  <2>1. req[r].op # "patch" /\ unlinked \subseteq unlinked'
    BY <1>4 DEF CreateDiscard, CreateInsert, CreateRefresh, CreateEnqueue, DeleteUnlink,
                DeleteCommit, DownloadExists, DownloadSend, At
  <2>2. (\A q \in Requests \ {r} : req'[q] = req[q]) /\ req'[r].op = req[r].op
    <3>1. CASE CreateDiscard(r) \/ CreateInsert(r) \/ CreateRefresh(r) \/ CreateEnqueue(r)
      BY <1>0, <3>1, AnswerFacts, CreateGotoFacts
         DEF CreateDiscard, CreateInsert, CreateRefresh, CreateEnqueue
    <3>2. CASE \/ DeleteUnlink(r) \/ DeleteCommit(r) \/ DownloadExists(r)
               \/ DownloadSend(r)
      BY <1>0, <3>2, AnswerFacts, GotoFacts
         DEF DeleteUnlink, DeleteCommit, DownloadExists, DownloadSend
    <3>3. QED
      BY <1>4, <3>1, <3>2
  <2>3. QED
    BY <1>e, <2>1, <2>2 DEF At
<1>5. ASSUME \/ \E w \in Workers : TaskStep(w) \/ \E f \in Files : TaskDeliver(w, f)
             \/ \E f \in Files : Redeliver(f)
             \/ UNCHANGED vars
      PROVE  PatchFailsByDelete'
  <2>1. UNCHANGED <<req, unlinked>>
    BY <1>5 DEF TaskStep, TaskLoad, TaskCheck, TaskExtract, TaskCommit, TaskDeliver, Redeliver,
                vars
  <2>2. QED
    BY <2>1 DEF PatchFailsByDelete, At
<1>6. ~ApiCrash /\ (\A w \in Workers : ~WorkerCrash(w)) /\ \A f \in Files : ~LoseMessage(f)
  BY DEF ApiCrash, WorkerCrash, LoseMessage
<1>7. QED
  BY <1>1, <1>2, <1>3, <1>4, <1>5, <1>6 DEF Next, RequestArrives, HandlerStep, Environment

\* When nothing fails and every title fits, a PATCH is answered 500 only because
\* a DELETE took the row from under it, however many workers, messages and other
\* PATCHes are at the file.
THEOREM PatchesFailByDelete ==
  ASSUME Faults = {}, EverythingFits
  PROVE  Spec => []PatchFailsByDelete
<1>1. Init => PatchFailsByDelete
  BY DEF Init, PatchFailsByDelete, At, IdleRequest, Handler
<1>2. TypeInv /\ IndInv /\ PatchFailsByDelete /\ [Next]_vars => PatchFailsByDelete'
  BY PatchFailsNext
<1>3. QED
  BY <1>1, <1>2, TypeInit, TypeNext, IndInit, IndNext, PTL DEF Spec
=============================================================================

---------------------- MODULE FileExchangeSafetyProofs ----------------------
(***************************************************************************)
(* The safety properties that hold under every fault, proved for any       *)
(* number of files, requests and workers: IndInv is inductive relative to  *)
(* the types, and each property is a conjunct of it or follows from one.   *)
(***************************************************************************)
EXTENDS FileExchangeProofs

-----------------------------------------------------------------------------
(* What the building blocks of the actions do to the requests.             *)

LEMMA RefuseFacts ==
  ASSUME req \in [Requests -> Request], NEW r \in Requests, NEW op, NEW f, NEW code,
         Refuse(r, op, f, code)
  PROVE  /\ \A q \in Requests \ {r} : req'[q] = req[q]
         /\ req'[r].op = op /\ req'[r].pc = "done" /\ req'[r].file = f
         /\ req'[r].code = code /\ req'[r].obj = None
BY DEF Refuse, Handler

LEMMA AnswerFacts ==
  ASSUME req \in [Requests -> Request], NEW r \in Requests, NEW code, Answer(r, code)
  PROVE  /\ \A q \in Requests \ {r} : req'[q] = req[q]
         /\ req'[r].op = req[r].op /\ req'[r].pc = "done"
         /\ req'[r].file = req[r].file /\ req'[r].code = code /\ req'[r].obj = None
BY RefuseFacts DEF Answer

LEMMA BeginFacts ==
  ASSUME req \in [Requests -> Request], NEW r \in Requests, NEW op, NEW pc, NEW f,
         NEW obj, NEW title, Begin(r, op, pc, f, obj, title)
  PROVE  /\ \A q \in Requests \ {r} : req'[q] = req[q]
         /\ req'[r].op = op /\ req'[r].pc = pc /\ req'[r].file = f
         /\ req'[r].code = "none" /\ req'[r].obj = obj
BY DEF Begin, Handler

LEMMA GotoFacts ==
  ASSUME req \in [Requests -> Request], NEW r \in Requests, NEW pc, Goto(r, pc)
  PROVE  /\ \A q \in Requests \ {r} : req'[q] = req[q]
         /\ req'[r].op = req[r].op /\ req'[r].pc = pc /\ req'[r].file = req[r].file
         /\ req'[r].code = req[r].code /\ req'[r].obj = req[r].obj
BY DEF Goto, Request

LEMMA CreateGotoFacts ==
  ASSUME req \in [Requests -> Request], NEW r \in Requests, NEW obj,
         NEW step \in {"inserted", "refreshed", "enqueued"}, CreateGoto(r, step, obj)
  PROVE  /\ \A q \in Requests \ {r} : req'[q] = req[q]
         /\ req'[r].op = req[r].op /\ req'[r].pc = CreateNext(step)
         /\ req'[r].file = req[r].file /\ req'[r].obj = obj
         /\ req'[r].code = IF step = "enqueued" THEN "201" ELSE req[r].code
BY DEF CreateGoto, CreateNext, Request

LEMMA TaskEndsFacts ==
  ASSUME task \in [Workers -> Task], NEW w \in Workers, TaskEnds(w)
  PROVE  /\ \A v \in Workers \ {w} : task'[v] = task[v]
         /\ task'[w].pc = "idle" /\ task'[w].file = None
BY DEF TaskEnds, IdleTask

LEMMA AppendNotEmpty ==
  ASSUME NEW S, NEW s \in Seq(S), NEW e
  PROVE  Append(s, e) # <<>>
<1>1. Len(Append(s, e)) = Len(s) + 1 /\ Len(s) \in Nat
  OBVIOUS
<1>2. QED
  BY <1>1

-----------------------------------------------------------------------------
(* The inductive invariant.                                                *)

LEMMA IndInit == Init => IndInv
<1> SUFFICES ASSUME Init PROVE IndInv
  OBVIOUS
<1> USE NoneAssumption DEF Init, IdleRequest, Handler, IdleTask, At, Active, TaskAt
<1>1. FreshInv /\ UnlinkInv /\ TaskInv /\ LossMeansDelete /\ StatusMatchesAlerts
  BY DEF FreshInv, Untouched, UnlinkInv, TaskInv, LossMeansDelete, StatusMatchesAlerts
<1>2. CreateInv /\ KnownInv
  BY DEF CreateInv, Undecided, Committed, KnownInv
<1>3. DeletedIsGone /\ CreatedIsUploaded
  BY DEF DeletedIsGone, CreatedIsUploaded
<1>4. QED
  BY <1>1, <1>2, <1>3 DEF IndInv

LEMMA IndNext == TypeInv /\ IndInv /\ [Next]_vars => IndInv'
<1> SUFFICES ASSUME TypeInv, IndInv, [Next]_vars PROVE IndInv'
  OBVIOUS
<1> USE NoneAssumption
<1>0. /\ row \in [Files -> Row \cup {None}]
      /\ alerts \in [Files -> Seq(Alert)]
      /\ blobs \subseteq Files /\ used \subseteq Files /\ unlinked \subseteq Files
      /\ queue \in [Files -> Nat]
      /\ req \in [Requests -> Request]
      /\ task \in [Workers -> Task]
  BY DEF TypeInv, TypeOK
\* A known file is neither fresh nor in the hands of an undecided POST, and
\* its blob is gone only if a DELETE took it.
<1>a. ASSUME NEW f \in Files, Known(f)
      PROVE  /\ f \in used
             /\ \A q \in Requests : Undecided(q) => req[q].file # f
             /\ f \notin blobs => f \in unlinked
  BY <1>a DEF IndInv, FreshInv, CreateInv, Untouched, Known, LossMeansDelete
\* So is the file of every handler and task past its first read.
<1>b. ASSUME NEW r \in Requests, Active(r), ~Undecided(r)
      PROVE  req[r].file \in Files /\ Known(req[r].file)
  BY <1>b DEF TypeInv, SessionOK, IndInv, KnownInv, Active
<1>c. ASSUME NEW w \in Workers, ~TaskAt(w, "idle")
      PROVE  task[w].file \in Files /\ Known(task[w].file)
  BY <1>c DEF TypeInv, TaskOK, IndInv, KnownInv
<1>d. ASSUME UNCHANGED <<row, alerts, blobs, used, queue, req, task, unlinked>>
      PROVE  IndInv'
  BY <1>d DEF IndInv, FreshInv, Untouched, UnlinkInv, CreateInv, Undecided, Committed,
              KnownInv, Known, TaskInv, LossMeansDelete, DeletedIsGone,
              StatusMatchesAlerts, CreatedIsUploaded, At, Active, TaskAt
\* A handler that only reads: it refuses the request or goes on with a file
\* it knows.
<1>e. ASSUME NEW r \in Requests,
             UNCHANGED <<row, alerts, blobs, used, queue, task, unlinked>>,
             \A q \in Requests \ {r} : req'[q] = req[q],
             req'[r].file \in Files,
             \/ Known(req'[r].file)
             \/ req'[r].pc = "done" /\ req'[r].code = "404",
             ~Undecided(r)',
             Committed(r)' => /\ Committed(r) /\ req'[r].file = req[r].file
                              /\ req'[r].obj.processing_status = "uploaded",
             ~At(r, "delete", "commit")',
             At(r, "download", "done")' /\ req'[r].code \notin {"200", "404"}
               => req'[r].file \in unlinked,
             At(r, "delete", "done")' => req'[r].code # "204",
             At(r, "create", "done")' => req'[r].code # "201"
      PROVE  IndInv'
  <2>1. FreshInv'
    BY <1>a, <1>e DEF IndInv, FreshInv, Untouched
  <2>2. CreateInv'
    BY <1>a, <1>e DEF IndInv, CreateInv, Untouched, Undecided, Committed, At
  <2>3. KnownInv'
    BY <1>e DEF IndInv, KnownInv, Known, Undecided, At, Active, TaskAt
  <2>4. LossMeansDelete'
    BY <1>e DEF IndInv, LossMeansDelete, At
  <2>5. DeletedIsGone' /\ CreatedIsUploaded'
    BY <1>e DEF IndInv, DeletedIsGone, CreatedIsUploaded, At
  <2>6. UnlinkInv' /\ TaskInv' /\ StatusMatchesAlerts'
    BY <1>e DEF IndInv, UnlinkInv, TaskInv, TaskAt, StatusMatchesAlerts
  <2>7. QED
    BY <2>1, <2>2, <2>3, <2>4, <2>5, <2>6 DEF IndInv
\* A step of worker w only: it ends, or goes on with the file it has.
<1>f. ASSUME NEW w \in Workers,
             UNCHANGED <<row, alerts, blobs, used, queue, req, unlinked>>,
             \A v \in Workers \ {w} : task'[v] = task[v],
             \/ task'[w].pc = "idle" /\ task'[w].file = None
             \/ ~TaskAt(w, "idle") /\ task'[w].file = task[w].file,
             task'[w].pc \in {"check", "extract", "commit"} =>
               /\ task'[w].base.processing_status # "processing"
               /\ task'[w].base.processing_status # "uploaded"
                    => alerts[task[w].file] # <<>>,
             TaskAt(w, "extract")' => task'[w].found,
             TaskAt(w, "commit")' /\ ~task'[w].found => task[w].file \in unlinked
      PROVE  IndInv'
  <2>1. FreshInv'
    BY <1>f DEF IndInv, FreshInv, Untouched
  <2>2. CreateInv'
    BY <1>f DEF IndInv, CreateInv, Untouched, Undecided, Committed, At,
                TypeInv, SessionOK
  <2>3. KnownInv'
    BY <1>f DEF IndInv, KnownInv, Known, Undecided, At, Active, TaskAt
  <2>4. TaskInv'
    BY <1>f DEF IndInv, TaskInv, TaskAt
  <2>5. UnlinkInv' /\ LossMeansDelete' /\ StatusMatchesAlerts'
    BY <1>f DEF IndInv, UnlinkInv, LossMeansDelete, StatusMatchesAlerts, At
  <2>6. DeletedIsGone' /\ CreatedIsUploaded'
    BY <1>f DEF IndInv, DeletedIsGone, CreatedIsUploaded, At
  <2>7. QED
    BY <2>1, <2>2, <2>3, <2>4, <2>5, <2>6 DEF IndInv
\* A task that is over and has changed nothing.
<1>g. ASSUME NEW w \in Workers, TaskEnds(w),
             UNCHANGED <<row, alerts, blobs, used, queue, req, unlinked>>
      PROVE  IndInv'
  <2>1. /\ \A v \in Workers \ {w} : task'[v] = task[v]
        /\ task'[w].pc = "idle" /\ task'[w].file = None
    BY <1>0, <1>g, TaskEndsFacts
  <2>2. FreshInv' /\ KnownInv'
    BY <1>g, <2>1 DEF IndInv, FreshInv, Untouched, KnownInv, Known, Undecided, At,
                      Active, TaskAt
  <2>3. CreateInv'
    BY <1>g, <2>1 DEF IndInv, CreateInv, Untouched, Undecided, Committed, At, TypeInv,
                      SessionOK
  <2>4. TaskInv'
    BY <1>g, <2>1 DEF IndInv, TaskInv, TaskAt
  <2>5. /\ UnlinkInv' /\ LossMeansDelete' /\ StatusMatchesAlerts'
        /\ DeletedIsGone' /\ CreatedIsUploaded'
    BY <1>g DEF IndInv, UnlinkInv, LossMeansDelete, StatusMatchesAlerts,
                DeletedIsGone, CreatedIsUploaded, At
  <2>6. QED
    BY <2>2, <2>3, <2>4, <2>5 DEF IndInv
<1>1. ASSUME NEW r \in Requests, NEW f \in Files, NEW title \in Titles,
             NEW upload \in Uploads, CreateSave(r, f, title, upload)
      PROVE  IndInv'
  <2>1. /\ f \notin used /\ used' = used \cup {f}
        /\ blobs' = blobs \/ blobs' = blobs \cup {f}
        /\ UNCHANGED <<row, alerts, queue, redeliveries, task, unlinked>>
    BY <1>1 DEF CreateSave
  <2>2. Untouched(f, {}) /\ f \notin blobs
    BY <1>1, <2>1 DEF IndInv, FreshInv
  <2>3. /\ \A q \in Requests \ {r} : req'[q] = req[q]
        /\ req'[r].op = "create" /\ req'[r].file = f
        /\ \/ req'[r].pc = "done" /\ req'[r].code = "500"
           \/ req'[r].pc = "discard" /\ f \in blobs'
           \/ req'[r].pc = "insert" /\ f \in blobs'
              /\ req'[r].obj.processing_status = "uploaded"
    BY <1>0, <1>1, RefuseFacts, BeginFacts, NewRowFacts DEF CreateSave, CreateNext
  <2>4. FreshInv'
    BY <2>1, <2>2, <2>3 DEF IndInv, FreshInv, Untouched
  <2>5. UnlinkInv'
    BY <2>1, <2>2 DEF IndInv, UnlinkInv, Untouched
  <2>6. CreateInv'
    BY <2>1, <2>2, <2>3 DEF IndInv, CreateInv, Untouched, Undecided, Committed, At
  <2>7. KnownInv'
    BY <2>1, <2>3 DEF IndInv, KnownInv, Known, Undecided, At, Active, TaskAt
  <2>8. TaskInv' /\ StatusMatchesAlerts'
    BY <2>1 DEF IndInv, TaskInv, TaskAt, StatusMatchesAlerts
  <2>9. LossMeansDelete'
    BY <2>1, <2>2, <2>3 DEF IndInv, LossMeansDelete, Untouched, At
  <2>10. DeletedIsGone'
    BY <2>1, <2>2, <2>3 DEF IndInv, DeletedIsGone, Untouched, At
  <2>11. CreatedIsUploaded'
    BY <2>3 DEF IndInv, CreatedIsUploaded, At
  <2>12. QED
    BY <2>4, <2>5, <2>6, <2>7, <2>8, <2>9, <2>10, <2>11 DEF IndInv
<1>2. ASSUME NEW r \in Requests, CreateDiscard(r)
      PROVE  IndInv'
  <2> DEFINE f == req[r].file
  <2>1. /\ At(r, "create", "discard") /\ f \in Files
        /\ blobs' \in {blobs, blobs \ {f}}
        /\ UNCHANGED <<row, alerts, used, queue, redeliveries, task, unlinked>>
    BY <1>2 DEF CreateDiscard, TypeInv, SessionOK, At
  <2>2. Untouched(f, {r}) /\ f \in used
    BY <2>1 DEF IndInv, CreateInv, Undecided
  <2>3. /\ \A q \in Requests \ {r} : req'[q] = req[q]
        /\ req'[r].op = "create" /\ req'[r].pc = "done" /\ req'[r].file = f
        /\ req'[r].code \in {"400", "500"}
    BY <1>0, <1>2, AnswerFacts DEF CreateDiscard, At
  <2>4. FreshInv'
    BY <2>1, <2>2, <2>3 DEF IndInv, FreshInv, Untouched
  <2>5. CreateInv'
    BY <2>1, <2>2, <2>3 DEF IndInv, CreateInv, Untouched, Undecided, Committed, At
  <2>6. KnownInv'
    BY <2>1, <2>3 DEF IndInv, KnownInv, Known, Undecided, At, Active, TaskAt
  <2>7. UnlinkInv' /\ TaskInv' /\ StatusMatchesAlerts'
    BY <2>1 DEF IndInv, UnlinkInv, TaskInv, TaskAt, StatusMatchesAlerts
  <2>8. LossMeansDelete'
    BY <2>1, <2>2, <2>3 DEF IndInv, LossMeansDelete, Untouched, At
  <2>9. DeletedIsGone' /\ CreatedIsUploaded'
    BY <2>1, <2>3 DEF IndInv, DeletedIsGone, CreatedIsUploaded, At
  <2>10. QED
    BY <2>4, <2>5, <2>6, <2>7, <2>8, <2>9 DEF IndInv
<1>3. ASSUME NEW r \in Requests, CreateInsert(r)
      PROVE  IndInv'
  <2> DEFINE f == req[r].file
  <2>1. /\ At(r, "create", "insert") /\ f \in Files
        /\ UNCHANGED <<alerts, blobs, used, queue, redeliveries, task, unlinked>>
    BY <1>3 DEF CreateInsert, BlobsAfterInsert, TypeInv, SessionOK, At
  <2>2. /\ Untouched(f, {r}) /\ f \in used /\ f \in blobs
        /\ req[r].obj.processing_status = "uploaded"
    BY <2>1 DEF IndInv, CreateInv, Undecided
  <2>3. req[r].obj # None
    BY <2>1 DEF TypeInv, SessionOK
  <2>4. /\ \A q \in Requests \ {r} : req'[q] = req[q]
        /\ req'[r].op = "create" /\ req'[r].file = f
        /\ \A g \in Files \ {f} : row'[g] = row[g]
        /\ row'[f] # None => row'[f].processing_status = "uploaded"
        /\ \/ req'[r].pc = "done" /\ req'[r].code = "500"
           \/ req'[r].pc = "refresh" /\ row'[f] # None
    <3>1. PICK applied \in BOOLEAN, raised \in BOOLEAN :
            /\ CommitEnds(FitsColumns(req[r].obj), applied, raised)
            /\ row' = IF applied THEN [row EXCEPT ![f] = req[r].obj] ELSE row
            /\ IF raised THEN Answer(r, "500")
                         ELSE CreateGoto(r, "inserted", req[r].obj)
      BY <1>3 DEF CreateInsert
    <3>2. ~raised => applied
      BY <3>1 DEF CommitEnds
    <3>3. /\ \A q \in Requests \ {r} : req'[q] = req[q]
          /\ req'[r].op = "create" /\ req'[r].file = f
          /\ raised => req'[r].pc = "done" /\ req'[r].code = "500"
          /\ ~raised => req'[r].pc = "refresh"
      BY <1>0, <2>1, <3>1, AnswerFacts, CreateGotoFacts DEF At, CreateNext
    <3>4. /\ \A g \in Files \ {f} : row'[g] = row[g]
          /\ applied => row'[f] = req[r].obj
          /\ ~applied => row'[f] = None
      BY <1>0, <2>1, <2>2, <3>1 DEF Untouched
    <3>5. QED
      BY <2>2, <2>3, <3>2, <3>3, <3>4
  <2>5. FreshInv'
    BY <2>1, <2>2, <2>4 DEF IndInv, FreshInv, Untouched
  <2>6. CreateInv'
    BY <2>1, <2>2, <2>4 DEF IndInv, CreateInv, Untouched, Undecided, Committed, At,
                            TypeInv, SessionOK
  <2>7. KnownInv'
    BY <2>1, <2>2, <2>4 DEF IndInv, KnownInv, Known, Untouched, Undecided, At, Active,
                            TaskAt, TypeInv, SessionOK, TaskOK
  <2>8. UnlinkInv' /\ TaskInv'
    BY <2>1 DEF IndInv, UnlinkInv, TaskInv, TaskAt
  <2>9. LossMeansDelete'
    BY <2>1, <2>2, <2>4 DEF IndInv, LossMeansDelete, Untouched, At
  <2>10. DeletedIsGone'
    BY <2>1, <2>2, <2>4 DEF IndInv, DeletedIsGone, Untouched, At, TypeInv, SessionOK
  <2>11. StatusMatchesAlerts'
    BY <2>1, <2>2, <2>4 DEF IndInv, StatusMatchesAlerts, Untouched
  <2>12. CreatedIsUploaded'
    BY <2>4 DEF IndInv, CreatedIsUploaded, At
  <2>13. QED
    BY <2>5, <2>6, <2>7, <2>8, <2>9, <2>10, <2>11, <2>12 DEF IndInv
<1>4. ASSUME NEW r \in Requests, CreateRefresh(r)
      PROVE  IndInv'
  <2> DEFINE f == req[r].file
  <2>1. /\ At(r, "create", "refresh") /\ f \in Files /\ Known(f)
        /\ UNCHANGED <<row, alerts, blobs, used, queue, task, unlinked>>
    BY <1>4, <1>b DEF CreateRefresh, At, Active, Undecided
  <2>2. row[f] # None => row[f].processing_status = "uploaded"
    BY <2>1 DEF IndInv, CreateInv, Committed, StatusMatchesAlerts
  <2>3. /\ \A q \in Requests \ {r} : req'[q] = req[q]
        /\ req'[r].op = "create" /\ req'[r].file = f
        /\ \/ req'[r].pc = "done" /\ req'[r].code = "500"
           \/ /\ req'[r].pc = "enqueue"
              /\ req'[r].obj.processing_status = "uploaded"
    BY <1>0, <1>4, <2>1, <2>2, AnswerFacts, CreateGotoFacts
       DEF CreateRefresh, At, CreateNext
  <2>4. QED
    BY <1>e, <2>1, <2>3 DEF At, Undecided, Committed
<1>5. ASSUME NEW r \in Requests, CreateEnqueue(r)
      PROVE  IndInv'
  <2> DEFINE f == req[r].file
  <2>1. /\ At(r, "create", "enqueue") /\ f \in Files /\ Known(f)
        /\ UNCHANGED <<row, alerts, blobs, used, redeliveries, task, unlinked>>
    BY <1>5, <1>b DEF CreateEnqueue, At, Active, Undecided
  <2>2. /\ f \in used /\ \A q \in Requests : Undecided(q) => req[q].file # f
        /\ \A q \in Requests \ {r} : Committed(q) => req[q].file # f
        /\ req[r].obj.processing_status = "uploaded" /\ req[r].obj # None
    BY <1>a, <2>1 DEF IndInv, CreateInv, Committed, TypeInv, SessionOK
  <2>3. \A g \in Files \ {f} : queue'[g] = queue[g]
    BY <1>0, <1>5, <2>1 DEF CreateEnqueue
  <2>4. /\ \A q \in Requests \ {r} : req'[q] = req[q]
        /\ req'[r].op = "create" /\ req'[r].pc = "done" /\ req'[r].file = f
        /\ \/ req'[r].code = "500"
           \/ req'[r].code = "201" /\ req'[r].obj = req[r].obj
    BY <1>0, <1>5, AnswerFacts, CreateGotoFacts DEF CreateEnqueue, At, CreateNext
  <2>5. FreshInv'
    BY <2>1, <2>2, <2>3, <2>4 DEF IndInv, FreshInv, Untouched
  <2>6. CreateInv'
    BY <2>1, <2>2, <2>3, <2>4 DEF IndInv, CreateInv, Untouched, Undecided, Committed,
                                  At, TypeInv, SessionOK
  <2>7. KnownInv'
    BY <2>1, <2>3, <2>4 DEF IndInv, KnownInv, Known, Undecided, At, Active, TaskAt
  <2>8. UnlinkInv' /\ TaskInv' /\ StatusMatchesAlerts'
    BY <2>1 DEF IndInv, UnlinkInv, TaskInv, TaskAt, StatusMatchesAlerts
  <2>9. LossMeansDelete' /\ DeletedIsGone'
    BY <2>1, <2>4 DEF IndInv, LossMeansDelete, DeletedIsGone, At
  <2>10. CreatedIsUploaded'
    BY <2>2, <2>4 DEF IndInv, CreatedIsUploaded, At
  <2>11. QED
    BY <2>5, <2>6, <2>7, <2>8, <2>9, <2>10 DEF IndInv
<1>6. ASSUME NEW r \in Requests, NEW f \in Files, NEW title \in Titles,
             PatchGet(r, f, title)
      PROVE  IndInv'
  <2>1. /\ \A q \in Requests \ {r} : req'[q] = req[q]
        /\ req'[r].op = "patch" /\ req'[r].file = f
        /\ \/ req'[r].pc = "done" /\ req'[r].code = "404"
           \/ req'[r].pc = "commit" /\ Known(f)
    BY <1>0, <1>6, RefuseFacts, BeginFacts DEF PatchGet, Known
  <2>2. QED
    BY <1>6, <1>e, <2>1 DEF PatchGet, At, Undecided, Committed
<1>7. ASSUME NEW r \in Requests, PatchCommit(r)
      PROVE  IndInv'
  <2> DEFINE f == req[r].file
             old == req[r].obj
             new == [old EXCEPT !.title = req[r].title]
  <2>1. /\ At(r, "patch", "commit") /\ f \in Files /\ Known(f)
        /\ old \in Row /\ req[r].title \in Titles
        /\ UNCHANGED <<alerts, blobs, used, queue, redeliveries, task, unlinked>>
    BY <1>7, <1>b DEF PatchCommit, At, Active, Undecided, TypeInv, SessionOK
  <2>2. new \in Row /\ new.processing_status = old.processing_status
    BY <2>1 DEF Row
  <2>3. PICK applied \in BOOLEAN, raised \in BOOLEAN :
          /\ CommitEnds(PatchMayCommit(f, old, new), applied, raised)
          /\ row' = IF applied /\ new # old
                      THEN [row EXCEPT ![f] = Merge(@, old, new)] ELSE row
          /\ IF raised THEN Answer(r, "500") ELSE Goto(r, "reread")
    BY <1>7 DEF PatchCommit
  <2>4. /\ \A q \in Requests \ {r} : req'[q] = req[q]
        /\ req'[r].op = "patch" /\ req'[r].file = f
        /\ \/ req'[r].pc = "done" /\ req'[r].code = "500"
           \/ req'[r].pc = "reread"
    BY <1>0, <2>1, <2>3, AnswerFacts, GotoFacts DEF At
  <2> HIDE DEF old, new
  <2>5. /\ \A g \in Files \ {f} : row'[g] = row[g]
        /\ \/ row'[f] = row[f]
           \/ row[f] \in Row /\ row'[f] = Merge(row[f], old, new)
    BY <1>0, <2>1, <2>3 DEF CommitEnds, PatchMayCommit
  <2>6. ASSUME NEW g \in Files
        PROVE  /\ row'[g] = None <=> row[g] = None
               /\ row[g] # None =>
                    row'[g].processing_status = row[g].processing_status
    BY <2>1, <2>2, <2>5, MergeFacts
  <2>7. QED
    <3>1. FreshInv'
      BY <1>a, <2>1, <2>4, <2>6 DEF IndInv, FreshInv, Untouched
    <3>2. CreateInv'
      BY <1>a, <2>1, <2>4, <2>6 DEF IndInv, CreateInv, Untouched, Undecided, Committed,
                                    At, TypeInv, SessionOK
    <3>3. KnownInv'
      BY <2>1, <2>4, <2>6 DEF IndInv, KnownInv, Known, Undecided, At, Active, TaskAt,
                              TypeInv, SessionOK, TaskOK
    <3>4. UnlinkInv' /\ TaskInv'
      BY <2>1 DEF IndInv, UnlinkInv, TaskInv, TaskAt
    <3>5. LossMeansDelete'
      BY <2>1, <2>4, <2>6 DEF IndInv, LossMeansDelete, At
    <3>6. DeletedIsGone'
      BY <2>1, <2>4, <2>6 DEF IndInv, DeletedIsGone, At, TypeInv, SessionOK
    <3>7. StatusMatchesAlerts'
      BY <2>1, <2>6 DEF IndInv, StatusMatchesAlerts
    <3>8. CreatedIsUploaded'
      BY <2>4 DEF IndInv, CreatedIsUploaded, At
    <3>9. QED
      BY <3>1, <3>2, <3>3, <3>4, <3>5, <3>6, <3>7, <3>8 DEF IndInv
<1>8. ASSUME NEW r \in Requests, PatchReread(r)
      PROVE  IndInv'
  <2>1. At(r, "patch", "reread") /\ req[r].file \in Files /\ Known(req[r].file)
    BY <1>8, <1>b DEF PatchReread, At, Active, Undecided
  <2>2. /\ \A q \in Requests \ {r} : req'[q] = req[q]
        /\ req'[r].op = "patch" /\ req'[r].pc = "done" /\ req'[r].file = req[r].file
    BY <1>0, <1>8, <2>1, AnswerFacts DEF PatchReread, At
  <2>3. QED
    BY <1>8, <1>e, <2>1, <2>2 DEF PatchReread, At, Undecided, Committed
<1>9. ASSUME NEW r \in Requests, NEW f \in Files, DeleteGet(r, f)
      PROVE  IndInv'
  <2>1. /\ \A q \in Requests \ {r} : req'[q] = req[q]
        /\ req'[r].op = "delete" /\ req'[r].file = f
        /\ \/ req'[r].pc = "done" /\ req'[r].code = "404"
           \/ req'[r].pc = "unlink" /\ Known(f)
    BY <1>0, <1>9, RefuseFacts, BeginFacts DEF DeleteGet, Known
  <2>2. QED
    BY <1>9, <1>e, <2>1 DEF DeleteGet, At, Undecided, Committed
<1>10. ASSUME NEW r \in Requests, DeleteUnlink(r)
       PROVE  IndInv'
  <2> DEFINE f == req[r].file
  <2>1. /\ At(r, "delete", "unlink") /\ f \in Files /\ Known(f)
        /\ UNCHANGED <<row, alerts, used, queue, redeliveries, task>>
    BY <1>10, <1>b DEF DeleteUnlink, At, Active, Undecided
  <2>2. CASE Answer(r, "500") /\ UNCHANGED <<blobs, unlinked>>
    <3>1. /\ \A q \in Requests \ {r} : req'[q] = req[q]
          /\ req'[r].op = "delete" /\ req'[r].pc = "done" /\ req'[r].file = f
          /\ req'[r].code = "500"
      BY <1>0, <2>1, <2>2, AnswerFacts DEF At
    <3>2. QED
      BY <1>e, <2>1, <2>2, <3>1 DEF At, Undecided, Committed
  <2>3. CASE /\ Goto(r, "commit")
             /\ blobs' = blobs \ {f} /\ unlinked' = unlinked \cup {f}
    <3>1. /\ \A q \in Requests \ {r} : req'[q] = req[q]
          /\ req'[r].op = "delete" /\ req'[r].pc = "commit" /\ req'[r].file = f
      BY <1>0, <2>1, <2>3, GotoFacts DEF At
    <3>2. FreshInv'
      BY <1>a, <2>1, <2>3, <3>1 DEF IndInv, FreshInv, Untouched
    <3>3. UnlinkInv'
      BY <2>1, <2>3 DEF IndInv, UnlinkInv
    <3>4. CreateInv'
      BY <1>a, <2>1, <2>3, <3>1 DEF IndInv, CreateInv, Untouched, Undecided, Committed, At
    <3>5. KnownInv'
      BY <2>1, <2>3, <3>1 DEF IndInv, KnownInv, Known, Undecided, At, Active, TaskAt
    <3>6. TaskInv' /\ StatusMatchesAlerts'
      BY <2>1, <2>3 DEF IndInv, TaskInv, TaskAt, StatusMatchesAlerts
    <3>7. LossMeansDelete'
      BY <2>1, <2>3, <3>1 DEF IndInv, LossMeansDelete, At
    <3>8. DeletedIsGone' /\ CreatedIsUploaded'
      BY <2>1, <2>3, <3>1 DEF IndInv, DeletedIsGone, CreatedIsUploaded, At
    <3>9. QED
      BY <3>2, <3>3, <3>4, <3>5, <3>6, <3>7, <3>8 DEF IndInv
  <2>4. QED
    BY <1>10, <2>2, <2>3 DEF DeleteUnlink
<1>11. ASSUME NEW r \in Requests, DeleteCommit(r)
       PROVE  IndInv'
  <2> DEFINE f == req[r].file
  <2>1. /\ At(r, "delete", "commit") /\ f \in Files /\ Known(f)
        /\ UNCHANGED <<alerts, blobs, used, queue, redeliveries, task, unlinked>>
    BY <1>11, <1>b DEF DeleteCommit, At, Active, Undecided
  <2>2. f \in unlinked /\ f \notin blobs
    BY <2>1 DEF IndInv, KnownInv, UnlinkInv
  <2>3. PICK applied \in BOOLEAN, raised \in BOOLEAN :
          /\ CommitEnds(DeleteAllowed(f), applied, raised)
          /\ row' = IF applied THEN [row EXCEPT ![f] = None] ELSE row
          /\ Answer(r, IF raised THEN "500" ELSE "204")
    BY <1>11 DEF DeleteCommit
  <2>4. /\ \A q \in Requests \ {r} : req'[q] = req[q]
        /\ req'[r].op = "delete" /\ req'[r].pc = "done" /\ req'[r].file = f
        /\ req'[r].code = IF raised THEN "500" ELSE "204"
    BY <1>0, <2>1, <2>3, AnswerFacts DEF At
  <2>5. /\ \A g \in Files \ {f} : row'[g] = row[g]
        /\ row'[f] = row[f] \/ (row'[f] = None /\ alerts[f] = <<>>)
        /\ ~raised => row'[f] = None /\ alerts[f] = <<>>
    BY <1>0, <2>1, <2>3 DEF CommitEnds, DeleteAllowed
  <2>6. FreshInv'
    BY <1>a, <2>1, <2>4, <2>5 DEF IndInv, FreshInv, Untouched
  <2>7. CreateInv'
    BY <1>a, <2>1, <2>4, <2>5 DEF IndInv, CreateInv, Untouched, Undecided, Committed, At,
                                  TypeInv, SessionOK
  <2>8. KnownInv'
    BY <2>1, <2>2, <2>4, <2>5 DEF IndInv, KnownInv, Known, Undecided, At, Active, TaskAt,
                                  TypeInv, SessionOK, TaskOK
  <2>9. UnlinkInv' /\ TaskInv'
    BY <2>1 DEF IndInv, UnlinkInv, TaskInv, TaskAt
  <2>10. LossMeansDelete'
    BY <2>1, <2>2, <2>4, <2>5 DEF IndInv, LossMeansDelete, At
  <2>11. DeletedIsGone'
    BY <2>1, <2>2, <2>4, <2>5 DEF IndInv, DeletedIsGone, At, TypeInv, SessionOK
  <2>12. StatusMatchesAlerts'
    BY <2>1, <2>5 DEF IndInv, StatusMatchesAlerts
  <2>13. CreatedIsUploaded'
    BY <2>4 DEF IndInv, CreatedIsUploaded, At
  <2>14. QED
    BY <2>6, <2>7, <2>8, <2>9, <2>10, <2>11, <2>12, <2>13 DEF IndInv
<1>12. ASSUME NEW r \in Requests, NEW f \in Files, DownloadGet(r, f)
       PROVE  IndInv'
  <2>1. /\ \A q \in Requests \ {r} : req'[q] = req[q]
        /\ req'[r].op = "download" /\ req'[r].file = f
        /\ \/ req'[r].pc = "done" /\ req'[r].code = "404"
           \/ req'[r].pc = "exists" /\ Known(f)
    BY <1>0, <1>12, RefuseFacts, BeginFacts DEF DownloadGet, Known
  <2>2. QED
    BY <1>12, <1>e, <2>1 DEF DownloadGet, At, Undecided, Committed
<1>13. ASSUME NEW r \in Requests, DownloadExists(r) \/ DownloadSend(r)
       PROVE  IndInv'
  <2> DEFINE f == req[r].file
  <2>1. /\ req[r].op = "download" /\ f \in Files /\ Known(f)
        /\ f \notin blobs => f \in unlinked
        /\ UNCHANGED <<row, alerts, blobs, used, queue, task, unlinked>>
    BY <1>13, <1>a, <1>b DEF DownloadExists, DownloadSend, At, Active, Undecided
  <2>2. /\ \A q \in Requests \ {r} : req'[q] = req[q]
        /\ req'[r].op = "download" /\ req'[r].file = f
        /\ \/ req'[r].pc = "send"
           \/ req'[r].pc = "done" /\ (req'[r].code = "200" \/ f \notin blobs)
    BY <1>0, <1>13, <2>1, AnswerFacts, GotoFacts DEF DownloadExists, DownloadSend, At
  <2>3. QED
    BY <1>e, <2>1, <2>2 DEF At, Undecided, Committed
<1>14. ASSUME NEW w \in Workers, NEW f \in Files, TaskDeliver(w, f)
       PROVE  IndInv'
  <2>1. /\ queue[f] > 0 /\ Known(f)
        /\ UNCHANGED <<row, alerts, blobs, used, redeliveries, req, unlinked>>
    BY <1>14 DEF TaskDeliver, IndInv, KnownInv
  <2>2. /\ \A v \in Workers \ {w} : task'[v] = task[v]
        /\ task'[w].pc = "load" /\ task'[w].file = f
        /\ \A g \in Files \ {f} : queue'[g] = queue[g]
    BY <1>0, <1>14 DEF TaskDeliver, Task
  <2>3. /\ f \in used
        /\ \A q \in Requests : Undecided(q) \/ Committed(q) => req[q].file # f
    <3>1. queue[f] # 0
      BY <1>0, <2>1
    <3>2. \A q \in Requests : Committed(q) => req[q].file # f
      BY <3>1 DEF IndInv, CreateInv
    <3>3. QED
      BY <1>a, <2>1, <3>2
  <2>4. FreshInv'
    BY <2>1, <2>2, <2>3 DEF IndInv, FreshInv, Untouched
  <2>5. CreateInv'
    BY <2>1, <2>2, <2>3 DEF IndInv, CreateInv, Untouched, Undecided, Committed, At,
                            TypeInv, SessionOK
  <2>6. KnownInv'
    BY <2>1, <2>2 DEF IndInv, KnownInv, Known, Undecided, At, Active, TaskAt
  <2>7. TaskInv'
    BY <2>1, <2>2 DEF IndInv, TaskInv, TaskAt
  <2>8. UnlinkInv' /\ LossMeansDelete' /\ StatusMatchesAlerts'
    BY <2>1 DEF IndInv, UnlinkInv, LossMeansDelete, StatusMatchesAlerts, At
  <2>9. DeletedIsGone' /\ CreatedIsUploaded'
    BY <2>1 DEF IndInv, DeletedIsGone, CreatedIsUploaded, At
  <2>10. QED
    BY <2>4, <2>5, <2>6, <2>7, <2>8, <2>9 DEF IndInv
<1>15. ASSUME NEW w \in Workers, TaskLoad(w)
       PROVE  IndInv'
  <2> DEFINE f == task[w].file
  <2>1. TaskAt(w, "load") /\ f \in Files
    BY <1>15, <1>c DEF TaskLoad, TaskAt
  <2>2. CASE TaskEnds(w)
    BY <1>15, <1>g, <2>2 DEF TaskLoad
  <2>3. CASE /\ row[f] # None
             /\ task' = [task EXCEPT ![w].pc = "check", ![w].base = row[f]]
    <3>1. /\ \A v \in Workers \ {w} : task'[v] = task[v]
          /\ task'[w].pc = "check" /\ task'[w].file = f /\ task'[w].base = row[f]
      BY <1>0, <2>3 DEF Task
    <3>2. /\ row[f].processing_status # "processing"
          /\ row[f].processing_status # "uploaded" => alerts[f] # <<>>
      BY <2>1, <2>3 DEF IndInv, StatusMatchesAlerts
    <3>3. QED
      BY <1>15, <1>f, <2>1, <3>1, <3>2 DEF TaskLoad, TaskAt
  <2>4. QED
    BY <1>15, <2>2, <2>3 DEF TaskLoad
<1>16. ASSUME NEW w \in Workers, TaskCheck(w)
       PROVE  IndInv'
  <2> DEFINE f == task[w].file
             found == f \in blobs
  <2>1. TaskAt(w, "check") /\ f \in Files /\ (~found => f \in unlinked)
    BY <1>16, <1>a, <1>c DEF TaskCheck, TaskAt
  <2>2. /\ task[w].base.processing_status # "processing"
        /\ task[w].base.processing_status # "uploaded" => alerts[f] # <<>>
    BY <2>1 DEF IndInv, TaskInv, TaskAt
  <2>3. /\ \A v \in Workers \ {w} : task'[v] = task[v]
        /\ task'[w].pc = IF found THEN "extract" ELSE "commit"
        /\ task'[w].file = f
        /\ task'[w].base = task[w].base /\ task'[w].found = found
    BY <1>0, <1>16 DEF TaskCheck, Task
  <2>4. /\ TaskAt(w, "extract")' => task'[w].found
        /\ TaskAt(w, "commit")' /\ ~task'[w].found => f \in unlinked
    BY <2>1, <2>3 DEF TaskAt
  <2>5. QED
    BY <1>16, <1>f, <2>1, <2>2, <2>3, <2>4 DEF TaskCheck, TaskAt
<1>17. ASSUME NEW w \in Workers, TaskExtract(w)
       PROVE  IndInv'
  <2> DEFINE f == task[w].file
  <2>1. TaskAt(w, "extract") /\ f \in Files
    BY <1>17, <1>c DEF TaskExtract, TaskAt
  <2>2. CASE TaskEnds(w)
    BY <1>17, <1>g, <2>2 DEF TaskExtract
  <2>3. CASE TaskGoto(w, "commit")
    <3>1. /\ \A v \in Workers \ {w} : task'[v] = task[v]
          /\ task'[w].pc = "commit" /\ task'[w].file = f
          /\ task'[w].base = task[w].base /\ task'[w].found = task[w].found
      BY <1>0, <2>3 DEF TaskGoto, Task
    <3>2. /\ task[w].base.processing_status # "processing"
          /\ task[w].base.processing_status # "uploaded" => alerts[f] # <<>>
          /\ task[w].found
      BY <2>1 DEF IndInv, TaskInv, TaskAt
    <3>3. QED
      BY <1>17, <1>f, <2>1, <3>1, <3>2 DEF TaskExtract, TaskAt
  <2>4. QED
    BY <1>17, <2>2, <2>3 DEF TaskExtract
<1>18. ASSUME NEW w \in Workers, TaskCommit(w)
       PROVE  IndInv'
  <2> DEFINE f == task[w].file
             old == task[w].base
             new == Outcome(old, task[w].found)
             merged == Merge(row[f], old, new)
  <2>1. /\ TaskAt(w, "commit") /\ f \in Files /\ Known(f)
        /\ old \in Row /\ task[w].found \in BOOLEAN
        /\ UNCHANGED <<blobs, used, queue, redeliveries, req, unlinked>>
    BY <1>0, <1>18, <1>c DEF TaskCommit, TaskAt, TypeInv, TaskOK, Task
  <2>2. /\ \A v \in Workers \ {w} : task'[v] = task[v]
        /\ task'[w].pc = "idle" /\ task'[w].file = None
    BY <1>0, <1>18, TaskEndsFacts DEF TaskCommit
  <2>3. /\ new \in Row
        /\ new.processing_status = IF task[w].found THEN "processed" ELSE "failed"
        /\ old.processing_status # "processing"
        /\ old.processing_status # "uploaded" => alerts[f] # <<>>
        /\ ~task[w].found => f \in unlinked
    BY <2>1, OutcomeFacts DEF IndInv, TaskInv, TaskAt
  <2>4. PICK applied \in BOOLEAN, raised \in BOOLEAN :
          /\ CommitEnds(TaskMayCommit(f), applied, raised)
          /\ row' = IF applied THEN [row EXCEPT ![f] = Merge(@, old, new)] ELSE row
          /\ alerts' = IF applied THEN [alerts EXCEPT ![f] = Append(@, AlertFor(new))]
                                  ELSE alerts
    BY <1>18 DEF TaskCommit, TaskSaves
  <2> HIDE DEF old, new
  <2>5. CASE ~applied
    <3>1. TaskEnds(w) /\ UNCHANGED <<row, alerts>>
      BY <1>18, <2>4, <2>5 DEF TaskCommit
    <3>2. QED
      BY <1>g, <2>1, <3>1
  <2>6. CASE applied
    <3>1. row[f] \in Row
      BY <1>0, <2>1, <2>4, <2>6 DEF CommitEnds, TaskMayCommit
    <3>2. /\ merged \in Row
          /\ merged.processing_status
               = IF new.processing_status = old.processing_status
                   THEN row[f].processing_status ELSE new.processing_status
      BY <2>1, <2>3, <3>1, MergeFacts
    <3> HIDE DEF merged
    <3>3. /\ merged.processing_status \in {"processed", "failed"}
          /\ merged.processing_status = "failed"
               => f \in unlinked \/ row[f].processing_status = "failed"
      BY <2>1, <2>3, <3>1, <3>2 DEF IndInv, StatusMatchesAlerts
    <3>4. /\ \A g \in Files \ {f} : row'[g] = row[g] /\ alerts'[g] = alerts[g]
          /\ row'[f] = merged /\ alerts'[f] # <<>> /\ row[f] # None /\ row'[f] # None
      <4>1. alerts'[f] = Append(alerts[f], AlertFor(new))
        BY <1>0, <2>1, <2>4, <2>6
      <4>2. alerts'[f] # <<>>
        BY <1>0, <2>1, <4>1, AppendNotEmpty
      <4>3. QED
        BY <1>0, <2>1, <2>4, <2>6, <3>1, <3>2, <4>2 DEF merged
    <3>5. \A q \in Requests : Committed(q) => req[q].file # f
      BY <2>1 DEF IndInv, CreateInv
    <3>6. FreshInv'
      BY <1>a, <2>1, <2>2, <3>4 DEF IndInv, FreshInv, Untouched
    <3>7. CreateInv'
      BY <1>a, <2>1, <2>2, <3>4, <3>5 DEF IndInv, CreateInv, Untouched, Undecided,
                                          Committed, At, TypeInv, SessionOK
    <3>8. KnownInv'
      BY <2>1, <2>2, <3>4 DEF IndInv, KnownInv, Known, Undecided, At, Active, TaskAt,
                              TypeInv, SessionOK, TaskOK
    <3>9. TaskInv'
      BY <2>1, <2>2, <3>4 DEF IndInv, TaskInv, TaskAt, TypeInv, TaskOK
    <3>10. LossMeansDelete'
      BY <2>1, <3>3, <3>4 DEF IndInv, LossMeansDelete, At
    <3>11. DeletedIsGone'
      BY <2>1, <3>4 DEF IndInv, DeletedIsGone, At, TypeInv, SessionOK
    <3>12. StatusMatchesAlerts'
      BY <2>1, <3>3, <3>4 DEF IndInv, StatusMatchesAlerts
    <3>13. UnlinkInv' /\ CreatedIsUploaded'
      BY <2>1 DEF IndInv, UnlinkInv, CreatedIsUploaded, At
    <3>14. QED
      BY <3>6, <3>7, <3>8, <3>9, <3>10, <3>11, <3>12, <3>13 DEF IndInv
  <2>7. QED
    BY <2>5, <2>6
<1>19. ASSUME NEW f \in Files, Redeliver(f) \/ LoseMessage(f)
       PROVE  IndInv'
  <2>1. /\ queue[f] > 0
        /\ UNCHANGED <<row, alerts, blobs, used, req, task, unlinked>>
        /\ \A g \in Files \ {f} : queue'[g] = queue[g]
    BY <1>0, <1>19 DEF Redeliver, LoseMessage
  <2>2. \A g \in Files : queue[g] = 0 => queue'[g] = queue[g]
    BY <2>1
  <2>3. FreshInv'
    BY <2>1, <2>2 DEF IndInv, FreshInv, Untouched
  <2>4. CreateInv'
    BY <2>1, <2>2 DEF IndInv, CreateInv, Untouched, Undecided, Committed, At,
                      TypeInv, SessionOK
  <2>5. KnownInv'
    BY <2>1 DEF IndInv, KnownInv, Known, Undecided, At, Active, TaskAt
  <2>6. UnlinkInv' /\ TaskInv' /\ LossMeansDelete' /\ StatusMatchesAlerts'
    BY <2>1 DEF IndInv, UnlinkInv, TaskInv, TaskAt, LossMeansDelete,
                StatusMatchesAlerts, At
  <2>7. DeletedIsGone' /\ CreatedIsUploaded'
    BY <2>1 DEF IndInv, DeletedIsGone, CreatedIsUploaded, At
  <2>8. QED
    BY <2>3, <2>4, <2>5, <2>6, <2>7 DEF IndInv
<1>20. ASSUME NEW w \in Workers, WorkerCrash(w)
       PROVE  IndInv'
  BY <1>20, <1>g DEF WorkerCrash
<1>21. CASE ApiCrash
  <2>1. /\ UNCHANGED <<row, alerts, blobs, used, queue, redeliveries, task, unlinked>>
        /\ \A r \in Requests :
             \/ req'[r] = req[r] /\ ~Active(r)
             \/ req'[r].pc = "idle" /\ req'[r].op = "none" /\ req'[r].file = None
    BY <1>21 DEF ApiCrash, IdleRequest, Handler
  <2>2. FreshInv' /\ CreateInv'
    BY <2>1 DEF IndInv, FreshInv, CreateInv, Untouched, Undecided, Committed, At, Active
  <2>3. KnownInv'
    BY <2>1 DEF IndInv, KnownInv, Known, Undecided, At, Active, TaskAt
  <2>4. LossMeansDelete' /\ DeletedIsGone' /\ CreatedIsUploaded'
    BY <2>1 DEF IndInv, LossMeansDelete, DeletedIsGone, CreatedIsUploaded, At
  <2>5. UnlinkInv' /\ TaskInv' /\ StatusMatchesAlerts'
    BY <2>1 DEF IndInv, UnlinkInv, TaskInv, TaskAt, StatusMatchesAlerts
  <2>6. QED
    BY <2>2, <2>3, <2>4, <2>5 DEF IndInv
<1>22. CASE UNCHANGED vars
  BY <1>22, <1>d DEF vars
<1>23. QED
  BY <1>1, <1>2, <1>3, <1>4, <1>5, <1>6, <1>7, <1>8, <1>9, <1>10, <1>11, <1>12, <1>13,
     <1>14, <1>15, <1>16, <1>17, <1>18, <1>19, <1>20, <1>21, <1>22
     DEF Next, RequestArrives, HandlerStep, TaskStep, Environment

\* IndInv holds in every state the backend can reach.
THEOREM Inductive == Spec => []IndInv
BY TypeInit, TypeNext, IndInit, IndNext, PTL DEF Spec

-----------------------------------------------------------------------------
(* The properties.                                                         *)

\* Only a DELETE can cost a file its content: no interleaving of uploads,
\* workers, crashes and lost commits leaves a row without its blob, marks one
\* failed or fails a download of one that no DELETE has unlinked.
THEOREM LossAlwaysMeansDelete == Spec => []LossMeansDelete
<1>1. IndInv => LossMeansDelete
  BY DEF IndInv
<1>2. QED
  BY Inductive, <1>1, PTL

\* A DELETE answered 204 is final: neither a PATCH nor a worker that loaded
\* the row before can bring the row, the blob or an alert back.
THEOREM DeletedStaysGone == Spec => []DeletedIsGone
<1>1. IndInv => DeletedIsGone
  BY DEF IndInv
<1>2. QED
  BY Inductive, <1>1, PTL

\* A committed row and its alerts always tell the same story, however many
\* times its task is delivered and whoever commits between.
THEOREM StatusAlwaysMatchesAlerts == Spec => []StatusMatchesAlerts
<1>1. IndInv => StatusMatchesAlerts
  BY DEF IndInv
<1>2. QED
  BY Inductive, <1>1, PTL

\* The commit of create_file precedes the message: a task without a row means
\* a DELETE.
THEOREM NoTaskOvertakesInsert == Spec => []MissingRowMeansDeleted
<1>1. IndInv => MissingRowMeansDeleted
  BY DEF IndInv, KnownInv, Known, MissingRowMeansDeleted, TaskAt
<1>2. QED
  BY Inductive, <1>1, PTL

\* Every 201 says "uploaded".
THEOREM CreatedBodyIsUploaded == Spec => []CreatedIsUploaded
<1>1. IndInv => CreatedIsUploaded
  BY DEF IndInv
<1>2. QED
  BY Inductive, <1>1, PTL

\* A task's flush leaves the title the table holds: Outcome has the title it
\* loaded, so Merge picks the current one.
LEMMA TaskKeepsTitle ==
  ASSUME NEW current \in Row, NEW old \in Row, NEW found \in BOOLEAN
  PROVE  Merge(current, old, Outcome(old, found)).title = current.title
<1>1. Outcome(old, found).title = old.title
  BY OutcomeFacts
<1>2. QED
  BY <1>1 DEF Merge, Pick

\* No update is lost: the title of a row that stays is changed by the commit
\* of a PATCH of that file only, and to the title that PATCH carries.
THEOREM TitlesChangeByPatchOnly == Spec => TitleChangesByPatch
<1> DEFINE Changed(f) == row[f] # None /\ row'[f] # None /\ row'[f].title # row[f].title
           Patched(f) == \E r \in Requests : /\ At(r, "patch", "commit") /\ req[r].file = f
                                              /\ row'[f].title = req[r].title
<1>1. ASSUME TypeInv, IndInv, [Next]_vars, NEW f \in Files, Changed(f)
      PROVE  Patched(f)
  <2> USE NoneAssumption
  <2>0. row \in [Files -> Row \cup {None}] /\ task \in [Workers -> Task]
    BY <1>1 DEF TypeInv, TypeOK
  <2>1. ~UNCHANGED row
    BY <1>1
  <2>2. ASSUME NEW r \in Requests, CreateInsert(r)
        PROVE  FALSE
    <3>1. /\ row[req[r].file] = None /\ req[r].file \in Files
      BY <1>1, <2>2 DEF CreateInsert, IndInv, CreateInv, Undecided, Untouched,
                        TypeInv, SessionOK, At
    <3>2. row' = [row EXCEPT ![req[r].file] = req[r].obj]
      BY <2>1, <2>2 DEF CreateInsert
    <3>3. QED
      BY <1>1, <2>0, <3>1, <3>2
  <2>3. ASSUME NEW r \in Requests, PatchCommit(r)
        PROVE  Patched(f)
    <3> DEFINE old == req[r].obj
               new == [old EXCEPT !.title = req[r].title]
    <3>1. /\ At(r, "patch", "commit") /\ req[r].file \in Files
          /\ old \in Row /\ req[r].title \in Titles
      BY <1>1, <2>3 DEF PatchCommit, TypeInv, SessionOK, At
    <3>2. new.title = req[r].title
      BY <3>1 DEF Row
    <3>3. row' = [row EXCEPT ![req[r].file] = Merge(@, old, new)]
      BY <2>1, <2>3 DEF PatchCommit
    <3> HIDE DEF old, new
    <3>4. f = req[r].file /\ row'[f] = Merge(row[f], old, new)
      BY <1>1, <2>0, <3>1, <3>3
    <3>5. row'[f].title = new.title
      BY <1>1, <3>4 DEF Merge, Pick
    <3>6. QED
      BY <3>1, <3>2, <3>4, <3>5
  <2>4. ASSUME NEW r \in Requests, DeleteCommit(r)
        PROVE  FALSE
    <3>1. PICK applied \in BOOLEAN :
            row' = IF applied THEN [row EXCEPT ![req[r].file] = None] ELSE row
      BY <2>4 DEF DeleteCommit
    <3>2. QED
      BY <1>1, <2>0, <3>1
  <2>5. ASSUME NEW w \in Workers, TaskCommit(w)
        PROVE  FALSE
    <3> DEFINE g == task[w].file
               old == task[w].base
               new == Outcome(old, task[w].found)
    <3>1. g \in Files /\ old \in Row /\ task[w].found \in BOOLEAN
      BY <1>1, <2>0, <2>5 DEF TaskCommit, TypeInv, TaskOK, TaskAt, Task
    <3>2. row' = [row EXCEPT ![g] = Merge(@, old, new)]
      BY <2>1, <2>5 DEF TaskCommit, TaskSaves
    <3> HIDE DEF old, new
    <3>3. f = g /\ row[f] \in Row /\ row'[f] = Merge(row[f], old, new)
      BY <1>1, <2>0, <3>1, <3>2
    <3>4. row'[f].title = row[f].title
      BY <3>1, <3>3, TaskKeepsTitle DEF old, new
    <3>5. QED
      BY <1>1, <3>4
  <2>6. QED
    BY <1>1, <2>1, <2>2, <2>3, <2>4, <2>5
       DEF Next, vars, RequestArrives, HandlerStep, TaskStep, Environment, CreateSave,
           CreateDiscard, CreateRefresh, CreateEnqueue, PatchGet, PatchReread, DeleteGet,
           DeleteUnlink, DownloadGet, DownloadExists, DownloadSend, TaskDeliver,
           TaskLoad, TaskCheck, TaskExtract, Redeliver, LoseMessage, WorkerCrash, ApiCrash
<1>2. TypeInv /\ IndInv /\ [Next]_vars => [\A f \in Files : Changed(f) => Patched(f)]_vars
  BY <1>1
<1>3. QED
  BY TypeInit, TypeNext, IndInit, IndNext, <1>2, PTL DEF Spec, TitleChangesByPatch
=============================================================================

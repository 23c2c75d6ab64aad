----------------------- MODULE FrontendPollingProofs -----------------------
(***************************************************************************)
(* The safety of the page for every number of files: its variables keep    *)
(* their types, the polling of the list stops of its own accord only when  *)
(* the list is right about everything that was uploaded from it, and what  *)
(* the page shows never goes back to what it was.                          *)
(***************************************************************************)
EXTENDS FrontendPolling, TLAPS

Answers == List \cup (SUBSET Files)
Fetch == [stage : {"idle", "sent", "answered", "retry"}, tries : 0..1,
          answer : Answers \cup {None}]

\* PageTypeOK with the shapes of the records, and with what a POST in flight
\* knows of its file.
PageInv ==
  /\ PageTypeOK
  /\ cache \in [Query -> Answers \cup {None}] /\ fetch \in [Query -> Fetch]
  /\ post \in [stage : {"none", "sent", "committed"}, file : Files \cup {None}]
  /\ post.stage # "none" => post.file \in Files
  /\ post.stage = "committed" => phase[post.file] # "absent"

\* A list read since the upload of f has f as it was uploaded or as it is now.
Recent(list, f) == list[f] \in {"uploaded", phase[f]}

\* While no request has failed, the list of the page and the one on its way to
\* it are younger than every upload from the page; one that is still to be read
\* will be.
RecentInv ==
  failures = 0 =>
    /\ fetch["files"].stage # "retry"
    /\ \A f \in mine :
         /\ phase[f] # "absent" /\ cache["files"] # None
         /\ fetch["files"].stage = "idle" => Recent(cache["files"], f)
         /\ fetch["files"].stage = "answered" => Recent(fetch["files"].answer, f)

\* The status of a file may move on from a to b: it settles or goes, once.
Follows(a, b) == b = a \/ a = "absent" \/ (a = "uploaded" /\ b # "absent")

\* Every file of one list may have moved on to what it is in the other.
ListFollows(list, later) == \A f \in Files : Follows(list[f], later[f])

\* What is on the page, then the answer on its way to it, then the backend:
\* each is as old as the next or older.
OrderInv ==
  /\ cache["files"] # None => ListFollows(cache["files"], phase)
  /\ cache["alerts"] # None => cache["alerts"] \subseteq Snapshot("alerts")
  /\ fetch["files"].stage = "answered" =>
       /\ ListFollows(fetch["files"].answer, phase)
       /\ cache["files"] # None => ListFollows(cache["files"], fetch["files"].answer)
  /\ fetch["alerts"].stage = "answered" =>
       /\ fetch["alerts"].answer \subseteq Snapshot("alerts")
       /\ cache["alerts"] # None => cache["alerts"] \subseteq fetch["alerts"].answer

\* The page never goes back in time: no answer takes a file back to a status
\* it had before, or takes an alert away, whichever of timers, clicks, glances,
\* retries and uploads asked for it.  (queryFn of useFiles and useAlerts; one
\* fetch per query, and the answer of a cancelled one is dropped.)
PageMovesOn ==
  /\ cache["files"] # None =>
       cache'["files"] # None /\ ListFollows(cache["files"], cache'["files"])
  /\ cache["alerts"] # None =>
       cache'["alerts"] # None /\ cache["alerts"] \subseteq cache'["alerts"]

-----------------------------------------------------------------------------
(* The backend and the fetches.                                            *)

LEMMA QueryFacts == "files" \in Query /\ "alerts" \in Query
BY DEF Query

\* What the endpoints return is an answer of its query.
LEMMA SnapshotType ==
  ASSUME Backend!LifecycleTypeOK
  PROVE  Snapshot("files") \in List /\ Snapshot("alerts") \in SUBSET Files
BY DEF Snapshot, List, Backend!LifecycleTypeOK

\* A refetch leaves a fetch that is sent, or the one there was.
LEMMA RefetchFacts ==
  ASSUME fetch \in [Query -> Fetch], NEW q \in Query
  PROVE  /\ Sent \in Fetch /\ Sent.stage = "sent" /\ Idle \in Fetch /\ Idle.stage = "idle"
         /\ Join(q) \in {Sent, fetch[q]} /\ Restart(q) \in {Sent, fetch[q]}
         /\ fetch[q].stage = "idle" => Join(q) = Sent /\ Restart(q) = Sent
         /\ cache[q] # None => Restart(q) = Sent
BY DEF Fetch, Join, Restart, Sent, Idle

\* The steps of the backend keep its types and never bring a file back.
LEMMA BackendFacts ==
  ASSUME Backend!LifecycleTypeOK, NEW f \in Files,
         \/ Backend!Upload(f)
         \/ \E o \in Outcomes : Backend!Settle(f, o[1], o[2])
         \/ Backend!Remove(f)
  PROVE  /\ Backend!LifecycleTypeOK'
         /\ \A g \in Files \ {f} : phase'[g] = phase[g]
         /\ phase[f] \in {"absent", "uploaded"} /\ phase'[f] # "absent"
         /\ phase[f] = "absent" => phase'[f] = "uploaded"
<1> USE DEF Backend!LifecycleTypeOK
<1>1. CASE Backend!Upload(f)
  BY <1>1 DEF Backend!Upload, Backend!Phases
<1>2. CASE \E o \in Outcomes : Backend!Settle(f, o[1], o[2])
  <2>1. PICK o \in Outcomes : Backend!Settle(f, o[1], o[2])
    BY <1>2
  <2>2. o[1] \in Backend!Settled /\ o[2] \in Backend!Levels
    BY OutcomesAssumption
  <2>3. Append(feed[f], o[2]) \in Seq(Backend!Levels)
    BY <2>2
  <2>4. QED
    BY <2>1, <2>2, <2>3
       DEF Backend!Settle, Backend!Raise, Backend!Phases, Backend!Settled
<1>3. CASE Backend!Remove(f)
  BY <1>3 DEF Backend!Remove, Backend!Phases
<1>4. QED
  BY <1>1, <1>2, <1>3

-----------------------------------------------------------------------------
(* Types.                                                                  *)

LEMMA TypesInit == Init => PageInv
<1> SUFFICES ASSUME Init PROVE PageInv
  OBVIOUS
<1>1. Backend!LifecycleTypeOK
  BY DEF Init, Backend!LifecycleTypeOK, Backend!Phases
<1>2. QED
  BY <1>1, BoundsAssumption
     DEF Init, PageInv, PageTypeOK, Fetch, Sent, NoPost, Query, Answers

\* Every step keeps the types, one step of the proof for each kind of action.
LEMMA TypesStep == PageInv /\ [Next]_vars => PageInv'
<1> SUFFICES ASSUME PageInv, [Next]_vars PROVE PageInv'
  OBVIOUS
<1> USE BoundsAssumption, QueryFacts
<1>0. /\ PageTypeOK /\ Backend!LifecycleTypeOK
      /\ cache \in [Query -> Answers \cup {None}] /\ fetch \in [Query -> Fetch]
      /\ post \in [stage : {"none", "sent", "committed"}, file : Files \cup {None}]
      /\ post.stage # "none" => post.file \in Files
      /\ post.stage = "committed" => phase[post.file] # "absent"
      /\ failures \in 0..MaxTroubles /\ clicks \in 0..MaxTroubles
  BY DEF PageInv, PageTypeOK
\* A step that changes the fetches only, or a counter and the tab with them.
<1>f. ASSUME UNCHANGED <<phase, feed, post, mine>>,
             cache' = cache \/ \E q \in Query : /\ fetch[q].stage = "answered"
                                                /\ cache' = [cache EXCEPT ![q] = fetch[q].answer],
             fetch' \in [Query -> Fetch],
             \A q \in Query : fetch'[q].stage = "answered" =>
               fetch'[q].answer \in IF q = "files" THEN List ELSE SUBSET Files,
             focused' \in BOOLEAN, failures' \in 0..MaxTroubles,
             clicks' \in 0..MaxTroubles
      PROVE  PageInv'
  <2>1. Backend!LifecycleTypeOK'
    BY <1>0, <1>f DEF Backend!LifecycleTypeOK
  <2>2. /\ cache' \in [Query -> Answers \cup {None}]
        /\ cache'["files"] \in List \cup {None}
        /\ cache'["alerts"] \in (SUBSET Files) \cup {None}
    BY <1>0, <1>f DEF PageTypeOK, Query, Answers
  <2>3. QED
    BY <1>0, <1>f, <2>1, <2>2 DEF PageInv, PageTypeOK, Fetch
<1>1. ASSUME NEW q \in Query, Reads(q)
      PROVE  PageInv'
  <2>1. Snapshot(q) \in IF q = "files" THEN List ELSE SUBSET Files
    BY <1>0, SnapshotType DEF Query
  <2>2. /\ fetch'[q] \in Fetch /\ fetch'[q].answer = Snapshot(q)
        /\ fetch' = [fetch EXCEPT ![q] = fetch'[q]]
    BY <1>0, <1>1, <2>1 DEF Reads, Fetch, Answers
  <2>3. QED
    BY <1>0, <1>1, <1>f, <2>1, <2>2 DEF Reads, PageTypeOK
<1>2. ASSUME NEW q \in Query, Arrives(q)
      PROVE  PageInv'
  BY <1>0, <1>2, <1>f, RefetchFacts DEF Arrives, PageTypeOK
<1>3. ASSUME NEW q \in Query, Fails(q)
      PROVE  PageInv'
  <2>1. /\ fetch[q].tries \in 0..1 /\ Idle \in Fetch /\ Idle.stage = "idle"
        /\ MayRetry(fetch[q].tries) => fetch[q].tries = 0
    BY <1>0 DEF Fetch, Idle, MayRetry
  <2>2. \A n \in 0..1 :
          LET new == [Idle EXCEPT !.stage = "retry", !.tries = n]
          IN  new \in Fetch /\ new.stage = "retry"
    BY DEF Fetch, Idle
  <2>3. /\ fetch'[q] \in Fetch /\ fetch'[q].stage \in {"retry", "idle"}
        /\ fetch' = [fetch EXCEPT ![q] = fetch'[q]]
    BY <1>0, <1>3, <2>1, <2>2 DEF Fails, Idle
  <2>4. QED
    BY <1>0, <1>3, <1>f, <2>3 DEF Fails, PageTypeOK
<1>4. ASSUME NEW q \in Query, Retries(q) \/ Tick(q)
      PROVE  PageInv'
  <2>1. /\ fetch'[q] \in Fetch /\ fetch'[q].stage = "sent"
        /\ fetch' = [fetch EXCEPT ![q] = fetch'[q]]
    BY <1>0, <1>4, RefetchFacts DEF Retries, Tick, Fetch
  <2>2. QED
    BY <1>0, <1>4, <1>f, <2>1 DEF Retries, Tick, PageTypeOK
<1>5. ASSUME Hide
      PROVE  PageInv'
  BY <1>0, <1>5, <1>f DEF Hide, PageTypeOK
<1>6. ASSUME Focus \/ Refresh
      PROVE  PageInv'
  <2>1. /\ fetch' \in [Query -> Fetch]
        /\ \A q \in Query : fetch'[q] \in {Sent, fetch[q]}
    BY <1>0, <1>6, RefetchFacts DEF Focus, Refresh, Refocused
  <2>2. UNCHANGED <<phase, feed, post, mine, cache, failures>>
    BY <1>6 DEF Focus, Refresh
  <2>3. focused' \in BOOLEAN
    <3>1. CASE Focus
      BY <3>1 DEF Focus
    <3>2. CASE Refresh
      BY <1>0, <3>2 DEF Refresh, PageTypeOK
    <3>3. QED
      BY <1>6, <3>1, <3>2
  <2>4. clicks' \in 0..MaxTroubles
    BY <1>0, <1>6 DEF Focus, Refresh
  <2>5. \A q \in Query : fetch'[q].stage = "answered" =>
          fetch'[q].answer \in IF q = "files" THEN List ELSE SUBSET Files
    BY <1>0, <2>1, RefetchFacts DEF PageTypeOK
  <2>6. QED
    BY <1>0, <1>f, <2>1, <2>2, <2>3, <2>4, <2>5
<1>7. ASSUME NEW f \in Files, Submit(f)
      PROVE  PageInv'
  <2>1. Backend!LifecycleTypeOK'
    BY <1>0, <1>7 DEF Submit, Backend!LifecycleTypeOK
  <2>2. QED
    BY <1>0, <1>7, <2>1 DEF Submit, PageInv, PageTypeOK
<1>8. ASSUME Commits
      PROVE  PageInv'
  <2>1. /\ Backend!LifecycleTypeOK' /\ phase'[post.file] # "absent"
        /\ post' = [post EXCEPT !.stage = "committed"] /\ post.file \in Files
    BY <1>0, <1>8, BackendFacts DEF Commits
  <2>2. QED
    BY <1>0, <1>8, <2>1 DEF Commits, PageInv, PageTypeOK
<1>9. ASSUME Succeeds
      PROVE  PageInv'
  <2>1. Backend!LifecycleTypeOK'
    BY <1>0, <1>9 DEF Succeeds, Backend!LifecycleTypeOK
  <2>2. /\ fetch' \in [Query -> Fetch]
        /\ \A q \in Query : fetch'[q] \in {Sent, fetch[q]}
    BY <1>0, <1>9, RefetchFacts DEF Succeeds, Invalidated
  <2>3. mine' \subseteq Files /\ post' = NoPost
    BY <1>0, <1>9 DEF Succeeds, PageTypeOK
  <2>4. QED
    BY <1>0, <1>9, <2>1, <2>2, <2>3, RefetchFacts
       DEF Succeeds, PageInv, PageTypeOK, NoPost, Fetch
<1>10. ASSUME PostFails
       PROVE  PageInv'
  <2>1. Backend!LifecycleTypeOK'
    BY <1>0, <1>10 DEF PostFails, Backend!LifecycleTypeOK
  <2>2. QED
    BY <1>0, <1>10, <2>1 DEF PostFails, PageInv, PageTypeOK, NoPost
<1>11. ASSUME NEW f \in Files, Settles(f) \/ Removes(f)
       PROVE  PageInv'
  <2>1. /\ Backend!LifecycleTypeOK'
        /\ \A g \in Files : phase[g] # "absent" => phase'[g] # "absent"
    BY <1>0, <1>11, BackendFacts DEF Settles, Removes
  <2>2. QED
    BY <1>0, <1>11, <2>1 DEF Settles, Removes, PageInv, PageTypeOK
<1>12. CASE UNCHANGED vars
  <2>1. Backend!LifecycleTypeOK'
    BY <1>0, <1>12 DEF vars, Backend!LifecycleTypeOK
  <2>2. QED
    BY <1>0, <1>12, <2>1 DEF vars, PageInv, PageTypeOK
<1>13. QED
  BY <1>1, <1>2, <1>3, <1>4, <1>5, <1>6, <1>7, <1>8, <1>9, <1>10, <1>11, <1>12
     DEF Next

\* PageInv holds of every behaviour.
THEOREM PageInductive == Spec => []PageInv
BY TypesInit, TypesStep, PTL DEF Spec

\* The caches hold lists and sets of files, the fetches in flight their
\* answers, and the counters stay in their bounds.
THEOREM PageTypes == Spec => []PageTypeOK
<1>1. PageInv => PageTypeOK
  BY DEF PageInv
<1>2. QED
  BY <1>1, PageInductive, PTL

-----------------------------------------------------------------------------
(* What the page shows of its own uploads.                                 *)

LEMMA RecentInit == Init => RecentInv
BY QueryFacts DEF Init, RecentInv, Sent

\* Every step keeps RecentInv.
LEMMA RecentStep == PageInv /\ RecentInv /\ [Next]_vars => RecentInv'
<1> SUFFICES ASSUME PageInv, RecentInv, [Next]_vars, failures' = 0 PROVE RecentInv'
  BY DEF RecentInv
<1> USE QueryFacts
<1>0. /\ Backend!LifecycleTypeOK
      /\ cache["files"] \in List \cup {None}
      /\ cache \in [Query -> Answers \cup {None}] /\ fetch \in [Query -> Fetch]
      /\ fetch["files"].stage = "answered" => fetch["files"].answer \in List
      /\ post.stage # "none" => post.file \in Files
      /\ post.stage = "committed" => phase[post.file] # "absent"
      /\ failures \in Nat /\ mine \subseteq Files
  BY BoundsAssumption DEF PageInv, PageTypeOK
\* The fetch of the list goes on or is sent anew.
<1>f. ASSUME UNCHANGED <<phase, cache, mine, failures>>,
             fetch'["files"] = fetch["files"] \/ fetch'["files"].stage = "sent"
      PROVE  RecentInv'
  BY <1>f DEF RecentInv, Recent
<1>1. ASSUME NEW q \in Query, Reads(q)
      PROVE  RecentInv'
  <2>1. CASE q = "files"
    <3>1. fetch'["files"].stage = "answered" /\ fetch'["files"].answer = phase
      BY <1>0, <1>1, <2>1 DEF Reads, Fetch, Snapshot
    <3>2. QED
      BY <1>1, <3>1 DEF Reads, RecentInv, Recent
  <2>2. CASE q # "files"
    BY <1>0, <1>1, <1>f, <2>2 DEF Reads
  <2>3. QED
    BY <2>1, <2>2
<1>2. ASSUME NEW q \in Query, Arrives(q)
      PROVE  RecentInv'
  <2>1. CASE q = "files"
    <3>1. /\ fetch'["files"].stage = "idle"
          /\ cache'["files"] = fetch["files"].answer /\ fetch["files"].answer \in List
      BY <1>0, <1>2, <2>1, RefetchFacts DEF Arrives
    <3>2. cache'["files"] # None
      BY <3>1, NoneAssumption DEF List
    <3>3. QED
      BY <1>2, <2>1, <3>1, <3>2 DEF Arrives, RecentInv, Recent
  <2>2. CASE q # "files"
    BY <1>0, <1>2, <2>2 DEF Arrives, RecentInv, Recent
  <2>3. QED
    BY <2>1, <2>2
<1>3. ASSUME NEW q \in Query, Fails(q)
      PROVE  RecentInv'
  BY <1>0, <1>3 DEF Fails
<1>4. ASSUME NEW q \in Query, Retries(q) \/ Tick(q)
      PROVE  RecentInv'
  BY <1>0, <1>4, <1>f, RefetchFacts DEF Retries, Tick, Fetch
<1>5. ASSUME Hide \/ \E f \in Files : Submit(f)
      PROVE  RecentInv'
  BY <1>5, <1>f DEF Hide, Submit
<1>6. ASSUME Focus \/ Refresh
      PROVE  RecentInv'
  <2>1. fetch'["files"] \in {Sent, fetch["files"]}
    BY <1>0, <1>6, RefetchFacts DEF Focus, Refresh, Refocused
  <2>2. QED
    BY <1>0, <1>6, <1>f, <2>1, RefetchFacts DEF Focus, Refresh
\* A step of the backend: what is uploaded may settle or go, what has settled
\* stays as it is.
<1>g. ASSUME NEW g \in Files, UNCHANGED <<cache, fetch, mine, failures>>,
             \A h \in Files \ {g} : phase'[h] = phase[h],
             phase[g] \in {"absent", "uploaded"}, phase'[g] # "absent"
      PROVE  RecentInv'
  BY <1>0, <1>g DEF RecentInv, Recent
<1>7. ASSUME Commits
      PROVE  RecentInv'
  BY <1>0, <1>7, <1>g, BackendFacts DEF Commits
<1>8. ASSUME NEW f \in Files, Settles(f) \/ Removes(f)
      PROVE  RecentInv'
  BY <1>0, <1>8, <1>g, BackendFacts DEF Settles, Removes
\* The new upload is counted when a list was shown, and then a fetch is sent.
<1>9. ASSUME Succeeds
      PROVE  RecentInv'
  <2>1. /\ fetch'["files"] \in {Sent, fetch["files"]}
        /\ cache["files"] # None => fetch'["files"] = Sent
        /\ Sent.stage = "sent"
    BY <1>0, <1>9, RefetchFacts DEF Succeeds, Invalidated
  <2>2. CASE cache["files"] = None
    BY <1>9, <1>f, <2>1, <2>2 DEF Succeeds
  <2>3. CASE cache["files"] # None
    BY <1>0, <1>9, <2>1, <2>3 DEF Succeeds, RecentInv
  <2>4. QED
    BY <2>2, <2>3
<1>10. ASSUME PostFails
       PROVE  RecentInv'
  BY <1>0, <1>10 DEF PostFails
<1>11. CASE UNCHANGED vars
  BY <1>11, <1>f DEF vars
<1>12. QED
  BY <1>1, <1>2, <1>3, <1>4, <1>5, <1>6, <1>7, <1>8, <1>9, <1>10, <1>11 DEF Next

\* RecentInv holds of every behaviour.
THEOREM RecentInductive == Spec => []RecentInv
BY PageInductive, RecentInit, RecentStep, PTL DEF Spec

\* Polling of the list stops of its own accord only when the list is right
\* about every file uploaded from it, whatever fetches, clicks, glances and
\* other clients did in between.
THEOREM QuietAlwaysMeansSettled == Spec => []QuietMeansSettled
<1>1. ASSUME PageInv, RecentInv
      PROVE  QuietMeansSettled
  <2>1. SUFFICES ASSUME failures = 0, fetch["files"].stage = "idle",
                        ~Working(cache["files"]), NEW f \in mine
                 PROVE  Shown(f) = phase[f]
    BY DEF QuietMeansSettled
  <2>2. f \in Files /\ cache["files"] # None /\ Recent(cache["files"], f)
    BY <1>1, <2>1 DEF PageInv, PageTypeOK, RecentInv
  <2>3. cache["files"][f] # "uploaded"
    BY <2>1, <2>2 DEF Working, Listed, Terminal
  <2>4. QED
    BY <2>2, <2>3 DEF Shown, Recent
<1>2. QED
  BY <1>1, PageInductive, RecentInductive, PTL

-----------------------------------------------------------------------------
(* The page does not go back in time.                                      *)

LEMMA FollowsTransitive ==
  ASSUME NEW a, NEW b, NEW c, Follows(a, b), Follows(b, c)
  PROVE  Follows(a, c)
BY DEF Follows

LEMMA OrderInit == Init => OrderInv
BY QueryFacts DEF Init, OrderInv, Sent

\* The backend moves on, and an alert stays.
LEMMA BackendMovesOn ==
  ASSUME Backend!LifecycleTypeOK, NEW f \in Files,
         \/ Backend!Upload(f)
         \/ \E o \in Outcomes : Backend!Settle(f, o[1], o[2])
         \/ Backend!Remove(f)
  PROVE  /\ ListFollows(phase, phase')
         /\ Snapshot("alerts") \subseteq Snapshot("alerts")'
<1>1. ListFollows(phase, phase')
  BY BackendFacts DEF ListFollows, Follows
<1>2. feed' = feed \/ \E level : feed' = [feed EXCEPT ![f] = Append(@, level)]
  <2>1. CASE Backend!Upload(f) \/ Backend!Remove(f)
    BY <2>1 DEF Backend!Upload, Backend!Remove
  <2>2. CASE \E o \in Outcomes : Backend!Settle(f, o[1], o[2])
    BY <2>2 DEF Backend!Settle, Backend!Raise
  <2>3. QED
    BY <2>1, <2>2
<1>3. ASSUME NEW g \in Files, feed[g] # <<>>
      PROVE  feed'[g] # <<>>
  <2>1. feed \in [Files -> Seq(Backend!Levels)]
    BY DEF Backend!LifecycleTypeOK
  <2>2. CASE feed' = feed
    BY <1>3, <2>2
  <2>3. CASE \E level : feed' = [feed EXCEPT ![f] = Append(@, level)]
    <3>1. PICK level : feed' = [feed EXCEPT ![f] = Append(@, level)]
      BY <2>3
    <3>2. CASE g = f
      BY <2>1, <3>1, <3>2
    <3>3. CASE g # f
      BY <1>3, <2>1, <3>1, <3>3
    <3>4. QED
      BY <3>2, <3>3
  <2>4. QED
    BY <1>2, <2>2, <2>3
<1>4. QED
  BY <1>1, <1>3 DEF Snapshot

\* Every step keeps OrderInv, and the page after it follows the page before it.
LEMMA OrderStep == PageInv /\ OrderInv /\ [Next]_vars => OrderInv' /\ PageMovesOn
<1> SUFFICES ASSUME PageInv, OrderInv, [Next]_vars PROVE OrderInv' /\ PageMovesOn
  OBVIOUS
<1> USE QueryFacts
<1>0. /\ Backend!LifecycleTypeOK
      /\ cache["files"] \in List \cup {None} /\ cache["alerts"] \in (SUBSET Files) \cup {None}
      /\ cache \in [Query -> Answers \cup {None}] /\ fetch \in [Query -> Fetch]
      /\ fetch["files"].stage = "answered" => fetch["files"].answer \in List
      /\ fetch["alerts"].stage = "answered" => fetch["alerts"].answer \in SUBSET Files
      /\ post.stage # "none" => post.file \in Files
  BY DEF PageInv, PageTypeOK
\* A page that stays as it is does not go back.
<1>p. ASSUME UNCHANGED cache PROVE PageMovesOn
  BY <1>p DEF PageMovesOn, ListFollows, Follows
\* A fetch that was not answered in this step was before.
<1>f. ASSUME UNCHANGED <<phase, feed, cache>>,
             \A q \in Query : fetch'[q] = fetch[q] \/ fetch'[q].stage # "answered"
      PROVE  OrderInv' /\ PageMovesOn
  <2>1. Snapshot("alerts")' = Snapshot("alerts")
    BY <1>f DEF Snapshot
  <2>2. OrderInv'
    BY <1>f, <2>1 DEF OrderInv, ListFollows
  <2>3. QED
    BY <1>f, <1>p, <2>2
<1>1. ASSUME NEW q \in Query, Reads(q)
      PROVE  OrderInv' /\ PageMovesOn
  <2>1. /\ UNCHANGED <<phase, feed, cache>> /\ Snapshot("alerts")' = Snapshot("alerts")
        /\ fetch'[q].answer = Snapshot(q)
        /\ \A r \in Query \ {q} : fetch'[r] = fetch[r]
    BY <1>0, <1>1 DEF Reads, Fetch, Snapshot
  <2>2. CASE q = "files"
    <3>1. ListFollows(phase, phase) /\ fetch'["files"].answer = phase
          /\ fetch'["alerts"] = fetch["alerts"]
      BY <2>1, <2>2 DEF Snapshot, ListFollows, Follows
    <3>2. OrderInv'
      BY <2>1, <3>1 DEF OrderInv, ListFollows
    <3>3. QED
      BY <1>p, <2>1, <3>2
  <2>3. CASE q = "alerts"
    <3>1. fetch'["alerts"].answer = Snapshot("alerts") /\ fetch'["files"] = fetch["files"]
      BY <2>1, <2>3
    <3>2. OrderInv'
      BY <2>1, <3>1 DEF OrderInv, ListFollows
    <3>3. QED
      BY <1>p, <2>1, <3>2
  <2>4. QED
    BY <2>2, <2>3 DEF Query
\* The answer becomes the page.
<1>2. ASSUME NEW q \in Query, Arrives(q)
      PROVE  OrderInv' /\ PageMovesOn
  <2>1. /\ UNCHANGED <<phase, feed>> /\ Snapshot("alerts")' = Snapshot("alerts")
        /\ fetch[q].stage = "answered"
        /\ fetch'[q].stage = "idle" /\ cache'[q] = fetch[q].answer
        /\ \A r \in Query \ {q} : fetch'[r] = fetch[r] /\ cache'[r] = cache[r]
    BY <1>0, <1>2, RefetchFacts DEF Arrives, Snapshot
  <2>2. CASE q = "files"
    <3>1. /\ cache'["files"] = fetch["files"].answer /\ cache'["files"] # None
          /\ fetch["files"].stage = "answered" /\ fetch'["files"].stage = "idle"
          /\ fetch'["alerts"] = fetch["alerts"] /\ cache'["alerts"] = cache["alerts"]
      BY <1>0, <2>1, <2>2, NoneAssumption DEF List
    <3>2. OrderInv'
      BY <2>1, <3>1 DEF OrderInv, ListFollows
    <3>3. PageMovesOn
      BY <3>1 DEF OrderInv, PageMovesOn
    <3>4. QED
      BY <3>2, <3>3
  <2>3. CASE q = "alerts"
    <3>1. /\ cache'["alerts"] = fetch["alerts"].answer /\ cache'["alerts"] # None
          /\ fetch["alerts"].stage = "answered" /\ fetch'["alerts"].stage = "idle"
          /\ fetch'["files"] = fetch["files"] /\ cache'["files"] = cache["files"]
      BY <1>0, <2>1, <2>3, NoneAssumption
    <3>2. OrderInv'
      BY <2>1, <3>1 DEF OrderInv, ListFollows
    <3>3. PageMovesOn
      BY <3>1 DEF OrderInv, PageMovesOn, ListFollows, Follows
    <3>4. QED
      BY <3>2, <3>3
  <2>4. QED
    BY <2>2, <2>3 DEF Query
<1>3. ASSUME NEW q \in Query, Fails(q) \/ Retries(q) \/ Tick(q)
      PROVE  OrderInv' /\ PageMovesOn
  <2>1. /\ UNCHANGED <<phase, feed, cache>> /\ fetch'[q].stage # "answered"
        /\ \A r \in Query \ {q} : fetch'[r] = fetch[r]
    <3>1. CASE Fails(q)
      <4>1. UNCHANGED <<phase, feed, cache>> /\ \E new : /\ fetch' = [fetch EXCEPT ![q] = new]
                                                         /\ new.stage # "answered"
        <5> DEFINE again == [Idle EXCEPT !.stage = "retry", !.tries = @ + 1]
        <5>1. again.stage # "answered" /\ Idle.stage # "answered"
          BY DEF Idle
        <5>2. \E new \in {again, Idle} : fetch' = [fetch EXCEPT ![q] = new]
          BY <3>1, Zenon DEF Fails
        <5>3. QED
          BY <3>1, <5>1, <5>2 DEF Fails
      <4>2. QED
        BY <1>0, <4>1
    <3>2. CASE Retries(q)
      BY <1>0, <3>2 DEF Retries, Fetch
    <3>3. CASE Tick(q)
      BY <1>0, <3>3, RefetchFacts DEF Tick
    <3>4. QED
      BY <1>3, <3>1, <3>2, <3>3
  <2>2. QED
    BY <1>f, <2>1
\* A refetch joins the fetch of its query or takes its place.
<1>4. ASSUME Focus \/ Refresh \/ Succeeds
      PROVE  OrderInv' /\ PageMovesOn
  <2>1. UNCHANGED <<phase, feed, cache>>
    BY <1>4 DEF Focus, Refresh, Succeeds
  <2>2. \A q \in Query : fetch'[q] \in {Sent, fetch[q]}
    BY <1>0, <1>4, RefetchFacts DEF Focus, Refresh, Succeeds, Refocused, Invalidated
  <2>3. Sent.stage # "answered"
    BY DEF Sent
  <2>4. QED
    BY <1>f, <2>1, <2>2, <2>3
<1>5. ASSUME UNCHANGED <<phase, feed, cache, fetch>>
      PROVE  OrderInv' /\ PageMovesOn
  BY <1>f, <1>5
\* Whatever was read before stays behind a backend that moves on.
<1>6. ASSUME Commits \/ \E f \in Files : Settles(f) \/ Removes(f)
      PROVE  OrderInv' /\ PageMovesOn
  <2>1. /\ UNCHANGED <<cache, fetch>> /\ ListFollows(phase, phase')
        /\ Snapshot("alerts") \subseteq Snapshot("alerts")'
    BY <1>0, <1>6, BackendMovesOn DEF Commits, Settles, Removes
  <2>2. ASSUME NEW list, ListFollows(list, phase)
        PROVE  ListFollows(list, phase')
    BY <2>1, <2>2, FollowsTransitive DEF ListFollows
  <2>3. OrderInv'
    BY <2>1, <2>2 DEF OrderInv, ListFollows
  <2>4. QED
    BY <1>p, <2>1, <2>3
<1>7. QED
  BY <1>1, <1>2, <1>3, <1>4, <1>5, <1>6 DEF Next, Hide, Submit, PostFails, vars

\* OrderInv holds of every behaviour.
THEOREM OrderInductive == Spec => []OrderInv
BY PageInductive, OrderInit, OrderStep, PTL DEF Spec

\* No answer takes the page back: a file keeps the status it has settled in, a
\* file that was listed stays known, and an alert that was shown stays.
THEOREM PageAlwaysMovesOn == Spec => [][PageMovesOn]_vars
<1>1. PageInv /\ OrderInv /\ [Next]_vars => [PageMovesOn]_vars
  BY OrderStep
<1>2. QED
  BY <1>1, PageInductive, OrderInductive, PTL DEF Spec
=============================================================================

-------------------------- MODULE FrontendPolling ---------------------------
(***************************************************************************)
(* The page: its two react-query caches, the fetches in flight, the rule   *)
(* that decides when to go on polling, and the upload dialog, against a    *)
(* backend that keeps the promise of FileLifecycle.                        *)
(*                                                                         *)
(* A query has one fetch at a time.  The answer of a fetch that was        *)
(* cancelled for a newer one is dropped, so only the newer one is kept.    *)
(* Timers are abstracted to "may fire once they are set".                  *)
(***************************************************************************)
EXTENDS Naturals, Sequences

CONSTANTS
  Files,        \* the files there can be
  Outcomes,     \* pairs of a terminal status and an alert level
  MaxTroubles,  \* bound on failed requests and clicks on the refresh button
  None          \* no data yet

ASSUME BoundsAssumption == MaxTroubles \in Nat

VARIABLES
  phase, feed,  \* the backend, as the page can know it
  cache,        \* query -> data, or None before the first answer
  fetch,        \* query -> the fetch in flight
  focused,      \* the tab is visible
  post,         \* the upload in flight
  mine,         \* history: uploads answered while the list was on the page
  failures,     \* failed requests so far
  clicks        \* clicks so far

vars == <<phase, feed, cache, fetch, focused, post, mine, failures, clicks>>

\* No message is delivered twice while the page looks on.
Backend == INSTANCE FileLifecycle WITH twice <- FALSE

\* What an alert says fits what the file became; no data is no list.
ASSUME OutcomesAssumption == Outcomes \subseteq Backend!Settled \X Backend!Levels
ASSUME NoneAssumption ==
  /\ \A list \in [Files -> Backend!Phases] : list # None
  /\ \A alerts \in SUBSET Files : alerts # None

Query == {"files", "alerts"}

Listed == {"uploaded", "processed", "failed"}
Terminal == {"processed", "failed"}

Idle == [stage |-> "idle", tries |-> 0, answer |-> None]
Sent == [stage |-> "sent", tries |-> 0, answer |-> None]
NoPost == [stage |-> "none", file |-> None]

-----------------------------------------------------------------------------
(* What the hooks and the library decide.                                  *)

\* Mutant of Working: "every" where the code says "some".
AllWorking(list) ==
  /\ list # None
  /\ \E f \in Files : list[f] \in Listed
  /\ \A f \in Files : list[f] \in Listed => list[f] \notin Terminal

\* stillWorking: some file of the list is not in a terminal state.
Working(list) ==
  /\ list # None
  /\ \E f \in Files : list[f] \in Listed /\ list[f] \notin Terminal

\* Mutant of Snapshot: an AlertItem without its file_id.
SnapshotOfLevels(q) ==
  IF q = "files" THEN phase ELSE {feed[f][1] : f \in {g \in Files : feed[g] # <<>>}}

\* What the two list endpoints return.  A row that is gone is not listed.
Snapshot(q) == IF q = "files" THEN phase ELSE {f \in Files : feed[f] # <<>>}

\* A refetch that joins the fetch in flight, and one that replaces it unless
\* that is the first of its query.
Join(q) == IF fetch[q].stage = "idle" THEN Sent ELSE fetch[q]
Restart(q) == IF fetch[q].stage = "idle" \/ cache[q] # None THEN Sent ELSE fetch[q]

\* Mutant of Invalidated: invalidateQueries with cancelRefetch: false.
JoinedInvalidation == [q \in Query |-> Join(q)]

Invalidated == [q \in Query |-> Restart(q)]

\* Mutant of Refocused: refetchOnWindowFocus switched off for the files.
AlertsRefocused == [fetch EXCEPT !["alerts"] = Join("alerts")]

Refocused == [q \in Query |-> Join(q)]

\* Both timers follow the files list: useAlerts looks into its cache, and the
\* page that shows the list renders useAlerts again when it changes.
TimerSet == Working(cache["files"])

-----------------------------------------------------------------------------
\* The page has just been mounted.  What settled before is what settles before
\* the first answer.
Init ==
  /\ phase \in [Files -> {"absent", "uploaded"}]
  /\ feed = [f \in Files |-> <<>>]
  /\ cache = [q \in Query |-> None]
  /\ fetch = [q \in Query |-> Sent]
  /\ focused = TRUE
  /\ post = NoPost
  /\ mine = {}
  /\ failures = 0 /\ clicks = 0

-----------------------------------------------------------------------------
(* Fetches.                                                                *)

Reads(q) ==
  /\ fetch[q].stage = "sent"
  /\ fetch' = [fetch EXCEPT ![q].stage = "answered", ![q].answer = Snapshot(q)]
  /\ UNCHANGED <<phase, feed, cache, focused, post, mine, failures, clicks>>

Arrives(q) ==
  /\ fetch[q].stage = "answered"
  /\ cache' = [cache EXCEPT ![q] = fetch[q].answer]
  /\ fetch' = [fetch EXCEPT ![q] = Idle]
  /\ UNCHANGED <<phase, feed, focused, post, mine, failures, clicks>>

MayRetry(tries) == tries < 1

\* A failed fetch is tried once more; after that the old data stays.
Fails(q) ==
  /\ failures + clicks < MaxTroubles /\ fetch[q].stage \in {"sent", "answered"}
  /\ failures' = failures + 1
  /\ fetch' = [fetch EXCEPT ![q] = IF MayRetry(@.tries)
                                     THEN [Idle EXCEPT !.stage = "retry", !.tries = @ + 1]
                                     ELSE Idle]
  /\ UNCHANGED <<phase, feed, cache, focused, post, mine, clicks>>

\* The retry waits for the tab to be visible.
Retries(q) ==
  /\ fetch[q].stage = "retry" /\ focused
  /\ fetch' = [fetch EXCEPT ![q].stage = "sent"]
  /\ UNCHANGED <<phase, feed, cache, focused, post, mine, failures, clicks>>

\* A timer that fires during a fetch, or in a hidden tab, does nothing.
Tick(q) ==
  /\ TimerSet /\ focused /\ fetch[q].stage = "idle"
  /\ fetch' = [fetch EXCEPT ![q] = Sent]
  /\ UNCHANGED <<phase, feed, cache, focused, post, mine, failures, clicks>>

-----------------------------------------------------------------------------
(* The user.                                                               *)

Hide ==
  /\ focused /\ focused' = FALSE
  /\ UNCHANGED <<phase, feed, cache, fetch, post, mine, failures, clicks>>

Focus ==
  /\ ~focused /\ focused' = TRUE
  /\ fetch' = Refocused
  /\ UNCHANGED <<phase, feed, cache, post, mine, failures, clicks>>

\* The button: refetch of both.  Every click starts a slow fetch anew, so
\* without the bound a user could keep the answer away for ever.
Refresh ==
  /\ focused /\ failures + clicks < MaxTroubles
  /\ clicks' = clicks + 1
  /\ fetch' = [q \in Query |-> Restart(q)]
  /\ UNCHANGED <<phase, feed, cache, focused, post, mine, failures>>

\* The dialog sends one upload at a time.
Submit(f) ==
  /\ focused /\ post = NoPost /\ phase[f] = "absent"
  /\ post' = [stage |-> "sent", file |-> f]
  /\ UNCHANGED <<phase, feed, cache, fetch, focused, mine, failures, clicks>>

Commits ==
  /\ post.stage = "sent"
  /\ Backend!Upload(post.file)
  /\ post' = [post EXCEPT !.stage = "committed"]
  /\ UNCHANGED <<cache, fetch, focused, mine, failures, clicks>>

\* onSuccess invalidates both queries.
Succeeds ==
  /\ post.stage = "committed"
  /\ post' = NoPost
  /\ mine' = IF cache["files"] # None THEN mine \cup {post.file} ELSE mine
  /\ fetch' = Invalidated
  /\ UNCHANGED <<phase, feed, cache, focused, failures, clicks>>

\* Any error leaves the caches alone, also after the commit.
PostFails ==
  /\ failures + clicks < MaxTroubles /\ post # NoPost
  /\ failures' = failures + 1
  /\ post' = NoPost
  /\ UNCHANGED <<phase, feed, cache, fetch, focused, mine, clicks>>

-----------------------------------------------------------------------------
(* The backend and its other clients.                                      *)

Settles(f) ==
  /\ \E o \in Outcomes : Backend!Settle(f, o[1], o[2])
  /\ UNCHANGED <<cache, fetch, focused, post, mine, failures, clicks>>

Removes(f) ==
  /\ Backend!Remove(f)
  /\ UNCHANGED <<cache, fetch, focused, post, mine, failures, clicks>>

-----------------------------------------------------------------------------
Next ==
  \/ \E q \in Query : Reads(q) \/ Arrives(q) \/ Fails(q) \/ Retries(q) \/ Tick(q)
  \/ Hide \/ Focus \/ Refresh
  \/ \E f \in Files : Submit(f) \/ Settles(f) \/ Removes(f)
  \/ Commits \/ Succeeds \/ PostFails

\* Requests are answered, timers fire, and the worker settles what was
\* uploaded; a retry that was put off goes on with the next glance.  Nobody
\* owes the page a click or a glance.
Fairness ==
  /\ \A q \in Query : /\ WF_vars(Reads(q)) /\ WF_vars(Arrives(q))
                      /\ SF_vars(Retries(q)) /\ WF_vars(Tick(q))
  /\ WF_vars(Commits) /\ WF_vars(Succeeds)
  /\ \A f \in Files : WF_vars(Settles(f))

Spec == Init /\ [][Next]_vars /\ Fairness

-----------------------------------------------------------------------------
(* Properties.                                                             *)

List == [Files -> Backend!Phases]

\* Every variable has its type.
PageTypeOK ==
  /\ Backend!LifecycleTypeOK
  /\ cache["files"] \in List \cup {None} /\ cache["alerts"] \in (SUBSET Files) \cup {None}
  /\ DOMAIN cache = Query /\ DOMAIN fetch = Query
  /\ \A q \in Query :
       /\ fetch[q].stage \in {"idle", "sent", "answered", "retry"}
       /\ fetch[q].tries \in 0..1
       /\ fetch[q].stage = "answered" =>
            fetch[q].answer \in IF q = "files" THEN List ELSE SUBSET Files
  /\ focused \in BOOLEAN
  /\ post.stage \in {"none", "sent", "committed"} /\ post.file \in Files \cup {None}
  /\ mine \subseteq Files /\ failures \in 0..MaxTroubles /\ clicks \in 0..MaxTroubles

\* What the page shows of a file.
Shown(f) == IF cache["files"] = None THEN "absent" ELSE cache["files"][f]
AlertShown(f) == cache["alerts"] # None /\ f \in cache["alerts"]

\* Polling of the list stops of its own accord only when the list is right
\* about every file uploaded from it: nothing uploaded is forgotten because a
\* fetch that began earlier answered later.
QuietMeansSettled ==
  failures = 0 /\ fetch["files"].stage = "idle" /\ ~Working(cache["files"])
    => \A f \in mine : Shown(f) = phase[f]

\* The list shows the outcome of every upload without a click, as long as the
\* tab stays visible and requests succeed.
UploadReachesList ==
  \A f \in Files :
    f \in mine ~> \/ Shown(f) \in Terminal \cup {"gone"}
                  \/ ~focused \/ failures > 0

\* A user who keeps coming back to the page sees what it missed: every alert,
\* and the outcome of every file, also of one uploaded elsewhere, in spite of a
\* failed request, or before the first list, which no answer replaces.
RefocusCatchesUp ==
  []<><<Focus>>_vars =>
    \A f \in Files :
      /\ feed[f] # <<>> ~> AlertShown(f)
      /\ phase[f] = "uploaded" ~> Shown(f) \in Terminal \cup {"gone"}

-----------------------------------------------------------------------------
(* What a comment says although it is not so.                              *)

\* "once the worker finishes the corresponding alert lands in the alerts feed
\* via the polling cycle"
AlertFollowsUpload ==
  \A f \in Files :
    f \in mine ~> \/ AlertShown(f) \/ phase[f] = "gone"
                  \/ ~focused \/ failures > 0
=============================================================================

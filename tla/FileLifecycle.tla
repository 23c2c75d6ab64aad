--------------------------- MODULE FileLifecycle ----------------------------
(***************************************************************************)
(* What the backend promises about one file, with no handler, queue or     *)
(* worker in sight: it is uploaded once, settles together with the alert   *)
(* that reports how, and can be removed only before that, because an alert *)
(* keeps its file.  An identifier that was removed is never used again.    *)
(* As long as no message has been delivered twice a file settles once;     *)
(* afterwards a settled file may settle anew, but is never unsettled.      *)
(***************************************************************************)
EXTENDS Sequences

CONSTANT Files

VARIABLES
  phase,  \* where each file is in its life
  feed,   \* the levels of the alerts raised for it
  twice   \* a message has been delivered twice

vars == <<phase, feed, twice>>

Settled == {"processed", "failed"}
Phases == {"absent", "uploaded", "gone"} \cup Settled
Levels == {"info", "warning", "critical"}

LifecycleTypeOK ==
  /\ phase \in [Files -> Phases]
  /\ feed \in [Files -> Seq(Levels)]
  /\ twice \in BOOLEAN

Init ==
  /\ phase = [f \in Files |-> "absent"]
  /\ feed = [f \in Files |-> <<>>]
  /\ twice = FALSE

Upload(f) ==
  /\ phase[f] = "absent"
  /\ phase' = [phase EXCEPT ![f] = "uploaded"]
  /\ UNCHANGED feed /\ twice' = twice

\* A failed file raises a critical alert, a processed one any other.
Raise(f, outcome, level) ==
  /\ outcome = "failed" <=> level = "critical"
  /\ feed' = [feed EXCEPT ![f] = Append(@, level)]
  /\ twice' = twice

Settle(f, outcome, level) ==
  /\ phase[f] = "uploaded" /\ feed[f] = <<>>
  /\ phase' = [phase EXCEPT ![f] = outcome]
  /\ Raise(f, outcome, level)

\* The task of a second delivery: one more alert, and its outcome may or may
\* not replace the one the file has.
Resettle(f, outcome, level) ==
  /\ twice /\ phase[f] \in Settled
  /\ phase' = [phase EXCEPT ![f] = outcome] \/ UNCHANGED phase
  /\ Raise(f, outcome, level)

Remove(f) ==
  /\ phase[f] = "uploaded"
  /\ phase' = [phase EXCEPT ![f] = "gone"]
  /\ UNCHANGED feed /\ twice' = twice

Duplicate ==
  /\ twice' = TRUE
  /\ UNCHANGED <<phase, feed>>

Next ==
  \/ \E f \in Files :
       \/ Upload(f)
       \/ \E outcome \in Settled, level \in Levels :
            Settle(f, outcome, level) \/ Resettle(f, outcome, level)
       \/ Remove(f)
  \/ Duplicate

Spec == Init /\ [][Next]_vars
=============================================================================

----------------------------- MODULE BlobStore -----------------------------
(***************************************************************************)
(* What FileStorage promises of the blobs it holds, whatever goes wrong in *)
(* the process that calls it: one whose save_stream has returned stays     *)
(* until somebody deletes it, one whose delete has returned is not there,  *)
(* and none comes back.  Only a loss of power may take a blob nobody was   *)
(* told of, or bring back a deleted one.                                   *)
(***************************************************************************)
CONSTANTS Blobs, PowerMayFail

VARIABLES
  stored,  \* the blobs a reader finds
  told     \* blob -> what its callers have been told of it

vars == <<stored, told>>

With(state) == {b \in Blobs : told[b] = state}

Init ==
  /\ stored = {}
  /\ told = [b \in Blobs |-> "nothing"]

\* A blob appears at once, before save_stream returns or although it raises.
Appear(b) ==
  /\ told[b] = "nothing" /\ b \notin stored
  /\ stored' = stored \cup {b}
  /\ UNCHANGED told

SaveReturns(b) ==
  /\ told[b] = "nothing" /\ b \in stored
  /\ told' = [told EXCEPT ![b] = "saved"]
  /\ UNCHANGED stored

Delete(b) ==
  /\ told[b] = "saved"
  /\ told' = [told EXCEPT ![b] = "going"]
  /\ UNCHANGED stored

Disappear(b) ==
  /\ told[b] = "going" /\ b \in stored
  /\ stored' = stored \ {b}
  /\ UNCHANGED told

DeleteReturns(b) ==
  /\ told[b] = "going" /\ b \notin stored
  /\ told' = [told EXCEPT ![b] = "deleted"]
  /\ UNCHANGED stored

\* delete does not make itself durable: what is going or deleted may be back.
PowerLoss ==
  /\ PowerMayFail
  /\ \E lost \in SUBSET (stored \ With("saved")),
        back \in SUBSET (With("going") \cup With("deleted")) :
       stored' = (stored \ lost) \cup back
  /\ UNCHANGED told

Next ==
  \/ \E b \in Blobs : Appear(b) \/ SaveReturns(b) \/ Delete(b) \/ Disappear(b)
                      \/ DeleteReturns(b)
  \/ PowerLoss

Spec == Init /\ [][Next]_vars
=============================================================================

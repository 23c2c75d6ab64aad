------------------------- MODULE MCFrontendPolling --------------------------
(***************************************************************************)
(* FrontendPolling for TLC.                                                *)
(***************************************************************************)
EXTENDS FrontendPolling

\* The page only asks whether there is an alert, so one level per status.
MCOutcomes == {<<"processed", "info">>, <<"failed", "critical">>}
MCOneOutcome == {<<"processed", "info">>}
=============================================================================

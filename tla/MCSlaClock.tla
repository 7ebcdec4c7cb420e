----------------------------- MODULE MCSlaClock -----------------------------
(***************************************************************************)
(* One job, one later slot and five instants: time for a reschedule, both  *)
(* charges, a reopening and a second round.  Policies are in SlaClose.     *)
(***************************************************************************)
EXTENDS SlaClock
=============================================================================

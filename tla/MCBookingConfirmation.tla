----------------------- MODULE MCBookingConfirmation -----------------------
(***************************************************************************)
(* A calendar of two places, one of them taken.  Two taps confirm one      *)
(* draft, another request a second one; all of them, the earlier booking   *)
(* included, are about one problem, or each about its own.                 *)
(***************************************************************************)
EXTENDS BookingConfirmation

MCDraftOf  == [a \in Attempts |-> IF a \in {"tap", "tap_again"} THEN "mine" ELSE a]
MCProblems == {[d \in Drafts |-> "leak"], [d \in Drafts |-> d]}
MCCapacity == [s \in Slots |-> 1]
MCOffer    == [d \in Drafts |-> IF d = "earlier" THEN 2 ELSE IF d = "mine" THEN NoSlot ELSE 1]
MCEdits    == {<<"mine", "open">>}
=============================================================================

---------------------------- MODULE MCTopupOrder ----------------------------
\* Two orders of two credits each: one sold plain, one with half of them as a
\* bonus.  The second is confirmed both by the hub, which leaves the bonus out,
\* and by platform commerce, whose package has come to give three.  A price that
\* does not divide the credits makes the rounding of partial refunds matter.
EXTENDS TopupOrder

MCPrice     == [o \in Orders |-> 3]
MCCredits   == [o \in Orders |-> IF o = "plain" THEN 2 ELSE 1]
MCBonus     == [o \in Orders |-> IF o = "plain" THEN 0 ELSE 1]
MCEndpoints == [o \in Orders |->
  IF o = "plain" THEN {"hub_browser"} ELSE {"hub_webhook", "commerce"}]
=============================================================================

---------------------------- MODULE MCPlanSeats ----------------------------
\* Two clicks on one plan that lapses after a day, and a credit package.
EXTENDS PlanSeats

MCPlan == [o \in Orders |->
  IF o \in {"click1", "click2"}
  THEN [kind |-> "funding", credits |-> 1, seats |-> 1, validity |-> 1]
  ELSE [kind |-> "credit", credits |-> 1, seats |-> 0, validity |-> 0]]
=============================================================================

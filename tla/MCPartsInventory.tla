-------------------------- MODULE MCPartsInventory --------------------------
(* Two requests for the same item, a new one and one of an older version.  The *)
(* new one is tried at the store only, the older one at the van as well.       *)
EXTENDS PartsInventory

MCJobOf   == [r \in Requests |-> "j1"]
MCReach   == [r \in Requests |-> IF r \in Legacy THEN Locations ELSE Locations \ Vans]
MCQty     == [r \in Requests |-> 1]
MCOpening == [l \in Locations |-> IF l \in Vans THEN 0 ELSE 1]
=============================================================================

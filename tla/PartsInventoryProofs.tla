------------------------ MODULE PartsInventoryProofs ------------------------
(***************************************************************************)
(* Proofs about PartsInventory, for any requests, quantities, locations    *)
(* and opening stock: the stock that is held is there where no hold was    *)
(* ended twice, and a part leaves it at most once.  Quantities are added   *)
(* up by counting pieces, so that the sums obey the laws of Cardinality.   *)
(***************************************************************************)
EXTENDS PartsInventory, FunctionTheorems, FiniteSetTheorems, TLAPS

\* The pieces of finitely many requests are finitely many.
LEMMA PiecesFinite ==
  ASSUME NEW R \in SUBSET Requests
  PROVE  /\ IsFiniteSet(Pieces(R))
         /\ PieceCount(R) \in Nat
<1> DEFINE piles == {{r} \X (1..Qty[r]) : r \in R}
           pile  == [r \in R |-> {r} \X (1..Qty[r])]
<1>1. IsFiniteSet(R)
  BY FS_Subset, PartsAssumption DEF PartsAssumption
<1>2. IsFiniteSet(piles)
  <2>1. pile \in Surjection(R, piles)
    BY DEF Surjection
  <2>2. QED BY <1>1, <2>1, FS_Surjection
<1>3. ASSUME NEW T \in piles
      PROVE  IsFiniteSet(T)
  <2>1. PICK r \in R : T = {r} \X (1..Qty[r])
    OBVIOUS
  <2>2. Qty[r] \in Nat
    BY PartsAssumption DEF PartsAssumption
  <2>3. IsFiniteSet({r})
    BY FS_Singleton
  <2>4. IsFiniteSet(1..Qty[r])
    BY <2>2, FS_Interval
  <2>5. IsFiniteSet({r} \X (1..Qty[r]))
    BY <2>3, <2>4, FS_Product
  <2>6. QED BY <2>1, <2>5
<1>4. IsFiniteSet(UNION piles)
  BY <1>2, <1>3, FS_UNION
<1>5. QED BY <1>4, FS_CardinalityType DEF Pieces, PieceCount

\* Requests that have none in common add up.
LEMMA PiecesAdd ==
  ASSUME NEW R \in SUBSET Requests, NEW S \in SUBSET Requests, R \cap S = {}
  PROVE  PieceCount(R \cup S) = PieceCount(R) + PieceCount(S)
<1>1. Pieces(R \cup S) = Pieces(R) \cup Pieces(S)
  BY DEF Pieces
<1>2. Pieces(R) \cap Pieces(S) = {}
  BY DEF Pieces
<1>3. IsFiniteSet(Pieces(R)) /\ IsFiniteSet(Pieces(S))
  BY PiecesFinite
<1>4. PieceCount(R) \in Nat /\ PieceCount(S) \in Nat
  BY PiecesFinite
<1>5. Cardinality(Pieces(R) \cup Pieces(S)) =
        Cardinality(Pieces(R)) + Cardinality(Pieces(S)) - Cardinality(Pieces(R) \cap Pieces(S))
  BY <1>3, FS_Union
<1>6. Cardinality(Pieces(R) \cap Pieces(S)) = 0
  BY <1>2, FS_EmptySet
<1>7. PieceCount(R \cup S) = Cardinality(Pieces(R) \cup Pieces(S))
  BY <1>1, Zenon DEF PieceCount
<1>8. PieceCount(R) = Cardinality(Pieces(R)) /\ PieceCount(S) = Cardinality(Pieces(S))
  BY DEF PieceCount
<1>9. QED BY <1>4, <1>5, <1>6, <1>7, <1>8

\* No request, no pieces; one request, its quantity.
LEMMA PiecesOfOne ==
  /\ PieceCount({}) = 0
  /\ \A r \in Requests : PieceCount({r}) = Qty[r]
<1>1. PieceCount({}) = 0
  BY FS_EmptySet DEF PieceCount, Pieces
<1>2. ASSUME NEW r \in Requests
      PROVE  PieceCount({r}) = Qty[r]
  <2>1. Qty[r] \in Nat
    BY PartsAssumption DEF PartsAssumption
  <2>2. Pieces({r}) = {r} \X (1..Qty[r])
    BY DEF Pieces
  <2>3. IsFiniteSet({r}) /\ Cardinality({r}) = 1
    BY FS_Singleton
  <2>4. IsFiniteSet(1..Qty[r]) /\ Cardinality(1..Qty[r]) = Qty[r]
    BY <2>1, FS_Interval
  <2>5. Cardinality({r} \X (1..Qty[r])) = Cardinality({r}) * Cardinality(1..Qty[r])
    BY <2>3, <2>4, FS_Product, Zenon
  <2>6. PieceCount({r}) = Cardinality({r} \X (1..Qty[r]))
    BY <2>2, Zenon DEF PieceCount
  <2>7. Cardinality({r} \X (1..Qty[r])) = 1 * Qty[r]
    BY <2>3, <2>4, <2>5, Zenon
  <2>8. QED BY <2>1, <2>6, <2>7
<1>3. QED BY <1>1, <1>2

\* More requests ask for no fewer pieces, and without S there are as many fewer
\* as S asks for.
LEMMA PiecesWithout ==
  ASSUME NEW R \in SUBSET Requests, NEW S \in SUBSET R
  PROVE  /\ PieceCount(R \ S) = PieceCount(R) - PieceCount(S)
         /\ PieceCount(S) <= PieceCount(R)
<1>1. PieceCount((R \ S) \cup S) = PieceCount(R \ S) + PieceCount(S)
  <2>1. (R \ S) \in SUBSET Requests /\ S \in SUBSET Requests /\ (R \ S) \cap S = {}
    OBVIOUS
  <2>2. QED BY <2>1, PiecesAdd
<1>2. (R \ S) \cup S = R
  OBVIOUS
<1>3. PieceCount(R) \in Nat /\ PieceCount(S) \in Nat /\ PieceCount(R \ S) \in Nat
  BY PiecesFinite
<1>4. PieceCount(R) = PieceCount(R \ S) + PieceCount(S)
  BY <1>1, <1>2, Zenon
<1>5. QED BY <1>3, <1>4

-----------------------------------------------------------------------------
(***************************************************************************)
(* The inductive invariant: the types, the two properties, and what is     *)
(* known of the place of a technician's request.                           *)
(***************************************************************************)

DeskTypes ==
  /\ job \in [Jobs -> {"open", "closed"}]
  /\ finishing \in [Jobs -> {"no", "checked", "installing"}]
  /\ request \in [Requests -> Statuses]
  /\ required \in [Requests -> BOOLEAN]
  /\ place \in [Requests -> Places]
  /\ pending \subseteq Requests \X Decisions \X Places

StockTypes ==
  /\ hold \in [Requests \X Locations -> {"none", "active", "confirmed", "released"}]
  /\ twice \subseteq Requests \X Locations
  /\ onhand \in [Locations -> Int]
  /\ reserved \in [Locations -> Nat]
  /\ consumed \in [Requests -> Nat]

Used(r)  == \E l \in Locations : hold[<<r, l>>] = "confirmed"
Shown(r) == \E l \in Locations : hold[<<r, l>>] = "confirmed" \/ <<r, l>> \in twice

LeavesAtMostOnce ==
  \A r \in Requests : /\ consumed[r] \in {0, Qty[r]}
                      /\ Used(r) => consumed[r] = Qty[r]
                      /\ consumed[r] = Qty[r] => Shown(r)

InstalledHasLeft ==
  \A r \in Requests :
    (request[r] = "installed" /\ r \notin Legacy) => consumed[r] = Qty[r]

\* A technician's request has a location from its creation on, so nobody decides
\* on it, and nobody installs it, as a part that is bought in.
ByHold == {"create", "confirm", "release"}

PlaceKnown ==
  \A r \in Requests \ Legacy :
    /\ request[r] # "none" => place[r] # NoPlace
    /\ \A d \in Decisions, l \in Places :
         <<r, d, l>> \in pending /\ d \notin ByHold => place[r] # NoPlace
    /\ \A d \in {"finish", "install"} : <<r, d, NoPlace>> \notin pending

StockInv == StockTypes /\ HeldStockIsThere /\ LeavesAtMostOnce
IInv     == DeskTypes /\ StockInv /\ InstalledHasLeft /\ PlaceKnown

LEMMA InvParts == IInv => TypeOK /\ HeldStockIsThere /\ PartLeavesOnce
<1>1. (DeskTypes /\ StockTypes) => TypeOK
  BY DEF TypeOK, DeskTypes, StockTypes
<1>2. (LeavesAtMostOnce /\ InstalledHasLeft) => PartLeavesOnce
  BY DEF PartLeavesOnce, LeavesAtMostOnce, InstalledHasLeft, Used, Shown
<1>3. QED BY <1>1, <1>2 DEF IInv, StockInv

LEMMA HeldAtType == \A l : HeldAt(l) \in SUBSET Requests
BY DEF HeldAt

\* What is taken stays taken.
Kept == \A r \in Requests : consumed[r] = Qty[r] => consumed'[r] = Qty[r]

-----------------------------------------------------------------------------
(***************************************************************************)
(* The stock                                                               *)
(***************************************************************************)

\* Leaving the stock alone keeps what is known of it.
LEMMA StockSame ==
  ASSUME StockInv, UNCHANGED stockVars
  PROVE  StockInv' /\ Kept
<1>1. /\ hold' = hold /\ onhand' = onhand /\ reserved' = reserved /\ consumed' = consumed
      /\ twice' = twice
  BY DEF stockVars
<1>2. StockInv'
  BY <1>1 DEF StockInv, StockTypes, HeldStockIsThere, HeldAt, LeavesAtMostOnce, Used, Shown,
              PieceCount, Pieces
<1>3. QED BY <1>1, <1>2 DEF Kept

\* Moving pieces that are not held keeps what is held.
LEMMA OnhandKeeps ==
  ASSUME StockInv,
         onhand' \in [Locations -> Int],
         \A l \in Locations : reserved[l] <= onhand[l] => reserved[l] <= onhand'[l],
         UNCHANGED <<hold, twice, reserved, consumed>>
  PROVE  StockInv'
<1>1. \A l : HeldAt(l)' = HeldAt(l)
  BY DEF HeldAt
<1>2. \A l : PieceCount(HeldAt(l))' = PieceCount(HeldAt(l))
  BY <1>1, Zenon DEF PieceCount, Pieces
<1>3. HeldStockIsThere'
  BY <1>2 DEF StockInv, HeldStockIsThere
<1>4. QED BY <1>3 DEF StockInv, StockTypes, LeavesAtMostOnce, Used, Shown

\* A reservation holds pieces nobody else holds.
LEMMA ReserveKeeps ==
  ASSUME StockInv, NEW r \in Requests, NEW l \in Locations, Reserve(r, l)
  PROVE  StockInv' /\ Kept
<1>1. CASE UNCHANGED stockVars
  BY <1>1, StockSame
<1>2. CASE /\ hold[<<r, l>>] = "none"
           /\ Available(l) >= Qty[r]
           /\ hold' = [hold EXCEPT ![<<r, l>>] = "active"]
           /\ reserved' = [reserved EXCEPT ![l] = @ + Qty[r]]
           /\ UNCHANGED <<onhand, consumed, twice>>
  <2>0. Qty[r] \in Nat
    BY PartsAssumption DEF PartsAssumption
  <2>1. StockTypes'
    BY <1>2, <2>0 DEF StockInv, StockTypes
  <2>2. /\ r \notin HeldAt(l) /\ HeldAt(l)' = HeldAt(l) \cup {r}
        /\ \A k \in Locations \ {l} : HeldAt(k)' = HeldAt(k)
    BY <1>2 DEF HeldAt, StockInv, StockTypes
  <2>3. /\ PieceCount(HeldAt(l) \cup {r}) = PieceCount(HeldAt(l)) + Qty[r]
        /\ PieceCount(HeldAt(l)) \in Nat
    <3>1. HeldAt(l) \in SUBSET Requests /\ {r} \in SUBSET Requests /\ HeldAt(l) \cap {r} = {}
      BY <2>2, HeldAtType
    <3>2. PieceCount(HeldAt(l) \cup {r}) = PieceCount(HeldAt(l)) + PieceCount({r})
      BY <3>1, PiecesAdd
    <3>3. PieceCount(HeldAt(l)) \in Nat
      BY <3>1, PiecesFinite
    <3>4. QED BY <3>2, <3>3, PiecesOfOne
  <2>4. ASSUME NEW k \in Locations
        PROVE  /\ reserved'[k] <= PieceCount(HeldAt(k)')
               /\ (\A q \in Requests : <<q, k>> \notin twice') =>
                    reserved'[k] = PieceCount(HeldAt(k)') /\ reserved'[k] <= onhand'[k]
    <3>1. /\ reserved[k] <= PieceCount(HeldAt(k))
          /\ (\A q \in Requests : <<q, k>> \notin twice) =>
               reserved[k] = PieceCount(HeldAt(k)) /\ reserved[k] <= onhand[k]
      BY DEF StockInv, HeldStockIsThere
    <3>2. CASE k = l
      <4>1. reserved'[k] = reserved[l] + Qty[r] /\ reserved[l] \in Nat /\ onhand[l] \in Int
        BY <1>2, <3>2 DEF StockInv, StockTypes
      <4>2. PieceCount(HeldAt(k)') = PieceCount(HeldAt(l)) + Qty[r]
        BY <2>2, <2>3, <3>2, Zenon
      <4>3. reserved[l] + Qty[r] <= onhand[l]
        BY <1>2, <2>0, <4>1 DEF Available
      <4>4. reserved'[k] <= PieceCount(HeldAt(k)')
        BY <2>0, <2>3, <3>1, <3>2, <4>1, <4>2
      <4>5. ASSUME \A q \in Requests : <<q, k>> \notin twice'
            PROVE  reserved'[k] = PieceCount(HeldAt(k)') /\ reserved'[k] <= onhand'[k]
        <5>1. reserved[k] = PieceCount(HeldAt(k))
          BY <1>2, <3>1, <4>5
        <5>2. QED BY <1>2, <3>2, <4>1, <4>2, <4>3, <5>1
      <4>6. QED BY <4>4, <4>5
    <3>3. CASE k # l
      <4>1. PieceCount(HeldAt(k)') = PieceCount(HeldAt(k))
        BY <2>2, <3>3, Zenon
      <4>2. QED BY <1>2, <3>1, <3>3, <4>1 DEF StockInv, StockTypes
    <3>4. QED BY <3>2, <3>3
  <2>5. HeldStockIsThere'
    BY <2>4 DEF HeldStockIsThere, PieceCount, Pieces
  <2>6. ASSUME NEW q \in Requests
        PROVE  (Used(q)' <=> Used(q)) /\ (Shown(q) => Shown(q)')
    BY <1>2 DEF Used, Shown, StockInv, StockTypes
  <2>7. LeavesAtMostOnce'
    BY <1>2, <2>6 DEF LeavesAtMostOnce, StockInv
  <2>8. QED BY <1>2, <2>1, <2>5, <2>7 DEF StockInv, Kept
<1>3. QED BY <1>1, <1>2 DEF Reserve

\* _reserve_parts_inventory, for a part from the stock or bought in.
LEMMA ReservePartsKeeps ==
  ASSUME StockInv, NEW r \in Requests, NEW l \in Places, ReserveParts(r, l)
  PROVE  StockInv' /\ Kept
BY ReserveKeeps, StockSame DEF ReserveParts, Places

\* Ending the holds H takes at least the pieces that are still held of them out
\* of reserved_qty, and exactly those where every one of them is still active.
LEMMA EndAtOnePlace ==
  ASSUME StockInv, NEW H \in SUBSET (Requests \X Locations),
         NEW s \in {"confirmed", "released"}, End(H, s), NEW l \in Locations
  PROVE  /\ reserved'[l] \in Nat
         /\ reserved'[l] <= PieceCount(HeldAt(l)')
         /\ (\A r \in Requests : <<r, l>> \notin twice') =>
              /\ reserved'[l] = PieceCount(HeldAt(l)')
              /\ reserved'[l] = reserved[l] - PieceCount(At(H, l))
              /\ reserved[l] <= onhand[l]
<1> DEFINE held == HeldAt(l)
           at   == At(H, l)
           both == at \cap held
           a == PieceCount(held)
           h == PieceCount(at)
           g == PieceCount(both)
<1>1. held \in SUBSET Requests /\ at \in SUBSET Requests
      /\ both \in SUBSET held /\ both \in SUBSET at
  BY HeldAtType DEF At
<1>2. HeldAt(l)' = held \ both
  BY DEF HeldAt, At, End, StockInv, StockTypes
<1>3. /\ a \in Nat /\ h \in Nat /\ g \in Nat
      /\ PieceCount(held \ both) = a - g /\ g <= a /\ g <= h
  <2>1. a \in Nat /\ h \in Nat
    BY <1>1, PiecesFinite
  <2>2. g \in Nat
    BY <1>1, PiecesFinite
  <2>3. PieceCount(held \ both) = a - g /\ g <= a
    BY <1>1, PiecesWithout
  <2>4. g <= h
    BY <1>1, PiecesWithout
  <2>5. QED BY <2>1, <2>2, <2>3, <2>4
<1>4. PieceCount(HeldAt(l)') = a - g
  BY <1>2, <1>3, Zenon
<1>5. reserved'[l] = Floor(reserved[l] - h)
  BY DEF End
<1>6. /\ reserved[l] \in Nat /\ reserved[l] <= a
      /\ (\A r \in Requests : <<r, l>> \notin twice) =>
           reserved[l] = a /\ reserved[l] <= onhand[l]
  BY DEF StockInv, StockTypes, HeldStockIsThere
<1>7. ASSUME \A r \in Requests : <<r, l>> \notin twice'
      PROVE  g = h /\ reserved[l] = a /\ reserved[l] <= onhand[l]
  <2>1. \A r \in Requests : <<r, l>> \notin twice
    BY <1>7 DEF End
  <2>2. \A r \in at : hold[<<r, l>>] = "active"
    BY <1>7 DEF End, At
  <2>3. both = at
    BY <1>1, <2>2 DEF HeldAt
  <2>4. g = h
    BY <2>3, Zenon
  <2>5. QED BY <1>6, <2>1, <2>4
<1> HIDE DEF a, h, g
<1>8. reserved'[l] \in Nat /\ reserved'[l] <= a - g
  BY <1>3, <1>5, <1>6 DEF Floor
<1>9. ASSUME g = h, reserved[l] = a
      PROVE  reserved'[l] = a - g /\ reserved'[l] = reserved[l] - h
  BY <1>3, <1>5, <1>9 DEF Floor
<1>10. QED BY <1>4, <1>7, <1>8, <1>9 DEF h

LEMMA EndTypes ==
  ASSUME StockInv, NEW H \in SUBSET (Requests \X Locations),
         NEW s \in {"confirmed", "released"}, End(H, s)
  PROVE  /\ hold' \in [Requests \X Locations -> {"none", "active", "confirmed", "released"}]
         /\ twice' \subseteq Requests \X Locations
         /\ reserved' \in [Locations -> Nat]
<1>1. \A l \in Locations : reserved'[l] \in Nat
  BY EndAtOnePlace
<1>2. reserved' = [l \in Locations |-> Floor(reserved[l] - PieceCount(At(H, l)))]
  BY DEF End
<1>3. reserved' \in [Locations -> Nat]
  BY <1>1, <1>2
<1>4. QED BY <1>3 DEF End, StockInv, StockTypes

\* A release, whatever its hold has become, takes nothing out of the stock, and
\* what it overwrites is remembered.
LEMMA ReleaseKeeps ==
  ASSUME StockInv, NEW r \in Requests, NEW l \in Locations,
         End({<<r, l>>}, "released"), UNCHANGED <<onhand, consumed>>
  PROVE  StockInv' /\ Kept
<1> DEFINE H == {<<r, l>>}
<1>1. H \in SUBSET (Requests \X Locations)
  OBVIOUS
<1>2. StockTypes'
  BY <1>1, EndTypes DEF StockInv, StockTypes
<1>3. ASSUME NEW k \in Locations
      PROVE  /\ reserved'[k] <= PieceCount(HeldAt(k)')
             /\ (\A q \in Requests : <<q, k>> \notin twice') =>
                  reserved'[k] = PieceCount(HeldAt(k)') /\ reserved'[k] <= onhand'[k]
  <2>1. PieceCount(At(H, k)) \in Nat
    BY PiecesFinite DEF At
  <2>2. reserved[k] \in Nat /\ onhand[k] \in Int /\ onhand' = onhand
    BY DEF StockInv, StockTypes
  <2>3. /\ reserved'[k] \in Nat
        /\ reserved'[k] <= PieceCount(HeldAt(k)')
        /\ (\A q \in Requests : <<q, k>> \notin twice') =>
             /\ reserved'[k] = PieceCount(HeldAt(k)')
             /\ reserved'[k] = reserved[k] - PieceCount(At(H, k))
             /\ reserved[k] <= onhand[k]
    BY <1>1, EndAtOnePlace
  <2> HIDE DEF H
  <2>4. QED BY <2>1, <2>2, <2>3
<1>4. HeldStockIsThere'
  BY <1>3 DEF HeldStockIsThere, PieceCount, Pieces
<1>5. ASSUME NEW q \in Requests
      PROVE  (Used(q)' => Used(q)) /\ (Shown(q) => Shown(q)')
  <2>1. ASSUME NEW k \in Locations
        PROVE  /\ hold'[<<q, k>>] = "confirmed" => hold[<<q, k>>] = "confirmed"
               /\ hold[<<q, k>>] = "confirmed" =>
                    hold'[<<q, k>>] = "confirmed" \/ <<q, k>> \in twice'
               /\ <<q, k>> \in twice => <<q, k>> \in twice'
    BY DEF End, StockInv, StockTypes
  <2>2. QED BY <2>1 DEF Used, Shown
<1>6. LeavesAtMostOnce'
  BY <1>5 DEF LeavesAtMostOnce, StockInv
<1>7. QED BY <1>2, <1>4, <1>6 DEF StockInv, Kept

\* Consuming the holds H, whatever they have become: a part that has not left the
\* stock leaves it now, one that has does not leave it again.
LEMMA ConfirmKeeps ==
  ASSUME StockInv, NEW H \in SUBSET (Requests \X Locations), Confirm(H)
  PROVE  /\ StockInv' /\ Kept
         /\ \A r \in Requests, l \in Locations : <<r, l>> \in H => consumed'[r] = Qty[r]
<1>0. End(H, "confirmed")
  BY DEF Confirm
<1>1. ASSUME NEW k \in Locations
      PROVE  /\ reserved'[k] <= PieceCount(HeldAt(k)')
             /\ (\A q \in Requests : <<q, k>> \notin twice') =>
                  reserved'[k] = PieceCount(HeldAt(k)') /\ reserved'[k] <= onhand'[k]
             /\ onhand'[k] \in Int
  <2> DEFINE new == {r \in At(H, k) : consumed[r] = 0}
             h == PieceCount(At(H, k))
             n == PieceCount(new)
  <2>1. At(H, k) \in SUBSET Requests /\ new \in SUBSET At(H, k)
    BY DEF At
  <2>2. h \in Nat /\ n \in Nat /\ n <= h
    <3>1. h \in Nat
      BY <2>1, PiecesFinite
    <3>2. n \in Nat
      BY <2>1, PiecesFinite
    <3>3. n <= h
      BY <2>1, PiecesWithout
    <3>4. QED BY <3>1, <3>2, <3>3
  <2>3. reserved[k] \in Nat /\ onhand[k] \in Int /\ onhand'[k] = onhand[k] - n
    BY DEF Confirm, StockInv, StockTypes
  <2>4. /\ reserved'[k] \in Nat
        /\ reserved'[k] <= PieceCount(HeldAt(k)')
        /\ (\A q \in Requests : <<q, k>> \notin twice') =>
             /\ reserved'[k] = PieceCount(HeldAt(k)')
             /\ reserved'[k] = reserved[k] - h
             /\ reserved[k] <= onhand[k]
    BY <1>0, EndAtOnePlace
  <2> HIDE DEF h, n
  <2>5. QED BY <2>2, <2>3, <2>4
<1>2. StockTypes'
  <2>1. onhand' \in [Locations -> Int]
    BY <1>1 DEF Confirm
  <2>2. consumed' \in [Requests -> Nat]
    BY PartsAssumption DEF PartsAssumption, Confirm, StockInv, StockTypes
  <2>3. QED BY <1>0, <2>1, <2>2, EndTypes DEF StockTypes
<1>3. HeldStockIsThere'
  BY <1>1 DEF HeldStockIsThere, PieceCount, Pieces
<1>4. ASSUME NEW r \in Requests
      PROVE  /\ consumed'[r] \in {0, Qty[r]}
             /\ Used(r)' => consumed'[r] = Qty[r]
             /\ consumed'[r] = Qty[r] => Shown(r)'
             /\ consumed[r] = Qty[r] => consumed'[r] = Qty[r]
             /\ (\E l \in Locations : <<r, l>> \in H) => consumed'[r] = Qty[r]
  <2>1. Qty[r] \in Nat \ {0}
    BY PartsAssumption DEF PartsAssumption
  <2>2. /\ consumed[r] \in {0, Qty[r]}
        /\ Used(r) => consumed[r] = Qty[r]
        /\ consumed[r] = Qty[r] => Shown(r)
    BY DEF StockInv, LeavesAtMostOnce
  <2>3. consumed'[r] = IF \E l \in Locations : <<r, l>> \in H THEN Qty[r] ELSE consumed[r]
    BY DEF Confirm
  <2>4. \A l \in Locations :
          /\ hold'[<<r, l>>] = IF <<r, l>> \in H THEN "confirmed" ELSE hold[<<r, l>>]
          /\ <<r, l>> \in twice => <<r, l>> \in twice'
    BY <1>0 DEF End, StockInv, StockTypes
  <2>5. CASE \E l \in Locations : <<r, l>> \in H
    <3>1. consumed'[r] = Qty[r]
      BY <2>3, <2>5
    <3>2. Shown(r)'
      BY <2>4, <2>5 DEF Shown
    <3>3. QED BY <3>1, <3>2
  <2>6. CASE ~\E l \in Locations : <<r, l>> \in H
    <3>1. consumed'[r] = consumed[r]
      BY <2>3, <2>6
    <3>2. Used(r)' => Used(r)
      BY <2>4, <2>6 DEF Used
    <3>3. Shown(r) => Shown(r)'
      BY <2>4 DEF Shown
    <3>4. QED BY <2>2, <2>6, <3>1, <3>2, <3>3
  <2>7. QED BY <2>5, <2>6
<1>5. LeavesAtMostOnce'
  BY <1>4 DEF LeavesAtMostOnce
<1>6. Kept
  BY <1>4 DEF Kept
<1>7. QED BY <1>2, <1>3, <1>4, <1>5, <1>6 DEF StockInv

-----------------------------------------------------------------------------
(***************************************************************************)
(* The desk                                                                *)
(***************************************************************************)

LEMMA InitInv == Init => IInv
<1> SUFFICES ASSUME Init PROVE IInv
  OBVIOUS
<1>1. DeskTypes
  BY PartsAssumption DEF PartsAssumption, Init, DeskTypes, Statuses, Places
<1>2. StockTypes
  BY PartsAssumption DEF PartsAssumption, Init, StockTypes
<1>3. ASSUME NEW l \in Locations
      PROVE  reserved[l] = PieceCount(HeldAt(l)) /\ reserved[l] <= onhand[l]
  <2>1. HeldAt(l) = {}
    BY DEF Init, HeldAt
  <2>2. PieceCount(HeldAt(l)) = 0
    BY <2>1, PiecesOfOne, Zenon
  <2>3. onhand[l] \in Nat
    BY PartsAssumption DEF PartsAssumption, Init
  <2>4. QED BY <2>2, <2>3 DEF Init
<1>4. HeldStockIsThere
  <2>1. \A l \in Locations : reserved[l] \in Nat
    BY <1>2 DEF StockTypes
  <2>2. QED BY <1>3, <2>1 DEF HeldStockIsThere
<1>5. LeavesAtMostOnce
  <2>1. \A r \in Requests : consumed[r] = 0 /\ ~Used(r) /\ Qty[r] # 0
    BY PartsAssumption DEF PartsAssumption, Init, Used
  <2>2. QED BY <2>1 DEF LeavesAtMostOnce
<1>6. InstalledHasLeft /\ PlaceKnown
  BY DEF Init, InstalledHasLeft, PlaceKnown
<1>7. QED BY <1>1, <1>2, <1>4, <1>5, <1>6 DEF IInv, StockInv

\* Reading a row for a decision changes nothing but what is in flight.
LEMMA BeginKeeps ==
  ASSUME IInv, NEW r \in Requests, NEW d \in Decisions, NEW l \in Places, Begin(r, d, l),
         (r \notin Legacy /\ d \notin ByHold) => place[r] # NoPlace,
         (r \notin Legacy /\ d \in {"finish", "install"}) => l # NoPlace
  PROVE  IInv'
<1>1. /\ UNCHANGED <<job, finishing, required, request, place>> /\ UNCHANGED stockVars
      /\ pending' = pending \cup {<<r, d, l>>}
  BY DEF Begin, jobVars
<1>2. DeskTypes'
  BY <1>1 DEF IInv, DeskTypes
<1>3. StockInv' /\ Kept
  BY <1>1, StockSame DEF IInv
<1>4. InstalledHasLeft'
  BY <1>1, <1>3 DEF IInv, InstalledHasLeft, Kept
<1>5. PlaceKnown'
  BY <1>1 DEF IInv, PlaceKnown
<1>6. QED BY <1>2, <1>3, <1>4, <1>5 DEF IInv

\* Writing a decision on r: its status, and perhaps its location.
LEMMA CommitKeeps ==
  ASSUME IInv, NEW r \in Requests, NEW s \in Statuses,
         request' = [request EXCEPT ![r] = s],
         place' = place \/ \E l \in Locations : place' = [place EXCEPT ![r] = l],
         UNCHANGED <<job, finishing, required>>, pending' \subseteq pending,
         r \notin Legacy => place'[r] # NoPlace,
         StockInv', Kept,
         (s = "installed" /\ r \notin Legacy) => consumed'[r] = Qty[r]
  PROVE  IInv'
<1>1. NoPlace \notin Locations
  BY PartsAssumption DEF PartsAssumption
<1>2. DeskTypes'
  BY DEF IInv, DeskTypes, Places
<1>3. InstalledHasLeft'
  BY DEF IInv, DeskTypes, InstalledHasLeft, Kept
<1>4. \A q \in Requests : place[q] # NoPlace => place'[q] # NoPlace
  BY <1>1 DEF IInv, DeskTypes
<1>5. PlaceKnown'
  BY <1>4 DEF IInv, DeskTypes, PlaceKnown
<1>6. QED BY <1>2, <1>3, <1>5 DEF IInv

\* Ending a hold without a look at the request.
LEMMA StockOnlyKeeps ==
  ASSUME IInv, UNCHANGED <<job, finishing, required, request, place>>,
         pending' \subseteq pending, StockInv', Kept
  PROVE  IInv'
<1>1. DeskTypes'
  BY DEF IInv, DeskTypes
<1>2. InstalledHasLeft' /\ PlaceKnown'
  BY DEF IInv, InstalledHasLeft, PlaceKnown, Kept
<1>3. QED BY <1>1, <1>2 DEF IInv

LEMMA AskingKeeps ==
  ASSUME IInv, NEW r \in Requests,
         \/ CreateRead(r) \/ CustomerRead(r) \/ RefuseRead(r) \/ RefuseCommit(r)
         \/ \E l \in Locations : CreateCommit(r, l)
         \/ \E l \in Places :
              BusinessRead(r, l) \/ BusinessApprove(r, l) \/ CustomerApprove(r, l)
         \/ \E d \in Decisions, l \in Places : Abort(r, d, l)
  PROVE  IInv'
<1> USE DEF Places
<1>0. /\ NoPlace \in Places /\ Locations \subseteq Places
      /\ place[r] \in Places
      /\ (r \notin Legacy /\ request[r] # "none") => place[r] # NoPlace
  BY DEF IInv, DeskTypes, PlaceKnown
<1>1. CASE CreateRead(r)
  <2>1. PICK l \in Locations : Begin(r, "create", l)
    BY <1>1, PartsAssumption DEF PartsAssumption, CreateRead, Preferred, Usable
  <2>2. QED BY <2>1, BeginKeeps DEF Decisions, ByHold
<1>2. CASE CustomerRead(r)
  BY <1>0, <1>2, BeginKeeps DEF CustomerRead, Decisions
<1>3. CASE RefuseRead(r)
  BY <1>0, <1>3, BeginKeeps DEF RefuseRead, PendingStatuses, Decisions
<1>4. CASE RefuseCommit(r)
  <2>1. r \notin Legacy => place[r] # NoPlace
    BY <1>0, <1>4 DEF RefuseCommit, Done, IInv, PlaceKnown, Decisions, ByHold
  <2>2. StockInv' /\ Kept
    BY <1>4, StockSame DEF RefuseCommit, IInv
  <2>3. QED BY <1>4, <2>1, <2>2, CommitKeeps DEF RefuseCommit, Done, jobVars, Statuses
<1>5. CASE \E l \in Locations : CreateCommit(r, l)
  <2>1. PICK l \in Locations : CreateCommit(r, l)
    BY <1>5
  <2>2. StockInv' /\ Kept
    BY <2>1, StockSame DEF CreateCommit, IInv
  <2>3. place' = [place EXCEPT ![r] = l] /\ place'[r] # NoPlace
    BY <2>1, PartsAssumption DEF PartsAssumption, CreateCommit, IInv, DeskTypes
  <2>4. QED BY <2>1, <2>2, <2>3, CommitKeeps DEF CreateCommit, Done, jobVars, Statuses
<1>6. CASE \E l \in Places : BusinessRead(r, l)
  BY <1>0, <1>6, BeginKeeps DEF BusinessRead, Decisions
<1>7. CASE \E l \in Places : BusinessApprove(r, l)
  <2>1. PICK l \in Places : BusinessApprove(r, l)
    BY <1>7
  <2>2. StockInv' /\ Kept
    BY <2>1, StockSame, ReservePartsKeeps DEF BusinessApprove, IInv
  <2>3. r \notin Legacy => place[r] # NoPlace
    BY <1>0, <2>1 DEF BusinessApprove, DoneOnce, IInv, PlaceKnown, Decisions, ByHold
  <2>4. /\ place' = place \/ \E k \in Locations : place' = [place EXCEPT ![r] = k]
        /\ r \notin Legacy => place'[r] # NoPlace
    BY <2>1, <2>3, PartsAssumption DEF PartsAssumption, BusinessApprove, IInv, DeskTypes
  <2>5. PICK s \in Statuses \ {"installed"} : request' = [request EXCEPT ![r] = s]
    BY <2>1 DEF BusinessApprove, Statuses
  <2>6. UNCHANGED <<job, finishing, required>> /\ pending' \subseteq pending
    BY <2>1 DEF BusinessApprove, DoneOnce, jobVars
  <2>7. QED BY <2>2, <2>4, <2>5, <2>6, CommitKeeps
<1>8. CASE \E l \in Places : CustomerApprove(r, l)
  <2>1. PICK l \in Places : CustomerApprove(r, l)
    BY <1>8
  <2>2. StockInv' /\ Kept
    BY <2>1, ReservePartsKeeps DEF CustomerApprove, IInv
  <2>3. r \notin Legacy => place[r] # NoPlace
    BY <1>0, <2>1 DEF CustomerApprove, DoneOnce, IInv, PlaceKnown, Decisions, ByHold
  <2>4. request' = [request EXCEPT ![r] = "approved"] /\ place' = place
        /\ UNCHANGED <<job, finishing, required>> /\ pending' \subseteq pending
    BY <2>1 DEF CustomerApprove, DoneOnce, jobVars
  <2>5. QED BY <2>2, <2>3, <2>4, CommitKeeps DEF Statuses
<1>9. CASE \E d \in Decisions, l \in Places : Abort(r, d, l)
  <2>1. UNCHANGED <<job, finishing, required, request, place>> /\ UNCHANGED stockVars
        /\ pending' \subseteq pending
    BY <1>9 DEF Abort, Done, jobVars
  <2>2. QED BY <2>1, StockSame, StockOnlyKeeps DEF IInv
<1>10. QED BY <1>1, <1>2, <1>3, <1>4, <1>5, <1>6, <1>7, <1>8, <1>9

\* Installing, confirming and releasing, by the provider.
LEMMA EndingKeeps ==
  ASSUME IInv, NEW r \in Requests,
         \/ InstallRead(r)
         \/ \E l \in Places : InstallCommit(r, l)
         \/ \E l \in Locations : StockroomRead(r, l) \/ ConfirmCommit(r, l) \/ ReleaseCommit(r, l)
  PROVE  IInv'
<1>0. /\ place[r] \in Places
      /\ (r \notin Legacy /\ request[r] # "none") => place[r] # NoPlace
  BY DEF IInv, DeskTypes, PlaceKnown
<1>1. CASE InstallRead(r)
  BY <1>0, <1>1, BeginKeeps DEF InstallRead, Decisions
<1>2. CASE \E l \in Places : InstallCommit(r, l)
  <2>1. PICK l \in Places : InstallCommit(r, l)
    BY <1>2
  <2>2. <<r, "install", l>> \in pending /\ pending' \subseteq pending
    BY <2>1 DEF InstallCommit, Done
  <2>3. r \notin Legacy => place[r] # NoPlace /\ l # NoPlace
    BY <2>2 DEF IInv, PlaceKnown, Decisions, ByHold
  <2>4. /\ StockInv' /\ Kept
        /\ l # NoPlace => consumed'[r] = Qty[r]
    <3>1. CASE l = NoPlace
      BY <2>1, <3>1, StockSame DEF InstallCommit, IInv
    <3>2. CASE l # NoPlace
      <4>1. l \in Locations /\ {<<r, l>>} \in SUBSET (Requests \X Locations)
        BY <3>2 DEF Places
      <4>2. Confirm({<<r, l>>})
        BY <2>1, <3>2 DEF InstallCommit
      <4>3. QED BY <4>1, <4>2, ConfirmKeeps DEF IInv
    <3>3. QED BY <3>1, <3>2
  <2>5. request' = [request EXCEPT ![r] = "installed"] /\ place' = place
        /\ UNCHANGED <<job, finishing, required>>
    BY <2>1 DEF InstallCommit, jobVars
  <2>6. QED BY <2>2, <2>3, <2>4, <2>5, CommitKeeps DEF Statuses
<1>3. CASE \E l \in Locations : StockroomRead(r, l)
  <2>1. PICK l \in Locations : StockroomRead(r, l)
    BY <1>3
  <2>2. l \in Places
    BY DEF Places
  <2>3. QED BY <2>1, <2>2, BeginKeeps DEF StockroomRead, Decisions, ByHold
<1>4. CASE \E l \in Locations : ConfirmCommit(r, l)
  <2>1. PICK l \in Locations : ConfirmCommit(r, l)
    BY <1>4
  <2>2. {<<r, l>>} \in SUBSET (Requests \X Locations)
    OBVIOUS
  <2>3. StockInv' /\ Kept
    BY <2>1, <2>2, ConfirmKeeps DEF ConfirmCommit, IInv
  <2>4. UNCHANGED <<job, finishing, required, request, place>> /\ pending' \subseteq pending
    BY <2>1 DEF ConfirmCommit, Done, jobVars
  <2>5. QED BY <2>3, <2>4, StockOnlyKeeps
<1>5. CASE \E l \in Locations : ReleaseCommit(r, l)
  <2>1. PICK l \in Locations : ReleaseCommit(r, l)
    BY <1>5
  <2>2. StockInv' /\ Kept
    BY <2>1, ReleaseKeeps DEF ReleaseCommit, IInv
  <2>3. UNCHANGED <<job, finishing, required, request, place>> /\ pending' \subseteq pending
    BY <2>1 DEF ReleaseCommit, Done, jobVars
  <2>4. QED BY <2>2, <2>3, StockOnlyKeeps
<1>6. QED BY <1>1, <1>2, <1>3, <1>4, <1>5

\* Reading the parts to install: a technician's request is read with its location.
LEMMA LookKeeps ==
  ASSUME IInv, NEW j \in Jobs, WorkDoneLook(j)
  PROVE  IInv'
<1>1. PICK R \in SUBSET {r \in Requests : request[r] = "approved"} :
        pending' = pending \cup {<<r, "finish", place[r]>> : r \in R}
  <2> DEFINE approved == {r \in Ours(j) : request[r] = "approved"}
             bought   == {r \in approved : place[r] = NoPlace}
             held     == {r \in approved \ bought : Reserved(r)}
  <2>1. pending' = pending \cup {<<r, "finish", place[r]>> : r \in held \cup bought}
    BY DEF WorkDoneLook
  <2>2. (held \cup bought) \in SUBSET {r \in Requests : request[r] = "approved"}
    BY DEF Ours
  <2> HIDE DEF held, bought
  <2>3. QED BY <2>1, <2>2
<1>2. UNCHANGED <<job, request, required, place>> /\ UNCHANGED stockVars
      /\ finishing' = [finishing EXCEPT ![j] = "installing"]
  BY DEF WorkDoneLook
<1>3. DeskTypes'
  BY <1>1, <1>2 DEF IInv, DeskTypes, Decisions
<1>4. StockInv' /\ Kept
  BY <1>2, StockSame DEF IInv
<1>5. InstalledHasLeft'
  BY <1>2, <1>4 DEF IInv, InstalledHasLeft, Kept
<1>6. PlaceKnown'
  <2>1. \A r \in R : r \notin Legacy => place[r] # NoPlace
    BY DEF IInv, PlaceKnown
  <2>2. QED BY <1>1, <1>2, <2>1 DEF IInv, PlaceKnown
<1>7. QED BY <1>3, <1>4, <1>5, <1>6 DEF IInv

\* Finishing the work consumes the holds it has read of all the approved parts of
\* the job in one step, several of them at one location perhaps.
LEMMA WorkDoneKeeps ==
  ASSUME IInv, NEW j \in Jobs, WorkDoneCommit(j)
  PROVE  IInv'
<1> DEFINE H == {rl \in Installing(j) : rl[2] # NoPlace}
<1>1. /\ finishing' = [finishing EXCEPT ![j] = "no"] /\ job' = [job EXCEPT ![j] = "closed"]
      /\ pending' \subseteq pending
      /\ Confirm(H)
      /\ request' = [r \in Requests |->
           IF \E l \in Places : <<r, l>> \in Installing(j) THEN "installed" ELSE request[r]]
      /\ UNCHANGED <<required, place>>
  BY DEF WorkDoneCommit, NoLonger
<1>2. ASSUME NEW r, NEW l, <<r, l>> \in Installing(j)
      PROVE  r \in Requests /\ l \in Places /\ <<r, "finish", l>> \in pending
  <2>1. PICK e \in pending : e[2] = "finish" /\ e[1] = r /\ e[3] = l
    BY <1>2 DEF Installing
  <2>2. e \in Requests \X Decisions \X Places
    BY <2>1 DEF IInv, DeskTypes
  <2>3. QED BY <2>1, <2>2
<1>3. H \in SUBSET (Requests \X Locations)
  <2>1. SUFFICES ASSUME NEW rl \in H PROVE rl \in Requests \X Locations
    OBVIOUS
  <2>2. PICK e \in pending : rl = <<e[1], e[3]>>
    BY <2>1 DEF Installing
  <2>3. e[1] \in Requests /\ e[3] \in Places /\ e[3] # NoPlace
    BY <1>2, <2>1, <2>2
  <2>4. QED BY <2>2, <2>3 DEF Places
<1>4. /\ StockInv' /\ Kept
      /\ \A r \in Requests, l \in Locations : <<r, l>> \in H => consumed'[r] = Qty[r]
  <2> HIDE DEF H
  <2>1. QED BY <1>1, <1>3, ConfirmKeeps DEF IInv
<1>5. DeskTypes'
  BY <1>1 DEF IInv, DeskTypes, Statuses
<1>6. ASSUME NEW r \in Requests \ Legacy, NEW l \in Places, <<r, l>> \in Installing(j)
      PROVE  place[r] # NoPlace /\ l \in Locations /\ <<r, l>> \in H
  <2>1. <<r, "finish", l>> \in pending
    BY <1>2, <1>6
  <2>2. place[r] # NoPlace /\ l # NoPlace
    BY <2>1 DEF IInv, PlaceKnown, Decisions, ByHold
  <2>3. QED BY <1>6, <2>2 DEF Places
<1>7. InstalledHasLeft'
  <2>1. SUFFICES ASSUME NEW r \in Requests, request'[r] = "installed", r \notin Legacy
                 PROVE  consumed'[r] = Qty[r]
    BY DEF InstalledHasLeft
  <2>2. CASE \E l \in Places : <<r, l>> \in Installing(j)
    <3> HIDE DEF H
    <3>1. QED BY <1>4, <1>6, <2>1, <2>2
  <2>3. CASE ~\E l \in Places : <<r, l>> \in Installing(j)
    <3>1. request[r] = "installed"
      BY <1>1, <2>1, <2>3
    <3>2. QED BY <1>4, <2>1, <3>1 DEF IInv, InstalledHasLeft, Kept
  <2>4. QED BY <2>2, <2>3
<1>8. PlaceKnown'
  <2>1. ASSUME NEW r \in Requests \ Legacy, request'[r] # "none"
        PROVE  place[r] # NoPlace
    <3>1. CASE \E l \in Places : <<r, l>> \in Installing(j)
      BY <1>6, <3>1
    <3>2. CASE ~\E l \in Places : <<r, l>> \in Installing(j)
      BY <1>1, <2>1, <3>2 DEF IInv, PlaceKnown
    <3>3. QED BY <3>1, <3>2
  <2>2. QED BY <1>1, <2>1 DEF IInv, PlaceKnown
<1>9. QED BY <1>4, <1>5, <1>7, <1>8 DEF IInv

\* Receipts, counts and transfers move only what is not held.
LEMMA StockroomKeeps ==
  ASSUME IInv, Stockroom
  PROVE  IInv'
<1>0. MaxStock \in Nat
  BY PartsAssumption DEF PartsAssumption
<1>1. PICK l \in Locations :
        \/ \E n \in 1..MaxStock : Receive(l, n)
        \/ \E n \in 0..MaxStock : Count(l, n)
        \/ \E to \in Locations, n \in 1..MaxStock : Transfer(l, to, n)
  BY DEF Stockroom
<1>2. UNCHANGED <<job, finishing, required, request, place, pending>>
      /\ UNCHANGED <<hold, twice, reserved, consumed>>
  BY <1>1 DEF Receive, Count, Transfer, jobVars
<1>3. /\ onhand' \in [Locations -> Int]
      /\ \A k \in Locations : reserved[k] <= onhand[k] => reserved[k] <= onhand'[k]
  <2>1. \A k \in Locations : reserved[k] \in Nat /\ onhand[k] \in Int
    BY DEF IInv, StockInv, StockTypes
  <2>2. onhand \in [Locations -> Int]
    BY DEF IInv, StockInv, StockTypes
  <2>3. CASE \E n \in 1..MaxStock : Receive(l, n)
    BY <1>0, <2>1, <2>2, <2>3 DEF Receive
  <2>4. CASE \E n \in 0..MaxStock : Count(l, n)
    BY <1>0, <2>1, <2>2, <2>4 DEF Count
  <2>5. CASE \E to \in Locations, n \in 1..MaxStock : Transfer(l, to, n)
    BY <1>0, <2>1, <2>2, <2>5 DEF Transfer, Available
  <2>6. QED BY <1>1, <2>3, <2>4, <2>5
<1>4. StockInv' /\ Kept
  BY <1>2, <1>3, OnhandKeeps DEF IInv, Kept
<1>5. QED BY <1>2, <1>4, StockOnlyKeeps

LEMMA NextInv == IInv /\ [Next]_vars => IInv'
<1> SUFFICES ASSUME IInv, [Next]_vars PROVE IInv'
  OBVIOUS
<1>1. CASE Asking
  BY <1>1, AskingKeeps DEF Asking
<1>2. CASE \E j \in Jobs : WorkDoneRead(j) \/ WorkDoneAbort(j) \/ CancelJob(j)
  <2>1. /\ UNCHANGED <<request, required, place>> /\ UNCHANGED stockVars
        /\ finishing' \in [Jobs -> {"no", "checked", "installing"}]
        /\ job' \in [Jobs -> {"open", "closed"}]
        /\ pending' \subseteq pending
    BY <1>2 DEF WorkDoneRead, WorkDoneAbort, CancelJob, NoLonger, IInv, DeskTypes
  <2>2. DeskTypes'
    BY <2>1 DEF IInv, DeskTypes
  <2>3. StockInv' /\ Kept
    BY <2>1, StockSame DEF IInv
  <2>4. QED BY <2>1, <2>2, <2>3 DEF IInv, InstalledHasLeft, PlaceKnown, Kept
<1>3. CASE \E j \in Jobs : WorkDoneLook(j)
  BY <1>3, LookKeeps
<1>4. CASE \E j \in Jobs : WorkDoneCommit(j)
  BY <1>4, WorkDoneKeeps
<1>5. CASE Ending
  BY <1>5, EndingKeeps DEF Ending
<1>6. CASE Stockroom
  BY <1>6, StockroomKeeps
<1>7. CASE UNCHANGED vars
  <2>1. UNCHANGED stockVars /\ UNCHANGED <<job, finishing, required, request, place, pending>>
    BY <1>7 DEF vars, stockVars
  <2>2. QED BY <2>1, StockSame, StockOnlyKeeps DEF IInv
<1>8. QED BY <1>1, <1>2, <1>3, <1>4, <1>5, <1>6, <1>7 DEF Next, Finishing

LEMMA InvHolds == Spec => []IInv
BY InitInv, NextInv, PTL DEF Spec

-----------------------------------------------------------------------------
\* In every behaviour each row keeps its type.  reserved_qty never goes below
\* zero, however often a hold is ended (the max in confirm_reservation and
\* release_reservation); of the quantity on hand that is not said.
THEOREM TypeCorrect == Spec => []TypeOK
<1>1. IInv => TypeOK
  BY InvParts
<1>2. QED BY <1>1, InvHolds, PTL

\* reserved_qty is what the active reservations promise, and it is in the stock,
\* at every location where no hold was ended by two that both read it active; and
\* everywhere it is at most what they promise.  For any requests, quantities and
\* locations and any order of decisions, receipts, counts and transfers:
\* create_reservation, count_stock and transfer_stock check it, and
\* confirm_reservation takes no more than its own hold.
THEOREM HeldStockIsThereHolds == Spec => []HeldStockIsThere
<1>1. IInv => HeldStockIsThere
  BY InvParts
<1>2. QED BY <1>1, InvHolds, PTL

\* Whatever is decided twice, ended twice, held at two locations, released or
\* finished, the ledger takes a part at most once (the key of
\* confirm_reservation), a confirmed hold has taken its part, a part taken shows
\* as a confirmed hold or as one that was ended twice, and the part of a
\* technician's request that is installed has been taken.
THEOREM PartLeavesOnceHolds == Spec => []PartLeavesOnce
<1>1. IInv => PartLeavesOnce
  BY InvParts
<1>2. QED BY <1>1, InvHolds, PTL
=============================================================================

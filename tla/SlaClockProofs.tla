--------------------------- MODULE SlaClockProofs ---------------------------
(***************************************************************************)
(* Theorems about what missing an arrival costs, for any jobs, slots,      *)
(* policy amounts and times, any opening balance and debt cap, whether     *)
(* penalties go to the customer or not.                                    *)
(***************************************************************************)
EXTENDS SlaClock, TLAPS

\* The recorded charge covers the two ledger rows of the missed-arrival rule,
\* there are none before the first breach, and they stay within the target.
ChargeInv(j) ==
  /\ job[j].charged >= paid[j]["day1"] + paid[j]["final"]
  /\ job[j].days = 0 => paid[j]["day1"] = 0 /\ paid[j]["final"] = 0
  /\ paid[j]["day1"] + paid[j]["final"] <= Target

\* Only a closed job says who closed it.  Where the penalty goes to the customer
\* the first breach has recorded its charge, and the final row, or a close after
\* a breach, the whole target.
RemedyInv(j) ==
  /\ job[j].by \in {"provider", "sweep"} => job[j].status = "closed"
  /\ Compensates(j) =>
       /\ job[j].days > 0 => job[j].charged >= Initial
       /\ paid[j]["final"] > 0 => job[j].charged >= Target
       /\ job[j].by \in {"provider", "sweep"} /\ job[j].days > 0 => job[j].charged >= Target

IInv == TypeOK /\ \A j \in Jobs : ChargeInv(j) /\ RemedyInv(j)

-----------------------------------------------------------------------------
(***************************************************************************)
(* Rows                                                                    *)
(***************************************************************************)

LEMMA PolicyTypes ==
  /\ Slots \subseteq Int /\ FirstSlot \in Slots /\ LaterSlots \subseteq Slots
  /\ Initial \in Nat /\ Total \in Nat /\ Target \in Nat
  /\ Initial <= Target /\ Total <= Target
  /\ CloseAfter \in Nat /\ FalsePenalty \in Nat /\ StageLimit \in Nat
  BY PolicyAssumption DEF Slots, Target, Greater

LEMMA ClockTypes ==
  ASSUME NEW row \in JobType
  PROVE  /\ Stamped(row) \in JobType
         /\ Stopped(row) \in JobType
         /\ Reconciled(row) \in JobType
<1>1. row.slot \in Slots
  BY DEF JobType
<1>2. row.slot + CloseAfter \in {s + CloseAfter : s \in Slots}
  BY <1>1
<1>. QED
  BY <1>1, <1>2 DEF JobType, Stamped, Stopped, Reconciled

LEMMA MovedType ==
  ASSUME NEW row \in JobType, NEW status \in Statuses, NEW at \in Times
  PROVE  Moved(row, status, at) \in JobType
<1>1. NoEvent \in Int
  BY DEF NoEvent
<1>. QED
  BY <1>1 DEF JobType, Moved

LEMMA ClosedType ==
  ASSUME NEW row \in JobType,
         NEW who \in {"sweep", "watchdog", "provider", "customer", "work", "refused"}
  PROVE  Closed(row, who) \in JobType
<1>1. 0 \in Times
  BY PolicyAssumption DEF Times
<1>2. Moved(row, "closed", 0) \in JobType
  BY <1>1, MovedType DEF Statuses
<1>. QED
  BY <1>2 DEF Closed, JobType

\* What a charge takes and reports is never negative, and what it takes is never
\* more than asked.
LEMMA TakeFacts ==
  ASSUME TypeOK, NEW j \in Jobs, NEW key \in Keys, NEW amount \in Nat
  PROVE  /\ Take(j, key, amount).moved \in Nat
         /\ Take(j, key, amount).told \in Nat
         /\ Take(j, key, amount).moved <= amount
         /\ Take(j, key, amount).told >= Take(j, key, amount).moved
         /\ Compensates(j) /\ paid[j][key] = 0 =>
              Take(j, key, amount).moved = amount /\ Take(j, key, amount).told = amount
<1>1. paid[j][key] \in Nat /\ Allowed(balance) \in Nat
  BY PolicyAssumption DEF TypeOK, Allowed, Greater
<1>2. CASE Compensates(j)
  BY <1>1, <1>2 DEF Take, Remedy
<1>3. CASE ~Compensates(j)
  BY <1>1, <1>3 DEF Take, Withdraw, Lesser
<1>. QED
  BY <1>2, <1>3

LEMMA TopUpFacts ==
  ASSUME NEW c \in Int, NEW target \in Nat
  PROVE  /\ TopUp(c, target) \in Nat
         /\ c + TopUp(c, target) >= target
         /\ c >= 0 => \/ c <= target /\ c + TopUp(c, target) = target
                      \/ TopUp(c, target) = 0
  BY DEF TopUp, Greater

-----------------------------------------------------------------------------
(***************************************************************************)
(* What a step does to one job                                             *)
(***************************************************************************)

LEMMA JobTypes ==
  ASSUME TypeOK, NEW j \in Jobs
  PROVE  /\ job[j] \in JobType /\ job[j].charged \in Int /\ job[j].days \in 0 .. 2
         /\ paid[j] \in [Keys -> Nat]
         /\ paid[j]["day1"] \in Nat /\ paid[j]["final"] \in Nat
  BY DEF TypeOK, JobType, Keys

\* Every step but the ones that charge for a missing arrival leaves the two rows
\* and the breach count alone, never lowers the recorded charge, and does not
\* close the job in the name of the provider or the sweep after a breach.
Harmless(j) ==
  /\ paid'[j]["day1"] = paid[j]["day1"] /\ paid'[j]["final"] = paid[j]["final"]
  /\ job'[j].days = job[j].days
  /\ job'[j].charged >= job[j].charged
  /\ job'[j].by \in {"provider", "sweep"} =>
       job'[j].status = "closed" /\ (job'[j].by = job[j].by \/ job[j].days = 0)

LEMMA HarmlessKeeps ==
  ASSUME TypeOK, TypeOK', NEW j \in Jobs, ChargeInv(j), RemedyInv(j), Harmless(j)
  PROVE  ChargeInv(j)' /\ RemedyInv(j)'
<1>1. job[j].charged \in Int /\ job'[j].charged \in Int /\ job[j].days \in Nat
      /\ paid[j]["day1"] \in Nat /\ paid[j]["final"] \in Nat
  BY DEF TypeOK, JobType, Keys
<1>2. ChargeInv(j)'
  BY <1>1 DEF ChargeInv, Harmless, Target
<1>3. RemedyInv(j)'
  BY <1>1, PolicyTypes DEF RemedyInv, Harmless, Target, Compensates
<1>. QED
  BY <1>2, <1>3

\* A step on one job leaves the others alone.
LEMMA OthersKeep ==
  ASSUME IInv, TypeOK', NEW j \in Jobs, NEW row, job' = [job EXCEPT ![j] = row],
         \A i \in Jobs \ {j} : paid'[i] = paid[i],
         ChargeInv(j)', RemedyInv(j)'
  PROVE  IInv'
<1>1. ASSUME NEW i \in Jobs, i # j PROVE ChargeInv(i)' /\ RemedyInv(i)'
  <2>1. job'[i] = job[i] /\ paid'[i] = paid[i] /\ TypeOK
    BY <1>1 DEF IInv, TypeOK
  <2>2. job[i].charged \in Int
    BY <2>1, JobTypes
  <2>3. Harmless(i)
    BY <2>1, <2>2 DEF Harmless, IInv, RemedyInv
  <2>. QED
    BY <2>1, <2>3, HarmlessKeeps DEF IInv
<1>. QED
  BY <1>1 DEF IInv

\* A new row that charges nothing.
LEMMA JobOnlyKeeps ==
  ASSUME IInv, NEW j \in Jobs, NEW row \in JobType, JobOnly(j, row),
         row.days = job[j].days, row.charged = job[j].charged,
         row.by \in {"provider", "sweep"} => row.by = job[j].by /\ row.status = job[j].status
  PROVE  IInv'
<1>1. TypeOK'
  BY DEF IInv, TypeOK, JobOnly, money
<1>2. job'[j] = row /\ paid' = paid /\ TypeOK /\ job' = [job EXCEPT ![j] = row]
  BY DEF IInv, TypeOK, JobOnly, money
<1>3. job[j].charged \in Int
  BY <1>2, JobTypes
<1>4. Harmless(j)
  BY <1>2, <1>3 DEF Harmless, IInv, RemedyInv
<1>5. ChargeInv(j)' /\ RemedyInv(j)'
  BY <1>1, <1>2, <1>4, HarmlessKeeps DEF IInv
<1>. QED
  BY <1>1, <1>2, <1>5, OthersKeep

\* What a charge under one key does to the ledger and the balance.
LEMMA BookFacts ==
  ASSUME TypeOK, NEW j \in Jobs, NEW key \in Keys, NEW t, t.moved \in Nat, Book(j, key, t)
  PROVE  /\ paid' \in [Jobs -> [Keys -> Nat]] /\ balance' \in Int /\ refund' = refund
         /\ \A i \in Jobs \ {j} : paid'[i] = paid[i]
         /\ paid'[j][key] = paid[j][key] + t.moved
         /\ \A k \in Keys \ {key} : paid'[j][k] = paid[j][k]
<1>1. paid[j] \in [Keys -> Nat] /\ paid \in [Jobs -> [Keys -> Nat]]
  BY DEF TypeOK
<1>2. paid[j][key] + t.moved \in Nat
  BY <1>1
<1>3. paid' = [paid EXCEPT ![j] = [paid[j] EXCEPT ![key] = paid[j][key] + t.moved]]
  BY <1>1 DEF Book
<1>. QED
  BY <1>1, <1>2, <1>3 DEF Book, TypeOK

LEMMA ClosedFields ==
  ASSUME NEW row \in JobType, NEW who
  PROVE  /\ Closed(row, who).charged = row.charged
         /\ Closed(row, who).days = row.days
         /\ Closed(row, who).by = who /\ Closed(row, who).status = "closed"
  BY DEF Closed, Moved, JobType

\* settle_no_arrival_close brings the charge up to the target, once.
LEMMA SettleKeeps ==
  ASSUME IInv, NEW j \in Jobs, NEW who \in {"provider", "sweep"},
         SettleNoArrival(j, job[j], who), UNCHANGED <<now, request>>
  PROVE  IInv'
<1>. DEFINE amount == TopUp(job[j].charged, Target)
            t == Take(j, "final", amount)
            told == [job[j] EXCEPT !.breached = TRUE, !.days = 2, !.next = NoTime,
                                   !.charged = job[j].charged + t.told, !.stopped = TRUE]
<1>1. TypeOK /\ job[j] \in JobType /\ job[j].charged \in Int
      /\ paid[j]["day1"] \in Nat /\ paid[j]["final"] \in Nat
      /\ ChargeInv(j) /\ RemedyInv(j) /\ "final" \in Keys /\ "day1" \in Keys
  BY JobTypes DEF IInv, Keys
<1>2. amount \in Nat /\ job[j].charged + amount >= Target
      /\ (amount = 0 \/ job[j].charged + amount = Target)
  BY <1>1, PolicyTypes DEF TopUp, Greater
<1>3. Book(j, "final", t) /\ job' = [job EXCEPT ![j] = Closed(told, who)]
  BY DEF SettleNoArrival, Target
<1>. HIDE DEF amount
<1>4. /\ t.moved \in Nat /\ t.told \in Nat /\ t.moved <= amount /\ t.told >= t.moved
      /\ Compensates(j) /\ paid[j]["final"] = 0 => t.told = amount
  BY <1>1, <1>2, TakeFacts
<1>. HIDE DEF t
<1>5. told \in JobType /\ told.charged = job[j].charged + t.told /\ told.days = 2
  <2>1. job[j].charged + t.told \in Int /\ 2 \in 0 .. 2
    BY <1>1, <1>4
  <2>. QED
    BY <1>1, <2>1 DEF JobType
<1>. HIDE DEF told
<1>6. Closed(told, who) \in JobType /\ Closed(told, who).charged = told.charged
      /\ Closed(told, who).days = 2 /\ Closed(told, who).by = who
      /\ Closed(told, who).status = "closed"
  BY <1>5, ClosedType, ClosedFields
<1>7. /\ paid' \in [Jobs -> [Keys -> Nat]] /\ balance' \in Int /\ refund' = refund
      /\ \A i \in Jobs \ {j} : paid'[i] = paid[i]
      /\ paid'[j]["final"] = paid[j]["final"] + t.moved
      /\ paid'[j]["day1"] = paid[j]["day1"]
  BY <1>1, <1>3, <1>4, BookFacts DEF Keys
<1>8. TypeOK'
  BY <1>1, <1>3, <1>6, <1>7 DEF TypeOK
<1>9. job'[j] = Closed(told, who)
  BY <1>1, <1>3 DEF TypeOK
<1>10. ChargeInv(j)'
  BY <1>1, <1>2, <1>4, <1>5, <1>6, <1>7, <1>9, PolicyTypes DEF ChargeInv, Target
<1>11. RemedyInv(j)'
  BY <1>1, <1>2, <1>4, <1>5, <1>6, <1>7, <1>9, PolicyTypes DEF RemedyInv, Target, Compensates
<1>. QED
  BY <1>3, <1>7, <1>8, <1>10, <1>11, OthersKeep

\* The sweep's first charge, and its last with the close.
LEMMA BreachKeeps ==
  ASSUME IInv, NEW j \in Jobs, NEW row \in JobType, row.charged = job[j].charged,
         row.days = job[j].days, row.by \notin {"provider", "sweep"}, row.due = row.slot,
         Breach(j, row), UNCHANGED <<now, request>>
  PROVE  IInv'
<1>. DEFINE last == row.days >= 1
            key == IF last THEN "final" ELSE "day1"
            amount == IF last THEN TopUp(row.charged, Total) ELSE Initial
            t == Take(j, key, amount)
            told == [row EXCEPT !.breached = TRUE, !.days = IF last THEN 2 ELSE 1,
                       !.charged = row.charged + t.told, !.stopped = last,
                       !.next = IF last THEN NoTime ELSE row.due + CloseAfter]
            final == IF last /\ AutoCancel THEN Closed(told, "sweep") ELSE told
<1>1. TypeOK /\ row.charged \in Int /\ row.days \in 0 .. 2
      /\ paid[j]["day1"] \in Nat /\ paid[j]["final"] \in Nat
      /\ ChargeInv(j) /\ RemedyInv(j) /\ key \in Keys
  BY JobTypes DEF IInv, Keys
<1>2. /\ amount \in Nat
      /\ last => row.charged + amount >= Total /\ (amount = 0 \/ row.charged + amount = Total)
  BY <1>1, PolicyTypes DEF TopUp, Greater
<1>3. Book(j, key, t) /\ job' = [job EXCEPT ![j] = final]
  BY DEF Breach
<1>4. /\ t.moved \in Nat /\ t.told \in Nat /\ t.moved <= amount /\ t.told >= t.moved
      /\ Compensates(j) /\ paid[j][key] = 0 => t.told = amount
  <2>. HIDE DEF amount, key
  <2>. QED
    BY <1>1, <1>2, TakeFacts
<1>. HIDE DEF t
<1>5. told \in JobType /\ told.charged = row.charged + t.told
      /\ told.days = (IF last THEN 2 ELSE 1) /\ told.by = row.by
  <2>1. row.charged + t.told \in Int /\ (IF last THEN 2 ELSE 1) \in 0 .. 2 /\ last \in BOOLEAN
    BY <1>1, <1>4
  <2>2. (IF last THEN NoTime ELSE row.due + CloseAfter)
          \in (Slots \cup {s + CloseAfter : s \in Slots}) \cup {NoTime}
    BY DEF JobType
  <2>. HIDE DEF last
  <2>. QED
    BY <2>1, <2>2 DEF JobType
<1>. HIDE DEF told
<1>6. final \in JobType /\ final.charged = row.charged + t.told
      /\ final.days = (IF last THEN 2 ELSE 1)
      /\ (final.by \in {"provider", "sweep"} => final.status = "closed" /\ last)
  <2>1. Closed(told, "sweep") \in JobType /\ Closed(told, "sweep").charged = told.charged
        /\ Closed(told, "sweep").days = told.days /\ Closed(told, "sweep").status = "closed"
    BY <1>5, ClosedType, ClosedFields
  <2>. QED
    BY <1>5, <2>1
<1>. HIDE DEF final
<1>7. /\ paid' \in [Jobs -> [Keys -> Nat]] /\ balance' \in Int /\ refund' = refund
      /\ \A i \in Jobs \ {j} : paid'[i] = paid[i]
      /\ paid'[j][key] = paid[j][key] + t.moved
      /\ \A k \in Keys \ {key} : paid'[j][k] = paid[j][k]
  <2>. HIDE DEF key
  <2>. QED
    BY <1>1, <1>3, <1>4, BookFacts
<1>8. TypeOK'
  BY <1>1, <1>3, <1>6, <1>7 DEF TypeOK
<1>9. job'[j] = final
  BY <1>1, <1>3 DEF TypeOK
<1>10. CASE last
  <2>1. paid'[j]["final"] = paid[j]["final"] + t.moved /\ paid'[j]["day1"] = paid[j]["day1"]
    BY <1>7, <1>10 DEF Keys
  <2>2. ChargeInv(j)'
    BY <1>1, <1>2, <1>4, <1>6, <1>9, <1>10, <2>1, PolicyTypes DEF ChargeInv, Target
  <2>3. RemedyInv(j)'
    <3>1. Compensates(j) => row.charged >= Initial
      BY <1>1, <1>10 DEF RemedyInv
    <3>2. Compensates(j) => final.charged >= Target
      <4>1. CASE paid[j]["final"] = 0
        BY <1>1, <1>2, <1>4, <1>6, <1>10, <3>1, <4>1, PolicyTypes DEF Target, Greater
      <4>2. CASE paid[j]["final"] > 0
        BY <1>1, <1>4, <1>6, <4>2, PolicyTypes DEF RemedyInv
      <4>. QED
        BY <1>1, <4>1, <4>2
    <3>. QED
      BY <1>1, <1>4, <1>6, <1>9, <3>2, PolicyTypes DEF RemedyInv, Target, Compensates
  <2>. QED
    BY <1>3, <1>7, <1>8, <2>2, <2>3, OthersKeep
<1>11. CASE ~last
  <2>0. row.days = 0 /\ key = "day1" /\ amount = Initial
    BY <1>1, <1>11
  <2>1. /\ paid[j]["final"] = 0 /\ paid[j]["day1"] = 0
        /\ paid'[j]["day1"] = t.moved /\ paid'[j]["final"] = 0
    BY <1>1, <1>4, <1>7, <2>0 DEF Keys, ChargeInv
  <2>2. ChargeInv(j)'
    BY <1>1, <1>2, <1>4, <1>6, <1>9, <1>11, <2>1, PolicyTypes DEF ChargeInv, Target
  <2>3. Compensates(j) => final.charged >= Initial
    <3>1. row.charged >= 0
      BY <1>1, <2>1 DEF ChargeInv
    <3>2. Compensates(j) => t.told = Initial
      BY <1>4, <2>0, <2>1
    <3>. QED
      BY <1>1, <1>4, <1>6, <3>1, <3>2, PolicyTypes
  <2>4. RemedyInv(j)'
    BY <1>1, <1>4, <1>6, <1>9, <1>11, <2>1, <2>3, PolicyTypes DEF RemedyInv, Target, Compensates
  <2>. QED
    BY <1>3, <1>7, <1>8, <2>2, <2>4, OthersKeep
<1>. QED
  BY <1>10, <1>11

\* A charge under another key, with a row that is not closed by provider or sweep.
LEMMA OtherChargeKeeps ==
  ASSUME IInv, NEW j \in Jobs, NEW key \in {"gps", "denied", "stage"}, NEW moved \in Nat,
         NEW row \in JobType, row.days = job[j].days, row.charged >= job[j].charged,
         row.by \notin {"provider", "sweep"},
         job' = [job EXCEPT ![j] = row],
         paid' = [paid EXCEPT ![j][key] = @ + moved], balance' = balance - moved,
         UNCHANGED <<refund, now, request>>
  PROVE  IInv'
<1>1. TypeOK /\ key \in Keys /\ "day1" \in Keys \ {key} /\ "final" \in Keys \ {key}
  BY DEF IInv, Keys
<1>2. /\ paid' \in [Jobs -> [Keys -> Nat]] /\ balance' \in Int
      /\ \A i \in Jobs \ {j} : paid'[i] = paid[i]
      /\ \A k \in Keys \ {key} : paid'[j][k] = paid[j][k]
  <2>1. paid[j] \in [Keys -> Nat] /\ paid \in [Jobs -> [Keys -> Nat]] /\ balance \in Int
    BY <1>1 DEF TypeOK
  <2>2. paid[j][key] + moved \in Nat
    BY <1>1, <2>1
  <2>3. paid' = [paid EXCEPT ![j] = [paid[j] EXCEPT ![key] = paid[j][key] + moved]]
    BY <1>1, <2>1
  <2>. QED
    BY <1>1, <2>1, <2>2, <2>3
<1>3. TypeOK'
  BY <1>1, <1>2 DEF TypeOK
<1>4. job'[j] = row
  BY <1>1 DEF TypeOK
<1>5. Harmless(j)
  BY <1>1, <1>2, <1>4 DEF Harmless
<1>6. ChargeInv(j)' /\ RemedyInv(j)'
  BY <1>1, <1>3, <1>5, HarmlessKeeps DEF IInv
<1>. QED
  BY <1>2, <1>3, <1>6, OthersKeep

\* What _charge_penalty takes is what it was allowed to, and never negative.
LEMMA WithdrawFacts ==
  ASSUME NEW seen \in Nat, NEW amount \in Nat, NEW allowed \in Nat
  PROVE  /\ Withdraw(seen, amount, allowed).moved \in Nat
         /\ Withdraw(seen, amount, allowed).told \in Nat
  BY DEF Withdraw, Lesser

LEMMA AllowedIsNat ==
  ASSUME NEW b \in Int
  PROVE  Allowed(b) \in Nat
  BY PolicyAssumption DEF Allowed, Greater

LEMMA FalseArrivalKeeps ==
  ASSUME IInv, NEW j \in Jobs, NEW key \in Refusals, FalseArrival(j, key)
  PROVE  IInv'
<1>. DEFINE p == Withdraw(paid[j][key], FalsePenalty, FalsePenalty)
            told == [job[j] EXCEPT !.charged = job[j].charged + p.told, !.stopped = TRUE,
                                   !.next = NoTime]
<1>1. TypeOK /\ job[j] \in JobType /\ job[j].charged \in Int /\ paid[j] \in [Keys -> Nat]
  BY JobTypes DEF IInv
<1>2. key \in {"gps", "denied"} /\ paid[j][key] \in Nat
  BY <1>1, PolicyAssumption DEF Keys
<1>3. p.moved \in Nat /\ p.told \in Nat
  BY <1>2, WithdrawFacts, PolicyTypes
<1>4. /\ job' = [job EXCEPT ![j] = Closed(told, "refused")]
      /\ paid' = [paid EXCEPT ![j][key] = @ + p.moved] /\ balance' = balance - p.moved
      /\ UNCHANGED <<refund, now, request>>
  BY DEF FalseArrival
<1>. HIDE DEF p
<1>5. told \in JobType /\ told.days = job[j].days /\ told.charged >= job[j].charged
  <2>1. job[j].charged + p.told \in Int /\ job[j].charged + p.told >= job[j].charged
    BY <1>1, <1>3
  <2>. QED
    BY <1>1, <2>1 DEF JobType
<1>. HIDE DEF told
<1>6. /\ Closed(told, "refused") \in JobType
      /\ Closed(told, "refused").days = job[j].days
      /\ Closed(told, "refused").charged >= job[j].charged
      /\ Closed(told, "refused").by = "refused"
  BY <1>5, ClosedType, ClosedFields
<1>. QED
  BY <1>2, <1>3, <1>4, <1>6, OtherChargeKeeps

LEMMA EnforceStageKeeps ==
  ASSUME IInv, NEW j \in Jobs, EnforceStage(j)
  PROVE  IInv'
<1>. DEFINE row == job[j]
            one == IF row.first = NoEvent THEN Withdraw(0, Initial, Allowed(balance))
                   ELSE [moved |-> 0, told |-> row.first]
            ends == now >= StageDue(row) + CloseAfter /\ ~row.final
            two == IF ends THEN Withdraw(0, TopUp(one.told, Total), Allowed(balance - one.moved))
                   ELSE [moved |-> 0, told |-> 0]
            sum == one.moved + two.moved
            over == row.final \/ ends
            late == row.breached \/ one.moved > 0
            told == [row EXCEPT !.first = one.told, !.final = over, !.breached = late,
                       !.charged = row.charged + sum]
            new == IF ends /\ AutoCancel THEN Closed(told, "watchdog") ELSE told
<1>1. TypeOK /\ row \in JobType /\ row.charged \in Int /\ row.first \in Int /\ balance \in Int
      /\ RemedyInv(j)
  BY JobTypes DEF IInv, TypeOK, JobType
<1>2. one.moved \in Nat /\ one.told \in Int
  <2>1. Allowed(balance) \in Nat
    BY <1>1, AllowedIsNat
  <2>2. /\ Withdraw(0, Initial, Allowed(balance)).moved \in Nat
        /\ Withdraw(0, Initial, Allowed(balance)).told \in Nat
    BY <2>1, WithdrawFacts, PolicyTypes
  <2>. QED
    BY <1>1, <2>2
<1>3. /\ row.status = "on_site"
      /\ paid' = [paid EXCEPT ![j]["stage"] = @ + sum] /\ balance' = balance - sum
      /\ job' = [job EXCEPT ![j] = new]
      /\ UNCHANGED <<refund, now, request>>
  BY DEF EnforceStage
<1>. HIDE DEF one
<1>4. two.moved \in Nat
  <2>. DEFINE top == TopUp(one.told, Total)
              left == Allowed(balance - one.moved)
  <2>0. balance - one.moved \in Int
    BY <1>1, <1>2
  <2>1. top \in Nat /\ left \in Nat
    BY <1>2, <2>0, TopUpFacts, AllowedIsNat, PolicyTypes
  <2>. HIDE DEF top, left
  <2>2. Withdraw(0, top, left).moved \in Nat
    BY <2>1, WithdrawFacts
  <2>. QED
    BY <2>2 DEF top, left
<1>. HIDE DEF two
<1>5. sum \in Nat
  BY <1>2, <1>4
<1>. HIDE DEF sum
<1>6. told \in JobType /\ told.days = row.days /\ told.charged >= row.charged
      /\ told.by = row.by
  <2>1. row.charged + sum \in Int /\ row.charged + sum >= row.charged
    BY <1>1, <1>5
  <2>2. over \in BOOLEAN /\ late \in BOOLEAN
    OBVIOUS
  <2>. HIDE DEF over, late, row
  <2>. QED
    BY <1>1, <1>2, <2>1, <2>2 DEF JobType
<1>. HIDE DEF told, ends
<1>7. /\ Closed(told, "watchdog") \in JobType
      /\ Closed(told, "watchdog").days = row.days
      /\ Closed(told, "watchdog").charged >= row.charged
      /\ Closed(told, "watchdog").by = "watchdog"
  BY <1>6, ClosedType, ClosedFields
<1>8. row.by \notin {"provider", "sweep"}
  BY <1>1, <1>3 DEF RemedyInv
<1>9. new \in JobType /\ new.days = job[j].days /\ new.charged >= job[j].charged
      /\ new.by \notin {"provider", "sweep"}
  BY <1>6, <1>7, <1>8
<1>. HIDE DEF new, row
<1>. QED
  BY <1>3, <1>5, <1>9, OtherChargeKeeps

-----------------------------------------------------------------------------
(***************************************************************************)
(* The inductive invariant                                                 *)
(***************************************************************************)

\* What the helpers of the clock leave alone.
LEMMA ClockFields ==
  ASSUME NEW row \in JobType, NEW status, NEW at
  PROVE  /\ Stamped(row).days = row.days /\ Stamped(row).charged = row.charged
         /\ Stamped(row).by = row.by
         /\ Stopped(row).days = row.days /\ Stopped(row).charged = row.charged
         /\ Stopped(row).by = row.by
         /\ Moved(row, status, at).days = row.days
         /\ Moved(row, status, at).charged = row.charged
         /\ Moved(row, status, at).by = row.by
         /\ Reconciled(row).days = row.days /\ Reconciled(row).charged = row.charged
         /\ Reconciled(row).by = row.by /\ Reconciled(row).slot = row.slot
         /\ Reconciled(row).due = row.slot
  BY DEF JobType, Stamped, Stopped, Moved, Reconciled

LEMMA InitIInv == Init => IInv
<1>. SUFFICES ASSUME Init PROVE IInv
  OBVIOUS
<1>1. 0 \in Times /\ 0 \in 0 .. MaxReopens /\ 0 \in 0 .. 2 /\ NoEvent \in Int
  BY PolicyAssumption DEF Times, NoEvent
<1>2. ASSUME NEW j \in Jobs PROVE job[j] \in JobType
  BY <1>1, PolicyTypes DEF Init, JobType, Statuses
<1>3. TypeOK
  BY <1>1, <1>2, PolicyAssumption DEF Init, TypeOK, NoRequest
<1>4. ASSUME NEW j \in Jobs PROVE ChargeInv(j) /\ RemedyInv(j)
  BY PolicyTypes DEF Init, ChargeInv, RemedyInv, Keys
<1>. QED
  BY <1>3, <1>4 DEF IInv

\* Steps that give a job a new row and charge nothing.
Plain(j) ==
  \/ Assign(j) \/ Drop(j) \/ SetOff(j) \/ Arrive(j) \/ Progress(j) \/ AwaitCustomer(j)
  \/ RequestHandover(j) \/ AnswerHandover(j) \/ CustomerNotAvailable(j) \/ Complete(j)
  \/ Reopen(j) \/ \E s \in LaterSlots : Reschedule(j, s)

LEMMA PlainKeeps ==
  ASSUME IInv, NEW j \in Jobs, Plain(j)
  PROVE  IInv'
<1>. DEFINE row == job[j]
            At(status, at) == Moved(row, status, at)
            Fits(new) == /\ new \in JobType /\ new.days = row.days /\ new.charged = row.charged
                         /\ new.by \in {"provider", "sweep"} =>
                              new.by = row.by /\ new.status = row.status
<1>1. TypeOK /\ row \in JobType /\ RemedyInv(j) /\ now \in Times /\ 0 \in Times
  BY PolicyAssumption, JobTypes DEF IInv, TypeOK, Times
<1>2. ASSUME NEW new, Fits(new), JobOnly(j, new) PROVE IInv'
  BY <1>2, JobOnlyKeeps
<1>3. row.status # "closed" => row.by \notin {"provider", "sweep"}
  BY <1>1 DEF RemedyInv
<1>4. ASSUME NEW status \in Statuses, NEW at \in {0, now}, row.status # "closed"
      PROVE  /\ Fits(At(status, at)) /\ Fits(Stamped(At(status, at)))
             /\ Fits(Stopped(At(status, at)))
  <2>1. At(status, at) \in JobType
    BY <1>1, MovedType
  <2>2. Stamped(At(status, at)) \in JobType /\ Stopped(At(status, at)) \in JobType
    BY <2>1, ClockTypes
  <2>3. /\ At(status, at).days = row.days /\ At(status, at).charged = row.charged
        /\ At(status, at).by = row.by
    BY <1>1, ClockFields
  <2>. HIDE DEF At
  <2>. QED
    BY <1>3, <1>4, <2>1, <2>2, <2>3, ClockFields
<1>. HIDE DEF Fits
<1>5. CASE Assign(j)
  BY <1>2, <1>4, <1>5 DEF Assign, Statuses
<1>6. CASE Drop(j) \/ AwaitCustomer(j) \/ CustomerNotAvailable(j)
  BY <1>2, <1>4, <1>6 DEF Drop, AwaitCustomer, CustomerNotAvailable, Statuses
<1>7. CASE SetOff(j)
  BY <1>2, <1>4, <1>7 DEF SetOff, Statuses
<1>8. CASE Progress(j)
  BY <1>2, <1>4, <1>8 DEF Progress, Statuses
<1>9. CASE Arrive(j)
  <2>. DEFINE new == Stopped(At("on_site", now))
  <2>1. Fits(new)
    BY <1>4, <1>9 DEF Arrive, Statuses
  <2>2. JobOnly(j, [new EXCEPT !.arrived = TRUE])
    BY <1>9 DEF Arrive
  <2>. HIDE DEF new
  <2>3. Fits([new EXCEPT !.arrived = TRUE])
    BY <2>1 DEF Fits, JobType
  <2>. QED
    BY <1>2, <2>2, <2>3
<1>10. CASE RequestHandover(j) \/ AnswerHandover(j)
  <2>1. PICK at \in Times \cup {NoTime} : JobOnly(j, [row EXCEPT !.held = at])
    BY <1>1, <1>10 DEF RequestHandover, AnswerHandover
  <2>2. Fits([row EXCEPT !.held = at])
    BY <1>1 DEF Fits, JobType
  <2>. QED
    BY <1>2, <2>1, <2>2
<1>11. CASE Complete(j)
  <2>1. Closed(row, "work") \in JobType /\ Closed(row, "work").days = row.days
        /\ Closed(row, "work").charged = row.charged /\ Closed(row, "work").by = "work"
    BY <1>1, ClosedType, ClosedFields
  <2>2. Fits(Closed(row, "work"))
    BY <2>1 DEF Fits
  <2>. QED
    BY <1>2, <1>11, <2>2 DEF Complete
<1>12. CASE Reopen(j)
  <2>. DEFINE new == [row EXCEPT !.status = "pending_assignment",
                                 !.reopens = row.reopens + 1, !.by = "nobody"]
  <2>1. row.reopens + 1 \in 0 .. MaxReopens
    BY <1>1, <1>12, PolicyAssumption DEF Reopen, JobType
  <2>2. Fits(new)
    BY <1>1, <2>1 DEF Fits, JobType, Statuses
  <2>3. JobOnly(j, new)
    BY <1>12 DEF Reopen
  <2>. QED
    BY <1>2, <2>2, <2>3
<1>13. ASSUME NEW s \in LaterSlots, Reschedule(j, s) PROVE IInv'
  <2>1. s \in Slots
    BY PolicyTypes
  <2>2. CASE row.status \in {"pending_assignment", "scheduled"}
    <3>. DEFINE new == [row EXCEPT !.slot = s]
    <3>1. new \in JobType /\ new.days = row.days /\ new.charged = row.charged
          /\ new.by = row.by
      BY <1>1, <2>1 DEF JobType
    <3>2. JobOnly(j, Stamped(new))
      BY <1>13, <2>2 DEF Reschedule
    <3>. HIDE DEF new
    <3>3. Fits(Stamped(new))
      BY <1>3, <2>2, <3>1, ClockTypes, ClockFields DEF Fits
    <3>. QED
      BY <1>2, <3>2, <3>3
  <2>3. CASE row.status \in {"on_site", "customer_not_available"}
    <3>. DEFINE old == At("scheduled", 0)
                new == [old EXCEPT !.slot = s, !.arrived = FALSE]
    <3>1. Fits(old)
      BY <1>4, <2>3 DEF Statuses
    <3>2. JobOnly(j, Stamped(new))
      BY <1>13, <2>3 DEF Reschedule
    <3>3. old.by = row.by
      BY <1>1, ClockFields
    <3>. HIDE DEF old
    <3>4. new \in JobType /\ new.days = row.days /\ new.charged = row.charged
          /\ new.by = row.by
      BY <2>1, <3>1, <3>3 DEF Fits, JobType
    <3>. HIDE DEF new
    <3>5. Fits(Stamped(new))
      BY <1>3, <2>3, <3>4, ClockTypes, ClockFields DEF Fits
    <3>. QED
      BY <1>2, <3>2, <3>5
  <2>. QED
    BY <1>13, <2>2, <2>3 DEF Reschedule
<1>. QED
  BY <1>5, <1>6, <1>7, <1>8, <1>9, <1>10, <1>11, <1>12, <1>13 DEF Plain

\* The sweep of one row.
LEMMA SweepKeeps ==
  ASSUME IInv, NEW j \in Jobs, SweepJob(j)
  PROVE  IInv'
<1>. DEFINE row == Reconciled(job[j])
<1>1. TypeOK /\ job[j] \in JobType /\ RemedyInv(j)
  BY JobTypes DEF IInv
<1>2. /\ row \in JobType /\ row.days = job[j].days /\ row.charged = job[j].charged
      /\ row.by = job[j].by /\ row.due = row.slot
  BY <1>1, ClockTypes, ClockFields
<1>3. row.by \notin {"provider", "sweep"}
  BY <1>1, <1>2 DEF RemedyInv, SweepJob, Enforced, Breachable
<1>4. UNCHANGED <<now, request>> /\ (Breach(j, row) \/ JobOnly(j, row))
  BY DEF SweepJob, JobOnly
<1>. HIDE DEF row
<1>. QED
  BY <1>2, <1>3, <1>4, BreachKeeps, JobOnlyKeeps

\* The close of a job that is charged nothing, for lack of a breach or because
\* the customer agreed.
LEMMA CloseKeeps ==
  ASSUME IInv, NEW j \in Jobs, NEW who \in {"provider", "customer"},
         who = "provider" => job[j].days = 0,
         job' = [job EXCEPT ![j] = Closed(job[j], who)],
         UNCHANGED <<money, now>>, request' \in [Jobs -> RequestType \cup {NoRequest}]
  PROVE  IInv'
<1>1. TypeOK /\ job[j] \in JobType /\ job[j].charged \in Int
  BY JobTypes DEF IInv
<1>2. Closed(job[j], who) \in JobType /\ Closed(job[j], who).days = job[j].days
      /\ Closed(job[j], who).charged = job[j].charged /\ Closed(job[j], who).by = who
      /\ Closed(job[j], who).status = "closed"
  BY <1>1, ClosedType, ClosedFields
<1>3. TypeOK' /\ job'[j] = Closed(job[j], who) /\ paid' = paid
  BY <1>1, <1>2 DEF TypeOK, money
<1>4. Harmless(j)
  BY <1>1, <1>2, <1>3 DEF Harmless
<1>5. ChargeInv(j)' /\ RemedyInv(j)'
  BY <1>1, <1>3, <1>4, HarmlessKeeps DEF IInv
<1>. QED
  BY <1>3, <1>5, OthersKeep

LEMMA StepIInv == IInv /\ [Next]_vars => IInv'
<1>. SUFFICES ASSUME IInv, [Next]_vars PROVE IInv'
  OBVIOUS
<1>t. TypeOK
  BY DEF IInv
<1>0. ASSUME UNCHANGED <<job, money>>, TypeOK' PROVE IInv'
  BY <1>0 DEF IInv, ChargeInv, RemedyInv, money
<1>1. CASE UNCHANGED vars
  BY <1>0, <1>1, <1>t DEF vars, money, TypeOK
<1>2. CASE Tick
  BY <1>0, <1>2, <1>t, PolicyAssumption DEF Tick, money, TypeOK, Times
<1>3. ASSUME NEW j \in Jobs, Plain(j) PROVE IInv'
  BY <1>3, PlainKeeps
<1>4. ASSUME NEW j \in Jobs, ProviderCancel(j) PROVE IInv'
  <2>1. CASE job[j].breached \/ job[j].days > 0
    BY <1>4, <2>1, SettleKeeps DEF ProviderCancel
  <2>2. CASE ~(job[j].breached \/ job[j].days > 0)
    <3>1. job[j].days = 0
      BY <2>2, <1>t, JobTypes
    <3>. QED
      BY <1>4, <2>2, <3>1, <1>t, CloseKeeps DEF ProviderCancel, TypeOK
  <2>. QED
    BY <2>1, <2>2
<1>5. ASSUME NEW j \in Jobs, WaivePenalty(j) PROVE IInv'
  <2>1. job[j] \in JobType /\ job[j].charged \in Int /\ job[j].charged > 0
    BY <1>5, <1>t, JobTypes DEF WaivePenalty
  <2>. DEFINE new == [job[j] EXCEPT !.waived = TRUE]
  <2>2. new \in JobType /\ new.days = job[j].days /\ new.charged = job[j].charged
        /\ new.by = job[j].by /\ new.status = job[j].status
    BY <2>1 DEF JobType
  <2>3. job' = [job EXCEPT ![j] = new] /\ paid' = paid /\ UNCHANGED <<now, request>>
    BY <1>5 DEF WaivePenalty
  <2>. HIDE DEF new
  <2>4. refund' \in [Jobs -> Nat] /\ balance' \in Int
    BY <1>5, <1>t, <2>1 DEF WaivePenalty, TypeOK
  <2>5. TypeOK' /\ job'[j] = new
    BY <1>t, <2>2, <2>3, <2>4 DEF TypeOK
  <2>6. Harmless(j)
    BY <2>1, <2>2, <2>3, <2>5 DEF Harmless, IInv, RemedyInv
  <2>7. ChargeInv(j)' /\ RemedyInv(j)'
    BY <1>t, <2>5, <2>6, HarmlessKeeps DEF IInv
  <2>. QED
    BY <2>3, <2>5, <2>7, OthersKeep
<1>6. ASSUME NEW j \in Jobs, NEW key \in Refusals, FalseArrival(j, key) PROVE IInv'
  BY <1>6, FalseArrivalKeeps
<1>7. ASSUME NEW j \in Jobs, NEW reason \in Reasons, RequestCancellation(j, reason)
      PROVE  IInv'
  <2>1. now + ConfirmWithin \in 0 .. MaxTime + ConfirmWithin
    BY <1>t, PolicyAssumption DEF TypeOK, Times
  <2>2. [reason |-> reason, expires |-> now + ConfirmWithin] \in RequestType
    BY <2>1 DEF RequestType
  <2>. QED
    BY <1>0, <1>7, <1>t, <2>2 DEF RequestCancellation, TypeOK, money
<1>8. ASSUME NEW j \in Jobs, NEW approve \in BOOLEAN, DecideRequest(j, approve)
      PROVE  IInv'
  <2>1. request' \in [Jobs -> RequestType \cup {NoRequest}] /\ UNCHANGED <<money, now>>
    BY <1>8, <1>t DEF DecideRequest, TypeOK
  <2>2. CASE job' = [job EXCEPT ![j] = Closed(job[j], "customer")]
    BY <2>1, <2>2, CloseKeeps
  <2>3. CASE UNCHANGED job
    BY <1>0, <1>t, <2>1, <2>3 DEF TypeOK, money
  <2>. QED
    BY <1>8, <2>2, <2>3 DEF DecideRequest
<1>9. ASSUME NEW j \in Jobs, SweepJob(j) PROVE IInv'
  BY <1>9, SweepKeeps
<1>10. ASSUME NEW j \in Jobs, TravelTimeout(j) PROVE IInv'
  BY <1>10, SettleKeeps DEF TravelTimeout
<1>11. ASSUME NEW j \in Jobs, EnforceStage(j) PROVE IInv'
  BY <1>11, EnforceStageKeeps
<1>. QED
  BY <1>1, <1>2, <1>3, <1>4, <1>5, <1>6, <1>7, <1>8, <1>9, <1>10, <1>11
  DEF Next, Act, Plain

-----------------------------------------------------------------------------
(***************************************************************************)
(* Theorems                                                                *)
(***************************************************************************)

LEMMA IInvHolds == Spec => []IInv
  BY InitIInv, StepIInv, PTL DEF Spec

\* The sla_* columns keep their types: among others every deadline is a promised
\* slot, with at most one close window added.
THEOREM TypeCorrect == Spec => []TypeOK
<1>1. IInv => TypeOK
  BY DEF IInv
<1>. QED
  BY <1>1, IInvHolds, PTL

\* The charges for one missed arrival stay within the policy's amount, for any
\* amounts and any sequence of breaches, reopenings, waivers and cancellations.
THEOREM PenaltyBounded == Spec => []PenaltyWithinPolicy
<1>1. IInv => PenaltyWithinPolicy
  BY DEF IInv, ChargeInv, PenaltyWithinPolicy
<1>. QED
  BY <1>1, IInvHolds, PTL

\* A provider who cancels after a breach pays as much as one who waits for the
\* sweep (settle_no_arrival_close).
THEOREM NoEscape == Spec => []NoEscapeByCancelling
<1>1. IInv => NoEscapeByCancelling
  BY DEF IInv, RemedyInv, NoEscapeByCancelling
<1>. QED
  BY <1>1, IInvHolds, PTL
=============================================================================

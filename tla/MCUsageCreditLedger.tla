------------------------ MODULE MCUsageCreditLedger ------------------------
(***************************************************************************)
(* Instances of UsageCreditLedger: a retried top-up grant against a manual *)
(* debit, a penalty, an expiry and a remedy (all locked), and the same     *)
(* account with the writers that do not lock.                              *)
(***************************************************************************)
EXTENDS UsageCreditLedger

LockedOp == [grant1  |-> [writer |-> "post",        key |-> "topup", amount |-> 3],
             grant2  |-> [writer |-> "post",        key |-> "topup", amount |-> 3],
             adjust  |-> [writer |-> "post_strict", key |-> "adj",   amount |-> -4],
             penalty |-> [writer |-> "penalty",     key |-> "day1",  amount |-> 5],
             expiry  |-> [writer |-> "expiry",      key |-> NoKey,   amount |-> 2],
             remedy  |-> [writer |-> "remedy",      key |-> "remedy", amount |-> 1]]

MixedOp == [deduct1 |-> [writer |-> "deduction",  key |-> "job",    amount |-> 2],
            deduct2 |-> [writer |-> "deduction",  key |-> "job",    amount |-> 2],
            recover |-> [writer |-> "recovery",   key |-> "fee",    amount |-> 1],
            settle  |-> [writer |-> "settlement", key |-> "settle", amount |-> 1],
            manual  |-> [writer |-> "manual",     key |-> NoKey,    amount |-> -3],
            activate |-> [writer |-> "activation", key |-> NoKey,   amount |-> 2]]
=============================================================================

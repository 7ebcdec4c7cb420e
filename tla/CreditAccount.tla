--------------------------- MODULE CreditAccount ---------------------------
(***************************************************************************)
(* What a credit account promises: it is a list of entries, an entry moves *)
(* the balance by exactly the amount written on it, in one step, and no    *)
(* idempotency key is entered twice.                                       *)
(***************************************************************************)
EXTENDS Integers, Sequences

CONSTANTS Opening,  \* the balance before the first entry
          Keys,     \* idempotency keys
          NoKey     \* an entry that carries no key

VARIABLES balance, entries

Init == /\ balance = Opening
        /\ entries = <<>>

Post(k) ==
  /\ k # NoKey => \A i \in DOMAIN entries : entries[i].key # k
  /\ balance' \in Int
  /\ entries' = Append(entries, [key |-> k, delta |-> balance' - balance])

Next == \E k \in Keys \cup {NoKey} : Post(k)

Spec == Init /\ [][Next]_<<balance, entries>>
=============================================================================

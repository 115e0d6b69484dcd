------------------------------ MODULE MCBilling ------------------------------
(***************************************************************************)
(* Model-checking instance of Billing: key b1 exists at boot with balance  *)
(* 0, key b2 is created at run time with 1.  Balances are bounded by -2..2 *)
(* so saturation is reached; admins add 1, responses debit 1 or 3 tokens  *)
(* (3 is beyond the model's i64::MAX and fails i64::try_from).  With two  *)
(* keys the batch threshold is 2, so both flush triggers occur.  Where    *)
(* two callers race, balances are -1..1 and responses debit 1.            *)
(***************************************************************************)
EXTENDS Billing

CONSTANTS b1, b2, t1, t2

MCBillingKeys == {b1, b2}
MCInitialBalances == [k \in MCBillingKeys |-> IF k = b1 THEN 0 ELSE NONE]
OneThread == {t1}
TwoThreads == {t1, t2}
MCBalMin == -2
\* Narrower balances where two callers race.
RaceBalMin == -1

=============================================================================

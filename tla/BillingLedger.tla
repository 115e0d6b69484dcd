---------------------------- MODULE BillingLedger ----------------------------
(***************************************************************************)
(* What the billing store promises its callers (spec 4.2 and 8.4): a map  *)
(* from billing key to a signed balance in which create_key inserts a key  *)
(* that is absent and every adjustment is applied once, atomically, with   *)
(* saturating addition.  Balances are bounded by BalMin..BalMax, the       *)
(* model's stand-in for i64::MIN..i64::MAX.                                *)
(***************************************************************************)
EXTENDS Integers

CONSTANTS BillingKeys, InitialBalances, Openings, AdjustDeltas, BalMin, BalMax, NONE

VARIABLE ledger

\* i64::saturating_add at the model's width.
SatAdd(b, d) == IF b + d > BalMax THEN BalMax ELSE IF b + d < BalMin THEN BalMin ELSE b + d

LedgerInit == ledger = InitialBalances

\* create(key, balance) succeeds only for an absent key.
LedgerCreate(k, b) ==
    /\ ledger[k] = NONE
    /\ ledger' = [ledger EXCEPT ![k] = b]

\* adjust(key, delta) on a present key.
LedgerAdjust(k, d) ==
    /\ ledger[k] # NONE
    /\ ledger' = [ledger EXCEPT ![k] = SatAdd(@, d)]

LedgerNext ==
    \E k \in BillingKeys :
        \/ \E b \in Openings : LedgerCreate(k, b)
        \/ \E d \in AdjustDeltas : LedgerAdjust(k, d)

LedgerSpec == LedgerInit /\ [][LedgerNext]_ledger

=============================================================================

------------------------------- MODULE Billing -------------------------------
(***************************************************************************)
(* The billing store of gptload-rs (billing.rs): balances held in memory   *)
(* as one AtomicI64 per key behind an RwLock'd map, changed by create_key, *)
(* adjust_balance (a compare_exchange loop) and apply_usage, each of which *)
(* then sends Set{key, balance} over an mpsc channel to a persister thread *)
(* that stages the latest value per key and writes the staging map to the  *)
(* sled billing tree when it holds FlushBatch keys or a second has passed. *)
(* A crash loses memory, the channel and the staging map; BillingStore::new *)
(* reloads the tree.                                                       *)
(*                                                                         *)
(* Callers (admin handlers, response tees) are threads with a pc.  The    *)
(* lock-protected map lookup and the atomic load that follows it are one   *)
(* step: no key is ever removed, so the Arc found stays the key's atomic.  *)
(***************************************************************************)
EXTENDS Integers, Sequences, FiniteSets

CONSTANTS
    BillingKeys,      \* billing keys clients may present
    Threads,          \* concurrent callers of the billing store
    InitialBalances,  \* the billing tree at boot: key -> balance or NONE
    Openings,         \* balances create_key is called with
    AdminDeltas,      \* deltas of POST .../adjust
    Usages,           \* total_tokens passed to apply_usage
    BalMin, BalMax,   \* i64::MIN and i64::MAX at the model's width
    FlushBatch,       \* the persister's batch threshold (1024 in the code)
    ChanBound,        \* bound on messages in flight (the channel is unbounded)
    MaxCrashes,       \* bound on process crashes
    NONE

ASSUME InitialBalances \in [BillingKeys -> (BalMin..BalMax) \cup {NONE}]
ASSUME Openings \cup AdminDeltas \subseteq BalMin..BalMax
ASSUME Usages \subseteq Nat /\ FlushBatch \in Nat \ {0}
ASSUME ChanBound \in Nat /\ MaxCrashes \in Nat

Balance == BalMin..BalMax
Slot == Balance \cup {NONE}
Msg == [key: BillingKeys, balance: Balance]

\* Mutant: plain addition where saturating_add was meant.
SatAddUnchecked(b, d) == b + d

\* i64::saturating_add at the model's width.
SatAdd(b, d) == IF b + d > BalMax THEN BalMax ELSE IF b + d < BalMin THEN BalMin ELSE b + d

VARIABLES
    mem,      \* BillingStore.balances
    chan,     \* the mpsc channel of PersistUpdate::Set, oldest first
    pending,  \* the persister's staging map
    disk,     \* the sled billing tree
    elapsed,  \* last_flush.elapsed() >= 1s
    th,       \* the locals of each calling thread
    crashes   \* crashes so far

vars == <<mem, chan, pending, disk, elapsed, th, crashes>>

Idle == [pc |-> "idle", key |-> NONE, delta |-> 0, cur |-> 0, new |-> 0]

ThreadState == [pc: {"idle", "admitted", "cas", "send"}, key: BillingKeys \cup {NONE},
                delta: Int, cur: Balance, new: Balance]

TypeOK ==
    /\ mem \in [BillingKeys -> Slot]
    /\ chan \in Seq(Msg) /\ Len(chan) <= ChanBound
    /\ pending \in [BillingKeys -> Slot]
    /\ disk \in [BillingKeys -> Slot]
    /\ elapsed \in BOOLEAN
    /\ th \in [Threads -> ThreadState]
    /\ crashes \in 0..MaxCrashes

NoPending == [k \in BillingKeys |-> NONE]

\* BillingStore::new: the map is loaded from the tree, the persister starts.
Init ==
    /\ disk = InitialBalances
    /\ mem = disk
    /\ chan = <<>>
    /\ pending = NoPending
    /\ elapsed = FALSE
    /\ th = [t \in Threads |-> Idle]
    /\ crashes = 0

\* Messages sent or about to be sent.
InFlight == Len(chan) + Cardinality({t \in Threads : th[t].pc # "idle"})

\* A caller may start an operation while the model's channel bound allows.
CanStart(t) == th[t].pc = "idle" /\ InFlight < ChanBound

(***************************************************************************)
(* create_key: under the write lock, an absent key is inserted (a present *)
(* one returns Ok(false) with no change); the lock is dropped, then Set is *)
(* sent.                                                                   *)
(***************************************************************************)
CreateKey(t, k, b) ==
    /\ CanStart(t)
    /\ mem[k] = NONE
    /\ mem' = [mem EXCEPT ![k] = b]
    /\ th' = [th EXCEPT ![t] = [Idle EXCEPT !.pc = "send", !.key = k, !.new = b]]
    /\ UNCHANGED <<chan, pending, disk, elapsed, crashes>>

(***************************************************************************)
(* adjust_balance: the key's atomic is looked up under the read lock (an   *)
(* unknown key returns None with no change) and its value loaded into cur. *)
(***************************************************************************)
LoadBalance(t, k, d) ==
    /\ mem[k] # NONE
    /\ th' = [th EXCEPT ![t] = [Idle EXCEPT !.pc = "cas", !.key = k,
                                    !.delta = d, !.cur = mem[k]]]
    /\ UNCHANGED <<mem, chan, pending, disk, elapsed, crashes>>

\* api_billing_adjust_balance: an admin delta.
BeginAdjust(t, k, d) ==
    /\ CanStart(t)
    /\ LoadBalance(t, k, d)

(***************************************************************************)
(* The proxy's use of the balance (proxy::handle, proxy_upstream_response):*)
(* get_balance on the request's key; an unknown key or a balance below     *)
(* zero is refused with 401 and changes nothing, otherwise the request is  *)
(* admitted and later either debits the usage it found or ends without.   *)
(***************************************************************************)
Admit(t, k) ==
    /\ CanStart(t)
    /\ mem[k] # NONE
    /\ mem[k] >= 0
    /\ th' = [th EXCEPT ![t] = [Idle EXCEPT !.pc = "admitted", !.key = k]]
    /\ UNCHANGED <<mem, chan, pending, disk, elapsed, crashes>>

\* apply_usage on the admitted key: delta = -total_tokens; 0 tokens only
\* reads the balance and a count beyond i64::MAX fails i64::try_from,
\* neither changing anything.
ApplyUsage(t, k, n) ==
    /\ th[t].pc = "admitted"
    /\ th[t].key = k
    /\ n > 0
    /\ n <= BalMax
    /\ LoadBalance(t, k, -n)

\* The response carried no usage (or 0 tokens): no debit.
EndUnbilled(t) ==
    /\ th[t].pc = "admitted"
    /\ th' = [th EXCEPT ![t] = Idle]
    /\ UNCHANGED <<mem, chan, pending, disk, elapsed, crashes>>

\* Mutant: a plain store of the loaded value plus delta, with no compare.
CasBlindStore(t) ==
    LET q == th[t] IN
    /\ q.pc = "cas"
    /\ mem' = [mem EXCEPT ![q.key] = SatAdd(q.cur, q.delta)]
    /\ th' = [th EXCEPT ![t] = [q EXCEPT !.pc = "send", !.new = SatAdd(q.cur, q.delta)]]
    /\ UNCHANGED <<chan, pending, disk, elapsed, crashes>>

\* compare_exchange(cur, cur.saturating_add(delta)) succeeds.
CasOk(t) ==
    LET q == th[t] IN
    /\ q.pc = "cas"
    /\ mem[q.key] = q.cur
    /\ mem' = [mem EXCEPT ![q.key] = SatAdd(q.cur, q.delta)]
    /\ th' = [th EXCEPT ![t] = [q EXCEPT !.pc = "send", !.new = SatAdd(q.cur, q.delta)]]
    /\ UNCHANGED <<chan, pending, disk, elapsed, crashes>>

\* compare_exchange fails: Err(v) => cur = v, and the loop goes round.
CasFail(t) ==
    LET q == th[t] IN
    /\ q.pc = "cas"
    /\ mem[q.key] # q.cur
    /\ th' = [th EXCEPT ![t].cur = mem[q.key]]
    /\ UNCHANGED <<mem, chan, pending, disk, elapsed, crashes>>

\* persist_tx.send(Set{key, balance}); the caller returns.
Send(t) ==
    LET q == th[t] IN
    /\ q.pc = "send"
    /\ chan' = Append(chan, [key |-> q.key, balance |-> q.new])
    /\ th' = [th EXCEPT ![t] = Idle]
    /\ UNCHANGED <<mem, pending, disk, elapsed, crashes>>

(***************************************************************************)
(* The persister loop.  After each recv_timeout (a message or a 500 ms     *)
(* timeout) it flushes when the staging map holds FlushBatch keys or a     *)
(* second has passed; flush_pending writes every staged value into the    *)
(* tree and empties the map, and last_flush is reset even when it was     *)
(* empty.  Insert and flush errors are ignored (see README).              *)
(***************************************************************************)
Staged(p) == {k \in BillingKeys : p[k] # NONE}

\* Mutant: only the batch threshold triggers a flush.
FlushDueBatchOnly(p) == Cardinality(Staged(p)) >= FlushBatch

FlushDue(p) == Cardinality(Staged(p)) >= FlushBatch \/ elapsed

MaybeFlush(p) ==
    IF FlushDue(p)
      THEN /\ disk' = [k \in BillingKeys |-> IF p[k] # NONE THEN p[k] ELSE disk[k]]
           /\ pending' = NoPending
           /\ elapsed' = FALSE
      ELSE /\ pending' = p
           /\ UNCHANGED <<disk, elapsed>>

\* Mutant: a staged value is kept (entry().or_insert) instead of replaced.
PersistRecvKeepFirst ==
    /\ chan # <<>>
    /\ chan' = Tail(chan)
    /\ MaybeFlush(IF pending[Head(chan).key] = NONE
                    THEN [pending EXCEPT ![Head(chan).key] = Head(chan).balance]
                    ELSE pending)
    /\ UNCHANGED <<mem, th, crashes>>

\* Ok(Set{key, balance}) => pending.insert(key, balance).
PersistRecv ==
    /\ chan # <<>>
    /\ chan' = Tail(chan)
    /\ MaybeFlush([pending EXCEPT ![Head(chan).key] = Head(chan).balance])
    /\ UNCHANGED <<mem, th, crashes>>

\* Err(Timeout) with an empty channel.
PersistTimeout ==
    /\ chan = <<>>
    /\ MaybeFlush(pending)
    /\ UNCHANGED <<mem, chan, th, crashes>>

PersistStep == PersistRecv \/ PersistTimeout

\* A second of wall-clock time passes since last_flush.
Tick ==
    /\ ~elapsed
    /\ elapsed' = TRUE
    /\ UNCHANGED <<mem, chan, pending, disk, th, crashes>>

\* The process dies; on restart BillingStore::new reloads the tree.
Crash ==
    /\ crashes < MaxCrashes
    /\ crashes' = crashes + 1
    /\ mem' = disk
    /\ chan' = <<>>
    /\ pending' = NoPending
    /\ elapsed' = FALSE
    /\ th' = [t \in Threads |-> Idle]
    /\ UNCHANGED disk

ThreadStep(t) ==
    \/ CasOk(t) \/ CasFail(t) \/ Send(t) \/ EndUnbilled(t)
    \/ \E n \in Usages : ApplyUsage(t, th[t].key, n)

Next ==
    \/ \E t \in Threads, k \in BillingKeys :
          \/ \E b \in Openings : CreateKey(t, k, b)
          \/ \E d \in AdminDeltas : BeginAdjust(t, k, d)
          \/ Admit(t, k)
    \/ \E t \in Threads : ThreadStep(t)
    \/ PersistStep
    \/ Tick
    \/ Crash

(***************************************************************************)
(* Fairness: the persister is a dedicated OS thread that loops for ever    *)
(* (recv_timeout returns within 500 ms) and wall-clock time passes.  A     *)
(* caller that started an operation keeps running it.  Callers need not    *)
(* start operations and crashes need not happen.                           *)
(***************************************************************************)
Spec ==
    /\ Init /\ [][Next]_vars
    /\ WF_vars(PersistStep) /\ WF_vars(Tick)
    /\ \A t \in Threads : WF_vars(ThreadStep(t))

-----------------------------------------------------------------------------
(***************************************************************************)
(* Properties                                                              *)
(***************************************************************************)

AdjustDeltas == AdminDeltas \cup {-n : n \in {u \in Usages : 0 < u /\ u <= BalMax}}

Ledger == INSTANCE BillingLedger WITH ledger <- mem

(* Spec 4.2 and 8.4: the in-memory balances behave as an atomic ledger.   *)
(* Each create_key inserts an absent key and each adjust_balance or       *)
(* apply_usage applies its delta exactly once with saturation, however    *)
(* callers interleave their loads and compare_exchanges.                  *)
LedgerRefined == Ledger!LedgerSpec

(* Spec 4.2: a balance staged by the persister is written to the billing  *)
(* tree within a flush interval (or lost with the staging map in a crash); *)
(* no staged value waits for ever for the 1024-key batch.                  *)
StagedEventuallyWritten ==
    \A k \in BillingKeys : (pending[k] # NONE) ~> (pending[k] = NONE)

\* No caller is mid-operation and the persister has written all it was sent.
Quiescent ==
    /\ \A t \in Threads : th[t].pc = "idle"
    /\ chan = <<>>
    /\ pending = NoPending

(* Spec 8.4: the persisted value converges to the last value observed in   *)
(* memory.  Once no update is in flight in a caller, in the channel or in  *)
(* the staging map, the billing tree holds every key's in-memory balance.  *)
DurableConverges == Quiescent => disk = mem

=============================================================================

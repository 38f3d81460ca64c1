--------------------------- MODULE ReceiptMatching ---------------------------
(***************************************************************************)
(* A trade is told by two logs of one receipt: the fee log of a hook and   *)
(* the Swap log of the pool manager, or a basket hook's trade log and the  *)
(* router's.  Two matchers put them together again:                        *)
(*   - take_pool_swap and take_router_trade: each hook log, in log order,  *)
(*     takes the earliest later log of its key that no other took;         *)
(*   - matching_swap (V14): the n-th fee of a pool and its n-th swap, if   *)
(*     there are as many of either in the whole receipt.                   *)
(* A key is a pool, or a basket trade's terms (basket, direction, amounts).*)
(***************************************************************************)
EXTENDS Integers, Sequences, FiniteSets, FiniteSetsExt

CONSTANTS
    Keys,
    MaxLogs  \* bound on the logs of a receipt

ASSUME ReceiptAssumption == IsFiniteSet(Keys) /\ MaxLogs \in Nat

VARIABLES
    logs,      \* the receipt; "call" is the trade a log really belongs to
    open,      \* per key, the trade whose second log is yet to come, or 0
    calls,     \* trades so far
    feeAfter,  \* may a fee follow its swap?
    alone,     \* may a log of either kind come without the other?
    output     \* what the maps make of the receipt: pairs <<hook log, other>>

vars == <<logs, open, calls, feeAfter, alone, output>>

Kinds == {"fee", "swap"}

Nothing == [mapped |-> FALSE, swaps |-> {}, baskets |-> {}, v14 |-> {}]

Init ==
    /\ logs = <<>>
    /\ open = [k \in Keys |-> 0]
    /\ calls = 0
    /\ feeAfter \in BOOLEAN
    /\ alone \in SUBSET Kinds
    /\ output = Nothing

(***************************************************************************)
(* The contracts: the trades of one key do not overlap, those of different *)
(* keys may.                                                               *)
(***************************************************************************)
Add(kind, key, call) ==
    /\ ~output.mapped /\ Len(logs) < MaxLogs
    /\ logs' = Append(logs, [kind |-> kind, key |-> key, call |-> call])
    /\ calls' = IF call > calls THEN call ELSE calls
    /\ UNCHANGED <<feeAfter, alone, output>>

First(kind, key) ==
    /\ open[key] = 0
    /\ kind = "swap" => feeAfter
    /\ Add(kind, key, calls + 1)
    /\ open' = [open EXCEPT ![key] = calls + 1]

Second(key) ==
    /\ open[key] # 0
    /\ \E n \in DOMAIN logs :
          /\ logs[n].call = open[key]
          /\ Add(IF logs[n].kind = "fee" THEN "swap" ELSE "fee", key, open[key])
    /\ open' = [open EXCEPT ![key] = 0]

Lone(kind, key) ==
    /\ open[key] = 0
    /\ kind \in alone
    /\ Add(kind, key, calls + 1)
    /\ UNCHANGED open

-----------------------------------------------------------------------------
Of(kind, key) == {n \in DOMAIN logs : logs[n].kind = kind /\ logs[n].key = key}
Fees == UNION {Of("fee", key) : key \in Keys}
Swaps == UNION {Of("swap", key) : key \in Keys}

\* Mutant: "matched" is not looked at.
FreeTwice(taken, n) == {m \in Of("swap", logs[n].key) : m > n}

\* The candidates that are neither matched nor earlier than the n-th log.
Free(taken, n) ==
    {m \in Of("swap", logs[n].key) : m > n /\ \A f \in Fees : taken[f] # m}

\* Mutant: the latest candidate.
TakeLast(taken, n) ==
    IF Free(taken, n) = {} THEN taken
    ELSE [taken EXCEPT ![n] = Max(Free(taken, n))]

\* min_by_key(log_index) and matched = true.
Take(taken, n) ==
    IF Free(taken, n) = {} THEN taken
    ELSE [taken EXCEPT ![n] = Min(Free(taken, n))]

\* The log that each hook log takes, 0 if none: hook logs in log order.
TakenUpTo[n \in 0..Len(logs)] ==
    IF n = 0 THEN [f \in Fees |-> 0]
    ELSE IF n \in Fees THEN Take(TakenUpTo[n - 1], n)
    ELSE TakenUpTo[n - 1]

Taken == TakenUpTo[Len(logs)]

\* The place of a log among those of its kind and key.
Place(n) == Cardinality({m \in Of(logs[n].kind, logs[n].key) : m <= n})

\* Mutant: gives up for extra swaps only, and pairs what it can if fees are extra.
MatchingSwapUnlessExtra(n) ==
    IF Cardinality(Of("fee", logs[n].key)) < Cardinality(Of("swap", logs[n].key)) THEN 0
    ELSE LET same == {m \in Of("swap", logs[n].key) : Place(m) = Place(n)}
         IN  IF same = {} THEN 0 ELSE Min(same)

\* Mutant: the counts are those of the whole receipt.
MatchingSwapAllPools(n) ==
    IF Cardinality(Fees) # Cardinality(Swaps) THEN 0
    ELSE LET same == {m \in Of("swap", logs[n].key) : Place(m) = Place(n)}
         IN  IF same = {} THEN 0 ELSE Min(same)

\* matching_swap, 0 for None.
MatchingSwap(n) ==
    IF Cardinality(Of("fee", logs[n].key)) # Cardinality(Of("swap", logs[n].key)) THEN 0
    ELSE CHOOSE m \in Of("swap", logs[n].key) : Place(m) = Place(n)

\* map_swap_events_for: a hook log without a swap is skipped.
SwapTrades == {<<f, Taken[f]>> : f \in {g \in Fees : Taken[g] # 0}}

\* map_basket_events_for: one without a router log is a trade that is not
\* routed, here with 0.
BasketTrades == {<<f, Taken[f]>> : f \in Fees}

\* V14 static_events: p["swap"] of the fee events that have one.
V14Trades == {<<f, MatchingSwap(f)>> : f \in {g \in Fees : MatchingSwap(g) # 0}}

Complete == \A key \in Keys : open[key] = 0

MapReceipt ==
    /\ Complete /\ ~output.mapped
    /\ output' = [mapped |-> TRUE, swaps |-> SwapTrades, baskets |-> BasketTrades,
                  v14 |-> V14Trades]
    /\ UNCHANGED <<logs, open, calls, feeAfter, alone>>

Next ==
    \/ \E kind \in Kinds, key \in Keys : First(kind, key)
    \/ \E key \in Keys : Second(key)
    \/ \E kind \in Kinds, key \in Keys : Lone(kind, key)
    \/ MapReceipt

Spec == Init /\ [][Next]_vars

-----------------------------------------------------------------------------
\* The other log of a log's trade, 0 if it came alone.
Partner(n) ==
    LET other == {m \in DOMAIN logs \ {n} : logs[m].call = logs[n].call}
    IN  IF other = {} THEN 0 ELSE Min(other)

\* The kinds of a key of which a log came alone.
Lonely(key) == {kind \in Kinds : \E n \in Of(kind, key) : Partner(n) = 0}

(***************************************************************************)
(* The hooks before V14 take their fee before the swap, and the basket     *)
(* hook logs before the router.  Then every hook log gets the log of its   *)
(* own trade, swaps without a fee in between notwithstanding.  V14 shows   *)
(* every trade with its own amounts wherever the fees stand, except that   *)
(* it leaves out all those of a pool of which a swap came alone, or a fee. *)
(* Of a pool with a lone log of both kinds nothing is said: its counts may *)
(* be equal for all that.                                                  *)
(***************************************************************************)
MatchesTruly ==
    output.mapped =>
        LET clear == {f \in Fees : Lonely(logs[f].key) = {}}
            told == {f \in Fees : Lonely(logs[f].key) # Kinds}
        IN  /\ "fee" \notin alone /\ ~feeAfter =>
                  /\ output.swaps = {<<f, Partner(f)>> : f \in Fees}
                  /\ output.baskets = output.swaps
            /\ {t \in output.v14 : t[1] \in told} = {<<f, Partner(f)>> : f \in clear}

(***************************************************************************)
(* When trades that bypass the router share their terms with routed ones,  *)
(* the wrong one may be called routed, but each router log is still spent  *)
(* on exactly one trade with its terms, logged before it: the number of    *)
(* routed trades is right.                                                 *)
(***************************************************************************)
RouterLogsSpentOnce ==
    output.mapped /\ ~feeAfter =>
        \A s \in Swaps :
            LET spent == {f \in Fees : <<f, s>> \in output.baskets}
            IN  /\ Cardinality(spent) <= 1
                /\ Partner(s) # 0 => spent # {}
                /\ \A f \in spent : f < s /\ logs[f].key = logs[s].key
=============================================================================

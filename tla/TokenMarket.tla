----------------------------- MODULE TokenMarket -----------------------------
(***************************************************************************)
(* Tokens from their creation by a Pump, over trades on the bonding curve, *)
(* to their listing and the swaps after it.  Tokens of the older Pumps are *)
(* written by legacy_db_out, kind after kind (creations, trades, swaps,    *)
(* listings), and numbered by its counters; those of Pump V11 by its own   *)
(* writer in the same order, numbered by block and log; tokens of Pump V14 *)
(* by v14_core_db_out, event after event, with listing states and with     *)
(* supply that is injected without a Trade.                                *)
(* Both accept a token's logs once its NewToken is known: from the address *)
(* store, or from a NewToken before the log in the same block.             *)
(***************************************************************************)
EXTENDS Integers, Sequences, FiniteSets, FiniteSetsExt, Functions

CONSTANTS
    LegacyTokens, V11Tokens, V14Tokens, \* addresses that may become tokens of each
    MaxSupply,                \* bound on the supply on a curve
    FirstBlock,               \* initialBlock of the writers' modules
    MaxLogs,                  \* bound on the logs of a block
    MaxHistory                \* bound on the logs of the chain

\* Log indexes that additive_entity_index has for a block.
IndexRoom == 1000000

AdditiveTokens == V11Tokens \cup V14Tokens
Tokens == LegacyTokens \cup AdditiveTokens

\* The additive indexes of different blocks do not meet, nor the counters of
\* the older Pumps the first of them.
ASSUME MarketAssumption ==
    /\ LegacyTokens \cap AdditiveTokens = {} /\ V11Tokens \cap V14Tokens = {}
    /\ IsFiniteSet(Tokens)
    /\ MaxSupply \in Nat /\ FirstBlock \in Nat /\ MaxLogs \in Nat /\ MaxHistory \in Nat
    /\ MaxLogs < IndexRoom /\ MaxHistory <= FirstBlock * IndexRoom

VARIABLES
    state,      \* the contracts: each token's listing state, "NONE" at first,
    supply,     \*   its supply on the curve,
    peak,       \*   the highest supply after a trade,
    quote,      \*   and the price of its last trade or swap
    logs,       \* the open block
    committed,  \* number of logs in the committed blocks
    addresses,  \* store_token_addresses, store_v14_addresses
    curve,      \* store_bonding_curve_supply, store_v14_supply
    counters,   \* store_entity_indexes
    block,      \* number of the open block
    db          \* tokens, token_trade_events, token_listings, pump_summary

contracts == <<state, supply, peak, quote>>
stores == <<addresses, curve, counters>>
vars == <<contracts, logs, committed, stores, block, db>>

\* A price stands for what it is computed from: <<"curve", supply>>, or the
\* pool's price at the n-th log of the chain, <<"swap", n>>.

Init ==
    /\ state = [t \in Tokens |-> "NONE"]
    /\ supply = [t \in Tokens |-> 0] /\ peak = [t \in Tokens |-> 0] 
    /\ quote = [t \in Tokens |-> <<"none", 0>>]
    /\ logs = <<>> /\ committed = 0 /\ block = FirstBlock
    /\ addresses = {}
    /\ curve = [t \in Tokens |-> 0]
    /\ counters = [k \in {"token", "token_trade", "listed_token"} |-> 0]
    /\ db = [status |-> [t \in Tokens |-> "NONE"],
             supply |-> [t \in Tokens |-> 0], max_supply |-> [t \in Tokens |-> 0],
             price |-> [t \in Tokens |-> <<"none", 0>>],
             buy_times |-> [t \in Tokens |-> 0], sell_times |-> [t \in Tokens |-> 0],
             trades |-> {},
             indexes |-> [t \in Tokens |-> [token |-> 0, listed_token |-> 0]],
             token_counts |-> 0, listed_counts |-> 0]

-----------------------------------------------------------------------------
(***************************************************************************)
(* The contracts.  A token trades on its curve until it is listed (V14:    *)
(* queued for it), and its pool's swaps come after that.  The injection of *)
(* a V14 token precedes the Trade it is part of.                           *)
(***************************************************************************)
LogOf(kind, t, is_buy, amount) == [kind |-> kind, token |-> t, is_buy |-> is_buy, amount |-> amount]

Emit(new) ==
    /\ Len(logs) + Len(new) <= MaxLogs
    /\ committed + Len(logs) + Len(new) <= MaxHistory
    /\ logs' = logs \o new
    /\ UNCHANGED <<committed, stores, block, db>>

NewToken(t) ==
    /\ state[t] = "NONE"
    /\ state' = [state EXCEPT ![t] = "BONDING_CURVE"]
    /\ Emit(<<LogOf("NewToken", t, FALSE, 0)>>)
    /\ UNCHANGED <<supply, peak, quote>>

\* A trade of "amount", with an injection before it if that is not 0.
Trade(t, is_buy, amount, injected) ==
    LET after == supply[t] + injected + (IF is_buy THEN amount ELSE -amount)
    IN  /\ state[t] = "BONDING_CURVE"
        /\ supply[t] + injected <= MaxSupply /\ after \in 0..MaxSupply
        /\ injected > 0 => t \in V14Tokens
        /\ supply' = [supply EXCEPT ![t] = after]
        /\ peak' = [peak EXCEPT ![t] = IF @ < after THEN after ELSE @]
        /\ Emit((IF injected > 0 THEN <<LogOf("AntiSnipeInjected", t, TRUE, injected)>> ELSE <<>>)
                  \o <<LogOf("Trade", t, is_buy, amount)>>)
        /\ quote' = [quote EXCEPT ![t] = <<"curve", after>>]
        /\ UNCHANGED state

\* A contract that no Pump has announced emits a log that looks like a trade.
StrangerTrade(t, is_buy) ==
    /\ state[t] = "NONE"
    /\ Emit(<<LogOf("Trade", t, is_buy, 1)>>)
    /\ UNCHANGED contracts

QueueListing(t) ==
    /\ t \in V14Tokens /\ state[t] = "BONDING_CURVE"
    /\ state' = [state EXCEPT ![t] = "LISTING_PENDING"]
    /\ Emit(<<LogOf("TokenListingQueued", t, FALSE, 0)>>)
    /\ UNCHANGED <<supply, peak, quote>>

RecoverListing(t) ==
    /\ state[t] = "LISTING_PENDING"
    /\ state' = [state EXCEPT ![t] = "BONDING_CURVE"]
    /\ Emit(<<LogOf("FailedListingRecovered", t, FALSE, 0)>>)
    /\ UNCHANGED <<supply, peak, quote>>

ListToDex(t) ==
    /\ state[t] \in {"LISTING_PENDING"} \cup (IF t \in V14Tokens THEN {} ELSE {"BONDING_CURVE"})
    /\ state' = [state EXCEPT ![t] = "LISTED"]
    /\ Emit(<<LogOf("TokenListedToDex", t, FALSE, 0)>>)
    /\ UNCHANGED <<supply, peak, quote>>

Swap(t, is_buy) ==
    /\ state[t] = "LISTED"
    /\ Emit(<<LogOf("Swap", t, is_buy, 0)>>)
    /\ quote' = [quote EXCEPT ![t] = <<"swap", committed + Len(logs')>>]
    /\ UNCHANGED <<state, supply, peak>>

-----------------------------------------------------------------------------
\* map_token_events_for: known before the block, or from a NewToken before
\* the log.  V14's dynamic_events does the same.
Accepted(n) ==
    \/ logs[n].kind \in {"NewToken", "Swap"}  \* logs of the Pump and of the hook
    \/ logs[n].token \in addresses
    \/ \E m \in 1..(n - 1) : logs[m].kind = "NewToken" /\ logs[m].token = logs[n].token

Of(kinds, t) == {n \in DOMAIN logs : logs[n].kind \in kinds /\ logs[n].token = t /\ Accepted(n)}
OfLegacy(kinds) == UNION {Of(kinds, t) : t \in LegacyTokens}

\* What a log adds to the supply store.
SupplyDelta(n) ==
    CASE logs[n].kind = "Trade" -> IF logs[n].is_buy THEN logs[n].amount ELSE -logs[n].amount
      [] logs[n].kind = "AntiSnipeInjected" -> logs[n].amount
      [] OTHER -> 0

\* bonding_curve_supply.get_at(ordinal, token).
SupplyAt(n, t) ==
    curve[t] + SumFunctionOnSet([m \in DOMAIN logs |-> SupplyDelta(m)],
                                {m \in Of({"Trade", "AntiSnipeInjected"}, t) : m <= n})

\* additive_entity_index, of the block and the log's index.
AdditiveIndex(n) == block * IndexRoom + n

\* Mutant: swaps do not count as trades.
TradeIndexPerKind(n) ==
    IF logs[n].token \in AdditiveTokens THEN AdditiveIndex(n)
    ELSE counters["token_trade"] + Cardinality({m \in OfLegacy({logs[n].kind}) : m <= n})

\* entity_indexes.get_at(ordinal, "token_trade"), or the additive index.
TradeIndex(n) ==
    IF logs[n].token \in AdditiveTokens THEN AdditiveIndex(n)
    ELSE counters["token_trade"] + Cardinality({m \in OfLegacy({"Trade", "Swap"}) : m <= n})

\* Mutant: an injection publishes the supply too.
PublishingWithInjection(t) == Of({"Trade", "AntiSnipeInjected"}, t)

\* The logs that write supply and maximum.
Publishing(t) == Of({"Trade"}, t)

LastSupply(t) == IF Publishing(t) = {} THEN db.supply[t] ELSE SupplyAt(Max(Publishing(t)), t)

MaxSupplyOf(t) == Max({db.max_supply[t]} \cup {SupplyAt(n, t) : n \in Publishing(t)})

PriceAt(n, t) ==
    IF logs[n].kind = "Trade" THEN <<"curve", SupplyAt(n, t)>> ELSE <<"swap", committed + n>>

\* Mutant: the trades are written after the swaps.
LastPriceTradesLast(t) ==
    IF Of({"Trade"}, t) # {} THEN PriceAt(Max(Of({"Trade"}, t)), t)
    ELSE IF Of({"Swap"}, t) # {} THEN PriceAt(Max(Of({"Swap"}, t)), t)
    ELSE db.price[t]

\* The V11 writer and legacy_db_out write the trades of the block and then
\* the swaps.
LastPriceByKind(t) ==
    IF Of({"Swap"}, t) # {} THEN PriceAt(Max(Of({"Swap"}, t)), t)
    ELSE PriceAt(Max(Of({"Trade"}, t)), t)

\* The price that a tokens row is left with: V14 writes trades and swaps each
\* in its place.
LastPrice(t) ==
    LET priced == Of({"Trade", "Swap"}, t)
    IN  IF priced = {} THEN db.price[t]
        ELSE IF t \in V14Tokens THEN PriceAt(Max(priced), t)
        ELSE LastPriceByKind(t)

\* Mutant: a recovered listing is left pending.
StatusOfUnrecovered(kind, old) ==
    CASE kind = "NewToken" -> "BONDING_CURVE"
      [] kind = "TokenListingQueued" -> "LISTING_PENDING"
      [] kind = "TokenListedToDex" -> "LISTED"
      [] OTHER -> old

\* The listing state a log leaves.
StatusOf(kind, old) ==
    CASE kind \in {"NewToken", "FailedListingRecovered"} -> "BONDING_CURVE"
      [] kind = "TokenListingQueued" -> "LISTING_PENDING"
      [] kind = "TokenListedToDex" -> "LISTED"
      [] OTHER -> old

ListingKinds == {"NewToken", "TokenListingQueued", "FailedListingRecovered", "TokenListedToDex"}

LastStatus(t) ==
    IF Of(ListingKinds, t) = {} THEN db.status[t]
    ELSE StatusOf(logs[Max(Of(ListingKinds, t))].kind, db.status[t])

\* The index of the row that a NewToken or a listing creates.
RowIndex(kind, name, t) ==
    LET n == Max(Of({kind}, t))
    IN  IF Of({kind}, t) = {} THEN db.indexes[t][name]
        ELSE IF t \in AdditiveTokens THEN AdditiveIndex(n)
        ELSE counters[name] + Cardinality({m \in OfLegacy({kind}) : m <= n})

Times(t, is_buy) == Cardinality({n \in Of({"Trade", "Swap"}, t) : logs[n].is_buy = is_buy})
All(kind) == UNION {Of({kind}, t) : t \in Tokens}

\* The logs that create a tokens row, and those that list one.
Creations == All("NewToken")
Listings == All("TokenListedToDex")

EndBlock ==
    /\ logs # <<>>
    /\ db' = [status |-> [t \in Tokens |-> LastStatus(t)],
              supply |-> [t \in Tokens |-> LastSupply(t)],
              max_supply |-> [t \in Tokens |-> MaxSupplyOf(t)],
              price |-> [t \in Tokens |-> LastPrice(t)],
              buy_times |-> [t \in Tokens |-> db.buy_times[t] + Times(t, TRUE)],
              sell_times |-> [t \in Tokens |-> db.sell_times[t] + Times(t, FALSE)],
              trades |-> db.trades \cup
                  {[entity_index |-> TradeIndex(n), log |-> committed + n, token |-> logs[n].token] :
                      n \in All("Trade") \cup All("Swap")},
              indexes |-> [t \in Tokens |->
                  [token |-> RowIndex("NewToken", "token", t),
                   listed_token |-> RowIndex("TokenListedToDex", "listed_token", t)]],
              token_counts |-> db.token_counts + Cardinality(Creations),
              listed_counts |-> db.listed_counts + Cardinality(Listings)]
    /\ addresses' = addresses \cup {logs[n].token : n \in Creations}
    /\ curve' = [t \in Tokens |-> SupplyAt(Len(logs), t)]
    /\ counters' = [k \in DOMAIN counters |-> counters[k] + Cardinality(
          CASE k = "token" -> OfLegacy({"NewToken"})
            [] k = "token_trade" -> OfLegacy({"Trade", "Swap"})
            [] k = "listed_token" -> OfLegacy({"TokenListedToDex"}))]
    /\ committed' = committed + Len(logs)
    /\ logs' = <<>>
    /\ block' = block + 1
    /\ UNCHANGED contracts

Next ==
    \/ \E t \in Tokens : NewToken(t)
    \/ \E t \in Tokens, is_buy \in BOOLEAN, amount \in 1..MaxSupply, injected \in 0..1 :
          Trade(t, is_buy, amount, injected)
    \/ \E t \in Tokens, is_buy \in BOOLEAN : StrangerTrade(t, is_buy)
    \/ \E t \in Tokens : QueueListing(t)
    \/ \E t \in Tokens : RecoverListing(t)
    \/ \E t \in Tokens : ListToDex(t)
    \/ \E t \in Tokens, is_buy \in BOOLEAN : Swap(t, is_buy)
    \/ EndBlock

Spec == Init /\ [][Next]_vars

-----------------------------------------------------------------------------
(***************************************************************************)
(* Between blocks a tokens row has the supply of the curve, the highest     *)
(* supply that a trade ended with (injections are in the first and not     *)
(* mistaken for the second), and the price of the chain's last trade or    *)
(* swap, although legacy_db_out does not write in the order of the logs.   *)
(***************************************************************************)
RowsFollowCurve ==
    logs = <<>> =>
        /\ db.supply = supply
        /\ db.max_supply = peak
        /\ db.price = quote

(***************************************************************************)
(* Listing states and summary counts follow the contracts, through queued, *)
(* failed and repeated listings.                                           *)
(***************************************************************************)
ListingFollows ==
    logs = <<>> =>
        /\ db.status = state
        /\ db.token_counts = Cardinality({t \in Tokens : state[t] # "NONE"})
        /\ db.listed_counts = Cardinality({t \in Tokens : state[t] = "LISTED"})

(***************************************************************************)
(* Trade rows have distinct indexes, those of the legacy writer 1, 2, 3... *)
(* in chain order over trades and swaps together, and buys and sells of a  *)
(* token add up to its rows.                                               *)
(***************************************************************************)
TradesNumberedOnce ==
    LET legacy == {r \in db.trades : r.token \in LegacyTokens}
    IN  /\ \A r, s \in db.trades : r.entity_index = s.entity_index => r = s
        /\ \A r \in legacy : r.entity_index = Cardinality({s \in legacy : s.log <= r.log})
        /\ \A t \in Tokens :
              db.buy_times[t] + db.sell_times[t] = Cardinality({r \in db.trades : r.token = t})
=============================================================================

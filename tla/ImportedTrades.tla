--------------------------- MODULE ImportedTrades ---------------------------
(***************************************************************************)
(* Trades of imported tokens through the first swap wrapper.  The wrapper  *)
(* logs no trade: map_imported_trade_events reads the calls to it in a     *)
(* receipt's trace and puts a trade together from a call, the pool's Swap  *)
(* logs, the wrapper's fee logs and its payments, all of which it looks    *)
(* for in the whole receipt.  Who is credited with a trade comes from two  *)
(* stores: the IPShare subjects and the deployers of imported tokens, the  *)
(* latter fed by the V11 protocol events that also write                   *)
(* v11_imported_markets.                                                   *)
(*                                                                         *)
(* A venue is "V2", "V3", or one V4 pool manager.                          *)
(***************************************************************************)
EXTENDS Integers, Sequences, FiniteSets, FiniteSetsExt, Functions

CONSTANTS
    Tokens,
    Users,       \* IPShare subjects, deployers and recipients
    NoOne,       \* the zero address
    FeeAddress,  \* WRAPPER_FEE_ADDRESS
    Venues,
    MaxItems,    \* bound on the logs and calls of the chain
    MaxCalls     \* bound on its calls

VARIABLES
    items,      \* the open block's logs and calls, by ordinal
    history,    \* those of the committed blocks
    subjects,   \* store_ipshare_subjects
    deployers,  \* store_imported_market_deployers
    counter,    \* store_imported_trade_indexes
    markets,    \* v11_imported_markets
    trades      \* imported_token_trade_events

vars == <<items, history, subjects, deployers, counter, markets, trades>>

Deploying == {"IMPORTED_MARKET_REGISTERED", "IMPORTED_COMMUNITY_RECORDED"}
MarketKinds == Deploying \cup {"COMMUNITY_CREATED"}

NoMarket == [deployer |-> NoOne, source |-> "NONE", social_pool |-> 0]

Init ==
    /\ items = <<>> /\ history = <<>>
    /\ subjects = {}
    /\ deployers = [t \in Tokens |-> NoOne]
    /\ counter = 0
    /\ markets = [t \in Tokens |-> NoMarket]
    /\ trades = {}

-----------------------------------------------------------------------------
(***************************************************************************)
(* The chain.  An item opens a receipt or joins the one before it.  The    *)
(* place of an item in the chain numbers its amounts, so that those of     *)
(* different calls are told apart.                                         *)
(***************************************************************************)
Chain == history \o items
Place == Len(Chain) + 1

Receipts == {Place} \cup (IF items = <<>> THEN {} ELSE {items[Len(items)].tx})

Emit(item) ==
    /\ Len(Chain) < MaxItems
    /\ item.kind = "CALL" => Cardinality({n \in DOMAIN Chain : Chain[n].kind = "CALL"}) < MaxCalls
    /\ items' = Append(items, item)
    /\ UNCHANGED <<history, subjects, deployers, counter, markets, trades>>

CreateIPShare(tx, who) ==
    /\ \A n \in DOMAIN Chain : ~(Chain[n].kind = "IPSHARE" /\ Chain[n].account = who)
    /\ Emit([kind |-> "IPSHARE", tx |-> tx, block |-> Len(history), account |-> who])

AnnounceMarket(tx, kind, token, who) ==
    Emit([kind |-> kind, tx |-> tx, block |-> Len(history), token |-> token, account |-> who])

(***************************************************************************)
(* A call to the wrapper.  One that failed inside a receipt that did not   *)
(* has left no logs; one of another function, or of a pool without a       *)
(* native side, has logs but is not decoded.  A V2 path may have two hops, *)
(* of which the token's is the last of a buy and the first of a sell.  A   *)
(* buy brings its native amount along, a sell pays it to the recipient.    *)
(***************************************************************************)
\* The pool's amounts of the two hops.
Own == 10 * Place
Hop == 10 * Place + 5

SwapsOf(venue, is_buy, hops) ==
    IF venue # "V2" \/ hops = 1 THEN <<Own>>
    ELSE IF is_buy THEN <<Hop, Own>> ELSE <<Own, Hop>>

Call(tx, result, venue, is_buy, hops, token, recipient, sellsman) ==
    /\ venue = "V2" \/ hops = 1
    /\ Emit([kind |-> "CALL", tx |-> tx, block |-> Len(history), result |-> result, venue |-> venue,
             is_buy |-> is_buy, token |-> token, recipient |-> recipient,
             sellsman |-> sellsman, own |-> Own,
             swaps |-> IF result = "failed" THEN <<>> ELSE SwapsOf(venue, is_buy, hops),
             fee |-> IF result = "failed" THEN 0 ELSE Place,
             native |-> IF result = "failed" THEN 0 ELSE 100 * Place])

-----------------------------------------------------------------------------
(***************************************************************************)
(* map_imported_trade_events, for the n-th item.                           *)
(***************************************************************************)
Calls(tx) == {m \in DOMAIN items : items[m].kind = "CALL" /\ items[m].tx = tx}

\* The calls with the receipt's Swap logs of a venue, in log order.
Swapping(tx, venue) == {m \in Calls(tx) : items[m].venue = venue /\ items[m].swaps # <<>>}

FirstSwap(calls) == Head(items[Min(calls)].swaps)
LastSwap(calls) == LET m == Max(calls) IN items[m].swaps[Len(items[m].swaps)]

\* Mutant: the first swap of a buy too.
SwapAmountFirst(n) == FirstSwap(Swapping(items[n].tx, items[n].venue))

\* imported_swap_token_amount.
SwapAmount(n) ==
    LET calls == Swapping(items[n].tx, items[n].venue)
    IN  IF items[n].venue = "V2" /\ items[n].is_buy THEN LastSwap(calls) ELSE FirstSwap(calls)

SumOf(amount, calls) == SumFunctionOnSet([m \in calls |-> items[m][amount]], calls)

\* Mutant: the fees of every token.
TokenFeeOfAll(n) == SumOf("fee", Calls(items[n].tx))

TokenFee(n) == SumOf("fee", {m \in Calls(items[n].tx) : items[m].token = items[n].token})

\* The value of the call, or what the wrapper pays to the recipient.
NativeAmount(n) ==
    IF items[n].is_buy THEN items[n].native
    ELSE SumOf("native", {m \in Calls(items[n].tx) :
                             ~items[m].is_buy /\ items[m].recipient = items[n].recipient})

\* deployers.get_at(end_ordinal).
DeployerAt(n, token) ==
    LET known == {m \in 1..n : items[m].kind \in Deploying /\ items[m].token = token}
    IN  IF known = {} THEN deployers[token] ELSE items[Max(known)].account

\* Mutant: the subjects of this block are known as well.
SellsmanOfBlock(n) ==
    LET created == {items[m].account : m \in {o \in 1..n : items[o].kind = "IPSHARE"}}
    IN  IF items[n].sellsman \in subjects \cup created THEN items[n].sellsman
        ELSE IF DeployerAt(n, items[n].token) # NoOne THEN DeployerAt(n, items[n].token)
        ELSE FeeAddress

\* Mutant: deployers.get_first.
SellsmanDeployerFirst(n) ==
    IF items[n].sellsman \in subjects THEN items[n].sellsman
    ELSE IF deployers[items[n].token] # NoOne THEN deployers[items[n].token]
    ELSE FeeAddress

\* has_first(sellsman), else the deployer, else the fee address.
Sellsman(n) ==
    IF items[n].sellsman \in subjects THEN items[n].sellsman
    ELSE IF DeployerAt(n, items[n].token) # NoOne THEN DeployerAt(n, items[n].token)
    ELSE FeeAddress

\* Mutant: failed calls are trades as well.
TradesWithFailed ==
    {n \in DOMAIN items : items[n].kind = "CALL" /\ items[n].result # "other"
                          /\ Swapping(items[n].tx, items[n].venue) # {}}

\* The calls that become trades: not failed, decoded.
Trades == {n \in DOMAIN items : items[n].kind = "CALL" /\ items[n].result = "trade"}

\* Mutant: the counter's value at the end of the block.
IndexAtEnd(n) == counter + Cardinality(Trades)

\* indexes.get_at(end_ordinal, "imported_trade").
Index(n) == counter + Cardinality({m \in Trades : m <= n})

TradeRow(n) ==
    [entity_index |-> Index(n),
     call         |-> Len(history) + n,
     token_amount |-> SwapAmount(n) + (IF items[n].is_buy THEN -TokenFee(n) ELSE TokenFee(n)),
     native       |-> NativeAmount(n),
     fee          |-> TokenFee(n),
     sellsman     |-> Sellsman(n)]

-----------------------------------------------------------------------------
\* Mutant: a community's creation clears the columns of a registration.
MarketReset(row, item) ==
    [deployer    |-> item.account,
     source      |-> item.kind,
     social_pool |-> IF item.kind = "COMMUNITY_CREATED" THEN item.tx ELSE 0]

\* write_v11_protocol_changes: what an event sets of its market's row.  A
\* pool is told by the receipt that creates it.
Market(row, item) ==
    [deployer    |-> item.account,
     source      |-> item.kind,
     social_pool |-> IF item.kind = "COMMUNITY_CREATED" THEN item.tx ELSE row.social_pool]

Announces(item, token) == item.kind \in MarketKinds /\ item.token = token

MarketAfter(token) ==
    LET after[n \in 0..Len(items)] ==
          IF n = 0 THEN markets[token]
          ELSE IF Announces(items[n], token) THEN Market(after[n - 1], items[n])
          ELSE after[n - 1]
    IN  after[Len(items)]

EndBlock ==
    /\ subjects' = subjects \cup {items[n].account : n \in {m \in DOMAIN items : items[m].kind = "IPSHARE"}}
    /\ deployers' = [t \in Tokens |-> DeployerAt(Len(items), t)]
    /\ counter' = counter + Cardinality(Trades)
    /\ markets' = [t \in Tokens |-> MarketAfter(t)]
    /\ trades' = trades \cup {TradeRow(n) : n \in Trades}
    /\ history' = Chain
    /\ items' = <<>>

ChainStep ==
    \E tx \in Receipts :
        \/ \E who \in Users : CreateIPShare(tx, who)
        \/ \E kind \in MarketKinds, t \in Tokens, who \in Users : AnnounceMarket(tx, kind, t, who)
        \/ \E venue \in Venues, hops \in 1..2, t \in Tokens, sellsman \in Users :
              \/ Call(tx, "trade", venue, TRUE, hops, t, NoOne, sellsman)
              \/ \E who \in Users : Call(tx, "trade", venue, FALSE, hops, t, who, sellsman)
        \/ \E venue \in Venues, t \in Tokens :
              \/ Call(tx, "other", venue, TRUE, 1, t, NoOne, NoOne)
              \/ \E who \in Users : Call(tx, "other", venue, FALSE, 1, t, who, NoOne)
        \/ \E t \in Tokens, who \in Users : Call(tx, "failed", "V2", FALSE, 1, t, who, NoOne)

Next ==
    \/ ChainStep
    \/ items # <<>> /\ EndBlock

Spec == Init /\ [][Next]_vars

-----------------------------------------------------------------------------
\* The calls of the chain that left logs in the same receipt as the c-th item.
Beside(c) ==
    {m \in DOMAIN history \ {c} : /\ history[m].kind = "CALL" /\ history[m].tx = history[c].tx
                                  /\ history[m].result # "failed"}

(***************************************************************************)
(* There is one row for each decoded call that succeeded, numbered in      *)
(* chain order.  Its amounts are those of its call wherever the receipt    *)
(* leaves no doubt: its fee if no other call has its token; its swap if    *)
(* none of its venue comes after it (a V2 buy) or before it (all others);  *)
(* its native amount if it is a buy, or if no other sell pays its          *)
(* recipient.                                                              *)
(***************************************************************************)
TradesExact ==
    /\ \A c \in DOMAIN history :
          LET rows == {r \in trades : r.call = c}
          IN  Cardinality(rows) =
                 IF history[c].kind = "CALL" /\ history[c].result = "trade" THEN 1 ELSE 0
    /\ \A r \in trades :
          LET call == history[r.call]
              sole_fee == \A m \in Beside(r.call) : history[m].token # call.token
              sole_swap == \A m \in Beside(r.call) :
                  history[m].venue = call.venue =>
                      IF call.venue = "V2" /\ call.is_buy THEN m < r.call ELSE m > r.call
              sole_payment == call.is_buy \/ \A m \in Beside(r.call) :
                  history[m].is_buy \/ history[m].recipient # call.recipient
          IN  /\ r.entity_index = Cardinality({s \in trades : s.call <= r.call})
              /\ sole_fee => r.fee = call.fee
              /\ sole_fee /\ sole_swap =>
                    r.token_amount = call.own + (IF call.is_buy THEN -call.fee ELSE call.fee)
              /\ sole_payment => r.native = call.native

(***************************************************************************)
(* A trade's sellsman is the one its call names if that is an IPShare      *)
(* subject of an earlier block, and otherwise the deployer registered last *)
(* before the call, in its own block too; with neither, the fee address.   *)
(***************************************************************************)
SellsmanAttributed ==
    \A r \in trades :
        LET call == history[r.call]
            named == {m \in 1..(r.call - 1) : history[m].kind = "IPSHARE" /\ history[m].account = call.sellsman}
            registered == {m \in 1..(r.call - 1) : history[m].kind \in Deploying /\ history[m].token = call.token}
        IN  r.sellsman =
               IF \E m \in named : history[m].block < call.block THEN call.sellsman
               ELSE IF registered = {} THEN FeeAddress ELSE history[Max(registered)].account

(***************************************************************************)
(* The market's row shows the account of the last announcement of its      *)
(* token, and its social pool the last creation's; the store of deployers, *)
(* which trades fall back on, agrees with the row unless the last of them  *)
(* was the creation of a community, which it does not follow.              *)
(***************************************************************************)
MarketsFollow ==
    \A t \in Tokens :
        LET announced == {m \in DOMAIN history : history[m].kind \in MarketKinds /\ history[m].token = t}
            created == {m \in announced : history[m].kind = "COMMUNITY_CREATED"}
        IN  /\ markets[t].deployer = IF announced = {} THEN NoOne ELSE history[Max(announced)].account
            /\ markets[t].social_pool = IF created = {} THEN 0 ELSE history[Max(created)].tx
            /\ markets[t].source # "COMMUNITY_CREATED" => deployers[t] = markets[t].deployer
=============================================================================

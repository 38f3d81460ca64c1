---------------------------- MODULE BasketDomain ----------------------------
(***************************************************************************)
(* The Basket domain: the registry's discoveries, the trades and parked    *)
(* legs of the hooks, the rebalances of their executors, the fee events    *)
(* and redemptions of the basket tokens, and the fee auctions.             *)
(*                                                                         *)
(* Three generations of hooks trade the baskets of one shared registry,    *)
(* and the package in production merges one stream per release: each is    *)
(* the same map and the same writer with a selection of contracts.  Counts *)
(* and volumes are added to a basket's row by every stream that sees a     *)
(* trade, so the streams of one package must divide the contracts.         *)
(***************************************************************************)
EXTENDS Naturals, Sequences, FiniteSets, Functions

CONSTANTS
    Baskets,        \* basket tokens
    Stranger,       \* a contract that is no basket
    Generation,     \* Generation[b]: the generation of the hook that trades b
    Assemblies,     \* sets of streams that packages merge
    Bidders,        \* accounts that bid
    NoBidder,       \* no account
    MaxBid,         \* bound on bids
    MaxLogs,        \* bound on the logs of one block
    MaxHistory      \* bound on the logs of a behaviour

VARIABLES
    streams,    \* the streams of the package in use
    launched,   \* baskets whose launch has begun
    registered, \* baskets in the registry
    traded,     \* per basket, the buys and sells the hooks have made
    emitted,    \* per contract and origin, the basket events it stands for
    auction,    \* the auction house's one auction
    logs,       \* the logs of the current block
    length,     \* logs of the finished blocks
    stores,     \* per stream, store_basket_addresses at the block's start
    rows        \* the tables: baskets, fee events, auctions, results

vars == <<streams, launched, registered, traded, emitted, auction, logs,
          length, stores, rows>>

chain == <<launched, registered, traded, emitted, auction>>

Contracts == Baskets \cup {Stranger}

(***************************************************************************)
(* Events that make one row each, by the contract they come from: the hook *)
(* parks legs and sweeps burns, the executor rebalances, the basket token  *)
(* accrues fees, pays claims and redeems.                                  *)
(***************************************************************************)
Origins == {"hook", "executor", "token"}

NoTrades == [buys |-> 0, sells |-> 0]
NoEvents == [o \in Origins |-> 0]
NoAuction == [status |-> "NONE", bid |-> 0, bidder |-> NoBidder, bids |-> {}, moves |-> 0]

-----------------------------------------------------------------------------
(***************************************************************************)
(* The contracts.  A launch ends in the block it began in; the registry's  *)
(* log may follow the first trade and the first fees of that launch.       *)
(***************************************************************************)
Emit(log) ==
    /\ Len(logs) < MaxLogs
    /\ length + Len(logs) < MaxHistory
    /\ logs' = Append(logs, log)
    /\ UNCHANGED <<streams, length, stores, rows>>

Register(b) ==
    /\ b \notin registered
    /\ Emit([kind |-> "BasketRegistered", basket |-> b])
    /\ launched' = launched \cup {b}
    /\ registered' = registered \cup {b}
    /\ UNCHANGED <<traded, emitted, auction>>

Trade(b, side) ==
    /\ b \in registered \/ side = "buys"
    /\ Emit([kind |-> side, basket |-> b])
    /\ launched' = launched \cup {b}
    /\ traded' = [traded EXCEPT ![b][side] = @ + 1]
    /\ UNCHANGED <<registered, emitted, auction>>

\* A hook and a token speak from the launch on, an executor rebalances what
\* is registered.
BasketEvent(b, origin) ==
    /\ b \in launched
    /\ origin = "executor" => b \in registered
    /\ Emit([kind |-> origin, basket |-> b])
    /\ emitted' = [emitted EXCEPT ![b][origin] = @ + 1]
    /\ UNCHANGED <<launched, registered, traded, auction>>

\* A contract that is no basket emits the same events as a token.
ForeignEvent ==
    /\ Emit([kind |-> "token", basket |-> Stranger])
    /\ UNCHANGED chain

Bid(who, bid, first) == [bidder |-> who, total |-> bid, is_initial |-> first]

CreateAuction(who, bid) ==
    /\ auction.status = "NONE"
    /\ Emit([kind |-> "AUCTION_CREATED", bid |-> bid, bidder |-> who])
    /\ auction' = [auction EXCEPT !.status = "ACTIVE", !.bid = bid, !.bidder = who,
                                  !.bids = {Bid(who, bid, TRUE)}]
    /\ UNCHANGED <<launched, registered, traded, emitted>>

PlaceBid(who, bid) ==
    /\ auction.status = "ACTIVE"
    /\ bid > auction.bid
    /\ Emit([kind |-> "BID_PLACED", bid |-> bid, bidder |-> who])
    /\ auction' = [auction EXCEPT !.bid = bid, !.bidder = who,
                                  !.bids = @ \cup {Bid(who, bid, FALSE)}]
    /\ UNCHANGED <<launched, registered, traded, emitted>>

\* Funds arrive, bid tokens are deposited and withdrawn at any time; a winner
\* claims once the auction is settled.
MoveFunds(kind) ==
    /\ kind = "ETH_CLAIMED" => auction.status = "SETTLED"
    /\ Emit([kind |-> kind])
    /\ auction' = [auction EXCEPT !.moves = @ + 1]
    /\ UNCHANGED <<launched, registered, traded, emitted>>

\* The winner pays with the bid, which is burned.
Settle ==
    /\ auction.status = "ACTIVE"
    /\ Emit([kind |-> "AUCTION_SETTLED", bid |-> auction.bid, bidder |-> auction.bidder])
    /\ auction' = [auction EXCEPT !.status = "SETTLED"]
    /\ UNCHANGED <<launched, registered, traded, emitted>>

-----------------------------------------------------------------------------
(***************************************************************************)
(* One stream over one block.                                              *)
(***************************************************************************)
OfKind(k) == {i \in DOMAIN logs : logs[i].kind = k}

\* The registrations of a stream: of the versions it follows.
Discoveries(s) ==
    {logs[i].basket : i \in {j \in OfKind("BasketRegistered") :
                               Generation[logs[j].basket] \in s.versions}}

\* A token is a basket if the store has it at that log, or if this block
\* registers it anywhere.
KnownByTheStore(s, i) ==
    stores[s] \cup (Discoveries(s) \cap {logs[j].basket :
                                           j \in OfKind("BasketRegistered") \cap 1..i})
IsBasketInStore(s, i) == logs[i].basket \in KnownByTheStore(s, i)
IsBasket(s, i) == logs[i].basket \in KnownByTheStore(s, i) \cup Discoveries(s)

TradesOfAnyHook(s, b, side) ==
    Cardinality({i \in OfKind(side) : logs[i].basket = b})
TradesOf(s, b, side) ==
    Cardinality({i \in OfKind(side) : logs[i].basket = b /\ Generation[b] \in s.hooks})

\* What a stream takes of b's events.  Hooks and executors are addresses it
\* was built with; a token's events need the discoveries.
OfBasket(kind, b) == {i \in OfKind(kind) : logs[i].basket = b}
HookEvents(s, b) == {i \in OfBasket("hook", b) : Generation[b] \in s.hooks}
ExecutorEvents(s, b) == {i \in OfBasket("executor", b) : Generation[b] \in s.rebalances}
TokenEvents(s, b) == {i \in OfBasket("token", b) : s.tokens /\ IsBasket(s, i)}

\* One row per log, whichever streams wrote it.
EventRows(b) ==
    [hook     |-> Cardinality(UNION {HookEvents(s, b) : s \in streams}),
     executor |-> Cardinality(UNION {ExecutorEvents(s, b) : s \in streams}),
     token    |-> Cardinality(UNION {TokenEvents(s, b) : s \in streams})]

\* The auction's rows after the block: every event sets its own columns, a
\* bid makes a row of its own, and what is none of the three is a movement of
\* an account's funds.
Moves == {"ETH_CLAIMED", "FUNDS_RECEIVED"}
AuctionKinds == {"AUCTION_CREATED", "BID_PLACED", "AUCTION_SETTLED"} \cup Moves

SettledKeepsStatus(status, log) ==
    IF log.kind = "AUCTION_CREATED" THEN "ACTIVE" ELSE status
StatusAfter(status, log) ==
    CASE log.kind = "AUCTION_CREATED" -> "ACTIVE"
      [] log.kind = "AUCTION_SETTLED" -> "SETTLED"
      [] OTHER                        -> status

BidRows(log) ==
    IF log.kind = "AUCTION_SETTLED"
    THEN {}
    ELSE {Bid(log.bidder, log.bid, log.kind = "AUCTION_CREATED")}

AuctionRow(row, log) ==
    IF log.kind \in Moves
    THEN [row EXCEPT !.moves = @ + 1]
    ELSE [row EXCEPT !.status = StatusAfter(@, log), !.bid = log.bid,
                     !.bidder = log.bidder, !.bids = @ \cup BidRows(log)]

AuctionAfter(row) ==
    LET after[n \in 0..Len(logs)] ==
          IF n = 0 THEN row
          ELSE IF logs[n].kind \in AuctionKinds THEN AuctionRow(after[n - 1], logs[n])
          ELSE after[n - 1]
    IN  after[Len(logs)]

\* Only AUCTION_SETTLED writes a result, and it is the auction's last event.
Results == {[winner |-> logs[i].bidder, burned |-> logs[i].bid] :
              i \in OfKind("AUCTION_SETTLED")}

-----------------------------------------------------------------------------
(***************************************************************************)
(* The block ends: every stream's store and every stream's rows.  A row's  *)
(* counts add up over the streams; the other rows are keyed by their log,  *)
(* and the streams that see one write it alike.                            *)
(***************************************************************************)
TradesOfAll(b, side) == SumFunctionOnSet([s \in streams |-> TradesOf(s, b, side)], streams)

BasketRow(b) ==
    [created |-> rows.baskets[b].created
                    \/ \E s \in streams : b \in Discoveries(s),
     buys    |-> rows.baskets[b].buys + TradesOfAll(b, "buys"),
     sells   |-> rows.baskets[b].sells + TradesOfAll(b, "sells")]

StoreAfter(s) == stores[s] \cup Discoveries(s)

EndBlock ==
    /\ logs # <<>>
    /\ launched = registered
    /\ stores' = [s \in streams |-> StoreAfter(s)]
    /\ rows' = [baskets |-> [b \in Baskets |-> BasketRow(b)],
                events  |-> [b \in Contracts |-> [o \in Origins |->
                               rows.events[b][o] + EventRows(b)[o]]],
                auction |-> IF \E s \in streams : s.auction
                            THEN AuctionAfter(rows.auction)
                            ELSE rows.auction,
                results |-> IF \E s \in streams : s.auction
                            THEN rows.results \cup Results
                            ELSE rows.results]
    /\ logs' = <<>>
    /\ length' = length + Len(logs)
    /\ UNCHANGED <<streams, launched, registered, traded, emitted, auction>>

Init ==
    /\ streams \in Assemblies
    /\ launched = {} /\ registered = {}
    /\ traded = [b \in Baskets |-> NoTrades]
    /\ emitted = [b \in Contracts |-> NoEvents]
    /\ auction = NoAuction
    /\ logs = <<>> /\ length = 0
    /\ stores = [s \in streams |-> {}]
    /\ rows = [baskets |-> [b \in Baskets |-> [created |-> FALSE, buys |-> 0, sells |-> 0]],
               events  |-> [b \in Contracts |-> NoEvents],
               auction |-> NoAuction,
               results |-> {}]

Next ==
    \/ \E b \in Baskets : \/ Register(b)
                          \/ \E side \in {"buys", "sells"} : Trade(b, side)
                          \/ \E origin \in Origins : BasketEvent(b, origin)
    \/ ForeignEvent
    \/ \E who \in Bidders, bid \in 1..MaxBid : CreateAuction(who, bid) \/ PlaceBid(who, bid)
    \/ Settle
    \/ \E kind \in Moves : MoveFunds(kind)
    \/ EndBlock

Spec == Init /\ [][Next]_vars

-----------------------------------------------------------------------------
Finished == logs = <<>>

\* A basket's counts are its trades, each counted once whatever streams the
\* package merges, and a row with trades is a row of a registered basket.
TradesCountedOnce ==
    Finished => \A b \in Baskets :
        /\ rows.baskets[b].buys = traded[b].buys
        /\ rows.baskets[b].sells = traded[b].sells
        /\ traded[b] # NoTrades => rows.baskets[b].created

\* Every event of a basket has its row, whatever generation of hook, executor
\* or token it comes from, also in the block that launches the basket;
\* contracts that are no basket have none.  The auction's rows are the
\* auction and all its bids, and it has a result exactly when it was settled,
\* with the winner's bid.
EventsAndAuctionFollow ==
    Finished =>
        /\ rows.events = emitted
        /\ rows.auction = auction
        /\ rows.results = IF auction.status = "SETTLED"
                          THEN {[winner |-> auction.bidder, burned |-> auction.bid]}
                          ELSE {}
=============================================================================

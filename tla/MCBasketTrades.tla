--------------------------- MODULE MCBasketTrades ---------------------------
(***************************************************************************)
(* The matching of a receipt's logs into trades, and what the Basket       *)
(* domain makes of trades, in one run.  The matching is within a receipt   *)
(* and the domain takes its trades as they come, so that a behaviour       *)
(* follows one of the two.                                                 *)
(*                                                                         *)
(* The packages are the two that the source describes: the manifest's own  *)
(* db_out with the V14 stream, and the earlier production output, of the   *)
(* first hook, continued by the V11 and the V14 streams.                   *)
(***************************************************************************)
EXTENDS ReceiptMatching, TLC

CONSTANTS
    Earliest, Third, Latest,  \* the baskets that each generation of hooks trades
    Stranger, Bidders, NoBidder, MaxBid, MaxBlockLogs, MaxHistory

Baskets == Earliest \cup Third \cup Latest

\* A basket is of one hook.
ASSUME TradesAssumption ==
    /\ Earliest \cap Third = {} /\ Earliest \cap Latest = {} /\ Third \cap Latest = {}
    /\ Stranger \notin Baskets
    /\ MaxBid \in Nat

VARIABLES
    part,  \* "receipts" or "baskets"
    streams, launched, registered, traded, emitted, auction, blockLogs,
    length, stores, rows

MCGeneration == [b \in Baskets |-> IF b \in Earliest THEN 1 ELSE IF b \in Third THEN 3 ELSE 14]

Legacy(hooks) == [hooks |-> hooks, rebalances |-> hooks, versions |-> {1, 3, 14},
                  tokens |-> TRUE, auction |-> TRUE]
V11 == [hooks |-> {3}, rebalances |-> {3}, versions |-> {3, 14},
        tokens |-> FALSE, auction |-> FALSE]
V14 == [hooks |-> {14}, rebalances |-> {14}, versions |-> {},
        tokens |-> FALSE, auction |-> FALSE]

MCAssemblies == {{Legacy({1, 3}), V14}, {Legacy({1}), V11, V14}}

Domain == INSTANCE BasketDomain WITH
    Generation <- MCGeneration, Assemblies <- MCAssemblies,
    MaxLogs <- MaxBlockLogs, logs <- blockLogs

domainVars == <<streams, launched, registered, traded, emitted, auction,
                blockLogs, length, stores, rows>>

TradesInit ==
    /\ Init /\ Domain!Init
    /\ \/ part = "receipts" /\ streams = CHOOSE a \in MCAssemblies : TRUE
       \/ part = "baskets" /\ ~feeAfter /\ alone = {}

TradesNext ==
    /\ UNCHANGED part
    /\ \/ part = "receipts" /\ UNCHANGED domainVars /\ Next
       \/ part = "baskets" /\ UNCHANGED vars /\ Domain!Next

TradesSpec == TradesInit /\ [][TradesNext]_<<part, vars, domainVars>>

MCSymmetry == Permutations(Keys) \cup Permutations(Bidders)

\* Counts are the trades, each counted once whatever streams are merged.
TradesCountedOnce == Domain!TradesCountedOnce

\* The event rows are the baskets' events, the auction's rows the auction.
EventsAndAuctionFollow == Domain!EventsAndAuctionFollow
=============================================================================

------------------------------ MODULE ImportV2 ------------------------------
(***************************************************************************)
(* The second domain of imported markets: a wrapper that logs its trades   *)
(* and two helpers, an old one and ImportHelperV2, that create communities *)
(* and their pools.  It reads no store.  Each accepted log becomes a row   *)
(* of import_v2_events; those of a market set columns of the market's row, *)
(* log after log; a trade of the wrapper becomes a row of its own.         *)
(*                                                                         *)
(* A pool is "social" or "trade" by its factory, with the number that      *)
(* tells it from the token's others.                                       *)
(***************************************************************************)
EXTENDS Integers, Sequences, FiniteSetsExt

CONSTANTS
    Tokens,
    Accounts,     \* creators and deployers
    NoOne,        \* the zero address
    HelperBlock,  \* HELPER_BLOCK, in which ImportHelperV2 was deployed
    MaxLogs       \* bound on the logs of the chain

VARIABLES
    block,    \* number of the open block
    logs,     \* its logs, with a number each
    history,  \* those of the committed blocks
    events,   \* import_v2_events: the numbers of the logs that have a row
    markets,  \* import_v2_markets
    trades    \* import_v2_trade_events

vars == <<block, logs, history, events, markets, trades>>

NoPool == [type |-> "none", number |-> 0]
NoMarket == [community |-> 0, deployer |-> NoOne, social_pool |-> NoPool, updated |-> 0]

MarketKinds == {"CommunityCreated", "ImportedCommunityRecorded", "ImportedMarketRegistered",
                "ImportedMarketUpdated", "ImportedPoolCreated"}

Init ==
    /\ block = 1 /\ logs = <<>> /\ history = <<>>
    /\ events = {}
    /\ markets = [t \in Tokens |-> NoMarket]
    /\ trades = {}

-----------------------------------------------------------------------------
(***************************************************************************)
(* The chain.  A log's number is its place; a community has the number of  *)
(* the first log of those that announce it together.                       *)
(***************************************************************************)
Place == Len(history) + Len(logs) + 1

LogOf(number, source, kind, token, account, pool) ==
    [number |-> number, source |-> source, kind |-> kind, token |-> token,
     account |-> account, pool |-> pool, community |-> Place]

\* The indexes that a block's number leaves to its logs.
BlockRange == 1000000

Emit(new) ==
    /\ Len(history) + Len(logs) + Len(new) <= MaxLogs
    /\ Len(logs) + Len(new) <= BlockRange
    /\ logs' = logs \o new
    /\ UNCHANGED <<block, history, events, markets, trades>>

Pool(type) == [type |-> type, number |-> Place]

\* The old helper's community comes with a social pool.
CreateCommunityOld(token, who) ==
    Emit(<<LogOf(Place, "OLD_HELPER", "CommunityCreated", token, who, Pool("social"))>>)

\* The new helper links the first pool of a community before it logs the
\* community, and that pool may be of either factory.
CreateCommunity(token, who, type) ==
    /\ block >= HelperBlock
    /\ Emit(<<LogOf(Place, "HELPER", "ImportedPoolCreated", token, NoOne, Pool(type)),
              LogOf(Place + 1, "HELPER", "CommunityCreated", token, who, Pool(type))>>)

CreatePool(token, type) ==
    /\ block >= HelperBlock
    /\ Emit(<<LogOf(Place, "HELPER", "ImportedPoolCreated", token, NoOne, Pool(type))>>)

NameDeployer(source, kind, token, who) ==
    Emit(<<LogOf(Place, source, kind, token, who, NoPool)>>)

LogTrade(source, token) == Emit(<<LogOf(Place, source, "ImportedTokenTrade", token, NoOne, NoPool)>>)

ChainStep ==
    \/ \E t \in Tokens, who \in Accounts :
          \/ CreateCommunityOld(t, who)
          \/ \E type \in {"social", "trade"} : CreateCommunity(t, who, type)
          \/ NameDeployer("OLD_HELPER", "ImportedCommunityRecorded", t, who)
          \/ NameDeployer("WRAPPER", "ImportedMarketRegistered", t, who)
          \/ NameDeployer("WRAPPER", "ImportedMarketUpdated", t, who)
    \/ \E t \in Tokens, type \in {"social", "trade"} : CreatePool(t, type)
    \/ \E t \in Tokens, source \in {"WRAPPER", "stranger"} : LogTrade(source, t)

-----------------------------------------------------------------------------
\* Mutant: the deployment block is left out.
AcceptedLate(log) ==
    \/ log.source \in {"WRAPPER", "OLD_HELPER"}
    \/ log.source = "HELPER" /\ block > HelperBlock

\* The logs of the three addresses, from their deployment on.
Accepted(log) ==
    \/ log.source \in {"WRAPPER", "OLD_HELPER"}
    \/ log.source = "HELPER" /\ block >= HelperBlock

Events == {n \in DOMAIN logs : Accepted(logs[n])}

\* Mutant: the new helper's first pool is taken for a social one.
SocialPoolMislabelled(old, e) ==
    IF e.kind = "CommunityCreated" \/ (e.kind = "ImportedPoolCreated" /\ e.pool.type = "social")
    THEN e.pool ELSE old

\* The social pool: a community's first pool if the old helper made it, a
\* linked pool if the social factory did.
SocialPool(old, e) ==
    IF \/ e.kind = "CommunityCreated" /\ e.source = "OLD_HELPER"
       \/ e.kind = "ImportedPoolCreated" /\ e.pool.type = "social"
    THEN e.pool ELSE old

\* Mutant: an update does not change the deployer.
DeployerOfUnupdated(old, e) ==
    IF e.kind \in {"ImportedPoolCreated", "ImportedMarketUpdated"} THEN old ELSE e.account

\* creator, deployer or newDeployer: all but a pool's log name one.
DeployerOf(old, e) == IF e.kind = "ImportedPoolCreated" THEN old ELSE e.account

\* What an event sets of its market's row.
Market(row, e) ==
    [community   |-> e.community,
     deployer    |-> DeployerOf(row.deployer, e),
     social_pool |-> SocialPool(row.social_pool, e),
     updated     |-> e.number]

OfMarket(token) == {n \in Events : logs[n].kind \in MarketKinds /\ logs[n].token = token}

MarketAfter(token) ==
    LET after[n \in 0..Len(logs)] ==
          IF n = 0 THEN markets[token]
          ELSE IF n \in OfMarket(token) THEN Market(after[n - 1], logs[n])
          ELSE after[n - 1]
    IN  after[Len(logs)]

\* The index is the block's number and the log's place in the block.
TradeRow(e) ==
    [entity_index |-> block * BlockRange + e.number - Len(history), log |-> e.number, token |-> e.token]

EndBlock ==
    /\ events' = events \cup {logs[n].number : n \in Events}
    /\ markets' = [t \in Tokens |-> MarketAfter(t)]
    /\ trades' = trades \cup
          {TradeRow(logs[n]) : n \in {m \in Events : /\ logs[m].kind = "ImportedTokenTrade"
                                                      /\ logs[m].source = "WRAPPER"}}
    /\ history' = history \o logs
    /\ logs' = <<>>
    /\ block' = block + 1

Next ==
    \/ ChainStep
    \/ logs # <<>> /\ EndBlock

Spec == Init /\ [][Next]_vars

-----------------------------------------------------------------------------
(***************************************************************************)
(* A market's social pool is the last that a social factory made for its   *)
(* token, whichever helper made it, and never a pool of trade curation;    *)
(* its deployer the last account that was named for it, not undone by a    *)
(* later pool; its community that of its last event.  No log of a helper   *)
(* since its deployment is missing.                                        *)
(***************************************************************************)
MarketsFollow ==
    \A t \in Tokens :
        LET announced == {n \in DOMAIN history : history[n].kind \in MarketKinds /\ history[n].token = t}
            named == {n \in announced : history[n].kind # "ImportedPoolCreated"}
            social == {n \in announced : history[n].pool.type = "social"}
        IN  /\ announced \subseteq events
            /\ markets[t].social_pool = IF social = {} THEN NoPool ELSE history[Max(social)].pool
            /\ markets[t].deployer = IF named = {} THEN NoOne ELSE history[Max(named)].account
            /\ announced # {} =>
                  markets[t].community = history[Max(announced)].community /\ markets[t].updated = Max(announced)

(***************************************************************************)
(* Each trade of the wrapper has one row, with an index in chain order, and *)
(* a log of the same shape by a stranger none.                             *)
(***************************************************************************)
TradesOnce ==
    /\ \A r, s \in trades : r.entity_index < s.entity_index <=> r.log < s.log
    /\ {r.log : r \in trades} =
          {n \in DOMAIN history : history[n].kind = "ImportedTokenTrade" /\ history[n].source = "WRAPPER"}
=============================================================================

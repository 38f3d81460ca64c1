----------------------------- MODULE IndexBroker -----------------------------
(***************************************************************************)
(* IndexBroker: a factory creates NFT pools and, for a pool, an AMM.  The  *)
(* pool and AMM maps accept a log when its emitter is known from an        *)
(* earlier block (a store) or from an earlier log of the same block (the   *)
(* factory map), so that logs with the same signatures of other contracts, *)
(* and of a contract before its creation, are dropped.  Accepted events    *)
(* are numbered by one counter store; accounts are discovered per pool by  *)
(* a set_if_not_exists store whose value is the discovering log's ordinal. *)
(***************************************************************************)
EXTENDS Integers, Sequences, FiniteSets

CONSTANTS
    Pools,      \* addresses that may become pools
    Amms,       \* addresses that may become AMMs
    Users,      \* accounts named by events
    Zero,       \* the zero address, which is no account
    MaxLogs,    \* bound on the logs of a block, and so on ordinals
    MaxHistory  \* bound on the logs of the chain

ASSUME BrokerAssumption ==
    /\ Pools \cap Amms = {}
    /\ IsFiniteSet(Users)
    /\ Zero \notin Pools \cup Users
    /\ MaxLogs \in Nat
    /\ MaxHistory \in Nat

VARIABLES
    logs,     \* the open block; a log's ordinal is its position
    history,  \* the logs of the committed blocks, with their block number
    pools,    \* store_index_broker_pools
    amms,     \* store_index_broker_amms: the pool of each AMM, Zero if none
    accounts, \* store_index_broker_accounts: the ordinal of each key, 0 if none
    counter,  \* store_index_broker_indexes
    db        \* walnut_index_broker_nft_events, a row per event, and _accounts

stores == <<pools, amms, accounts, counter>>
vars == <<logs, history, stores, db>>

Keys == Pools \X Users
Factory == "factory"

\* A log has a kind and the contract that emits it.  A creation, by the
\* factory, names the pool, and the AMM, it creates; the other kinds, "pool"
\* and "amm", name up to two accounts.
Creations == {"pool_created", "amm_created"}

Init ==
    /\ logs = <<>>
    /\ history = <<>>
    /\ pools = {}
    /\ amms = [a \in Amms |-> Zero]
    /\ accounts = [k \in Keys |-> 0]
    /\ counter = 0
    /\ db = [events |-> {}, accounts |-> [k \in Keys |-> 0], pool_count |-> 0]

-----------------------------------------------------------------------------
(***************************************************************************)
(* The chain.  The factory creates a pool once, and an AMM, once, for a    *)
(* pool that exists.  Any address may emit any log at any time.            *)
(***************************************************************************)
ChainLogs == history \o logs

Room == Len(logs) < MaxLogs /\ Len(ChainLogs) < MaxHistory

Emit(log) ==
    /\ Room
    /\ logs' = Append(logs, log)
    /\ UNCHANGED <<history, stores, db>>

CreatedPool(p) == \E n \in DOMAIN ChainLogs : ChainLogs[n].kind = "pool_created" /\ ChainLogs[n].pool = p
CreatedAmm(a) == \E n \in DOMAIN ChainLogs : ChainLogs[n].kind = "amm_created" /\ ChainLogs[n].amm = a

CreatePool(p, admin) ==
    /\ ~CreatedPool(p)
    /\ Emit([kind |-> "pool_created", emitter |-> Factory, pool |-> p, amm |-> Zero,
             account |-> admin, secondary |-> Zero])

CreateAmm(p, a) ==
    /\ CreatedPool(p) /\ ~CreatedAmm(a)
    /\ Emit([kind |-> "amm_created", emitter |-> Factory, pool |-> p, amm |-> a,
             account |-> Zero, secondary |-> Zero])

PoolLog(p, account, secondary) ==
    Emit([kind |-> "pool", emitter |-> p, pool |-> Zero, amm |-> Zero,
          account |-> account, secondary |-> secondary])

AmmLog(a, account, secondary) ==
    Emit([kind |-> "amm", emitter |-> a, pool |-> Zero, amm |-> Zero,
          account |-> account, secondary |-> secondary])

-----------------------------------------------------------------------------
\* Mutant: a creation anywhere in the block makes the pool known.
KnownPoolAnyOrder(n) ==
    \/ logs[n].emitter \in pools
    \/ \E m \in DOMAIN logs : logs[m].kind = "pool_created" /\ logs[m].pool = logs[n].emitter

\* map_index_broker_pool_events: has_first, or a creation before the log.
KnownPool(n) ==
    \/ logs[n].emitter \in pools
    \/ \E m \in 1..(n - 1) : logs[m].kind = "pool_created" /\ logs[m].pool = logs[n].emitter

\* map_index_broker_amm_events: the pool of a creation before the log, else
\* that of the store.
PoolOfAmm(n) ==
    LET found == {m \in 1..(n - 1) : logs[m].kind = "amm_created" /\ logs[m].amm = logs[n].emitter}
    IN  IF found # {} THEN logs[CHOOSE m \in found : \A o \in found : m <= o].pool
        ELSE IF logs[n].emitter \in Amms THEN amms[logs[n].emitter] ELSE Zero

\* The pool of the n-th log's event, Zero if the maps drop it.
PoolOf(n) ==
    CASE logs[n].kind \in Creations -> logs[n].pool
      [] logs[n].kind = "pool" -> IF KnownPool(n) THEN logs[n].emitter ELSE Zero
      [] logs[n].kind = "amm" -> PoolOfAmm(n)

\* The ordinals of the block's events.
Events == {n \in DOMAIN logs : PoolOf(n) # Zero}

\* Mutant: get_last instead of get_at.
EventIndexAtEnd(n) == counter + Cardinality(Events)

\* store_index_broker_indexes.get_at(ordinal): the events up to the log.
EventIndex(n) == counter + Cardinality({m \in Events : m <= n})

\* The keys of an event's accounts.
KeysOf(n) == {<<PoolOf(n), u>> : u \in {logs[n].account, logs[n].secondary} \ {Zero}}

\* Mutant: only the first account of an event is discovered.
DiscoveriesAccountOnly(k) ==
    {n \in Events : logs[n].kind \notin Creations /\ k = <<PoolOf(n), logs[n].account>>}

\* The events that name a key, factory events aside.
Discoveries(k) == {n \in Events : logs[n].kind \notin Creations /\ k \in KeysOf(n)}

\* set_if_not_exists in ordinal order.
AccountsAfter ==
    [k \in Keys |->
        IF accounts[k] = 0 /\ Discoveries(k) # {}
        THEN CHOOSE n \in Discoveries(k) : \A m \in Discoveries(k) : n <= m
        ELSE accounts[k]]

\* accounts.get_at(n): what was set in this block counts up to the log.
AccountAt(n, k) == IF accounts[k] = 0 /\ AccountsAfter[k] > n THEN 0 ELSE AccountsAfter[k]

\* An event, of the factory too, writes the row of a key that the store says
\* was set at the event's ordinal.
AccountRows ==
    [k \in Keys |->
        LET writers == {n \in Events : k \in KeysOf(n) /\ AccountAt(n, k) = n}
        IN  IF writers = {} THEN db.accounts[k] ELSE AccountsAfter[k]]

EndBlock ==
    /\ logs # <<>>
    /\ pools' = pools \cup {logs[n].pool : n \in {m \in DOMAIN logs : logs[m].kind = "pool_created"}}
    /\ amms' = [a \in Amms |->
                  IF \E n \in DOMAIN logs : logs[n].kind = "amm_created" /\ logs[n].amm = a
                  THEN logs[CHOOSE n \in DOMAIN logs : logs[n].kind = "amm_created" /\ logs[n].amm = a].pool
                  ELSE amms[a]]
    /\ accounts' = AccountsAfter
    /\ counter' = counter + Cardinality(Events)
    /\ db' = [events |-> db.events \cup
                {[entity_index |-> EventIndex(n), log |-> Len(history) + n, pool |-> PoolOf(n)] :
                   n \in Events},
              accounts |-> AccountRows,
              pool_count |-> db.pool_count +
                Cardinality({n \in DOMAIN logs : logs[n].kind = "pool_created"})]
    /\ history' = ChainLogs
    /\ logs' = <<>>

Next ==
    \/ \E p \in Pools, u \in Users : CreatePool(p, u)
    \/ \E p \in Pools, a \in Amms : CreateAmm(p, a)
    \/ \E p \in Pools, u, v \in Users \cup {Zero} : PoolLog(p, u, v)
    \/ \E a \in Amms, u, v \in Users \cup {Zero} : AmmLog(a, u, v)
    \/ EndBlock

Spec == Init /\ [][Next]_vars

-----------------------------------------------------------------------------
(***************************************************************************)
(* What the rows should be, by the whole chain and not by stores: the pool *)
(* that the h-th committed log belongs to, by creations before it.         *)
(***************************************************************************)
TruePool(h) ==
    LET log == history[h]
        amm == {g \in 1..(h - 1) : history[g].kind = "amm_created" /\ history[g].amm = log.emitter}
    IN  CASE log.kind \in Creations -> log.pool
          [] log.kind = "pool" ->
               IF \E g \in 1..(h - 1) : history[g].kind = "pool_created" /\ history[g].pool = log.emitter
               THEN log.emitter ELSE Zero
          [] log.kind = "amm" -> IF amm = {} THEN Zero ELSE history[CHOOSE g \in amm : TRUE].pool

(***************************************************************************)
(* Block boundaries do not matter: event rows exist for exactly the logs   *)
(* that follow, in the chain, the creation of their emitter, with the pool *)
(* of that creation; the events of the three maps are numbered together    *)
(* 1, 2, 3... in chain order, as the UNIQUE columns need; and there is an  *)
(* account row for exactly the accounts that an accepted pool or AMM event *)
(* names, whichever of its two account fields names them.                  *)
(***************************************************************************)
RowsFollowCreations ==
    LET followed == {h \in DOMAIN history : TruePool(h) # Zero}
    IN  /\ db.events = {[entity_index |-> Cardinality({g \in followed : g <= h}),
                         log |-> h, pool |-> TruePool(h)] : h \in followed}
        /\ \A k \in Keys :
              db.accounts[k] > 0 <=>
                  \E h \in DOMAIN history :
                      /\ history[h].kind \notin Creations
                      /\ TruePool(h) = k[1]
                      /\ k[2] \in {history[h].account, history[h].secondary}

(***************************************************************************)
(* schema.sql: walnut_index_broker_nft_accounts.entity_index is UNIQUE.    *)
(***************************************************************************)
AccountIndexesUnique ==
    \A k, l \in Keys :
        k # l /\ db.accounts[k] > 0 /\ db.accounts[l] > 0 => db.accounts[k] # db.accounts[l]
=============================================================================

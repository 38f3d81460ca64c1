# TLA+ models of the TipTag Robinhood indexer

This directory holds specifications of the indexer in this repository, the TLC
configurations that check them on small instances, and proofs that TLAPS checks
for every value of the constants. Source paths below are relative to the
repository root (`src/lib.rs` is the Rust library, `scripts/`, `examples/`,
`deploy/`, `docs/`, `schema.sql`, `substreams.yaml` are beside it).

    tlc -workers 2 -config SqlSink.cfg MCSqlSink.tla      # one run
    tlapm SinkProofs.tla                                  # one module of proofs

`PROJECT.json` lists the runs with their properties, the mutation of the code
that each property is known to catch, and the source lines of every definition.


## 1. The system

The package indexes one chain (Robinhood, chain id 4663). For every block a
graph of *modules* runs:

    block --> map modules --> typed events --> stores (key/value, by ordinal)
                   ^                               |
                   +------- reads stores ----------+
          events + stores + deltas --> writer maps (*_db_out)
          several writers --> merge --> DatabaseChanges of the block
    DatabaseChanges --> substreams-sink-sql --> PostgreSQL (rows, cursor, history)

A systemd timer starts the sink on a bounded range of blocks; a new contract
generation is added by assembling a new package around the one in production.

Three things make this code hard.

1. **Time inside a block.** A log is read against state at its own position: a
   store has a value at the start of the block, at an ordinal and at the end;
   maps consult both "known before this block" and "announced earlier (or
   anywhere) in this block". The wrong one of these is wrong only when a
   contract is created and used in one block, or used twice in one block.
2. **Increments without re-reading.** Writers never read the database. They set
   columns and add differences, so a log seen twice, missed or given to the
   wrong row is wrong for ever, in every later value.
3. **Streams that stop, fork and change their code.** The sink may die
   anywhere, blocks may be undone, the range is chosen by a script from a state
   file, the package is replaced while its cursor lives on.

### Inventory

| Component | State | Operations | Interacts with | What makes it correct |
|---|---|---|---|---|
| Incremental sink driver: `scripts/run-incremental-sink.sh`, `run-sink.sh`, the incremental service and timer | window state file; cursor in SQL; the unit's environment | timer start, cursor read, window choice, sink run to an exclusive stop block, cursor re-read, window save, failure at any point | chain head, SQL cursor, installed package | the lag is respected; a saved window vouches for a range that was scanned; a sparse pipeline still advances |
| SQL sink (external) as the repository relies on it: `scripts/test-reorg.sql` | rows, cursor, history of I/U/D records | commit a block, undo to a block, crash | merged changes, final block | rows are those of the cursor's block through any forks; an undo never fails |
| Pump and token maps, bonding curve, listing, swaps | discovered addresses, supply store, trade counter, `tokens`/`trades` rows | NewToken, Trade, injection, listing, swap | two writers (legacy, V14) | logs of announced tokens only, prices and supply of the last log, one number per trade |
| IPShare | balance and stake stores, relation counts, counters, rows | Create, Buy, Sell, Stake, Unstake, ValueCaptured | account registry | relation counts equal the positive balances |
| Account registry | three discovery stores, two counters, `accounts` rows | candidates of a block by priority and ordinal | every other domain | an account has one index; joined_at is its first appearance |
| Receipt matching | per receipt | pair hook log with swap or router log | trades, baskets, V14 | no trade gets another trade's amounts |
| Walnut communities and pools | owners, memberships, contracts, counters, rows | create, transfer, deposit, lock, withdraw, redeem, claim, harvest, close, set ratios, fee and fund, earn and pay revenue | V14 curation pools (same rows), merge | rows are the contracts' state; operations have actor and number; counts are numbers of rows |
| Merge of outputs (`merge_database_changes`, V14 and import merges) | none | concatenate, sort | every writer | canonical block order |
| IndexBroker | addresses, event counter, account store, rows | factory, pool and AMM logs, CreatePool calls | merge | rows only for created pools, numbered in log order; a creation gets its own call's metadata |
| Basket registry, trades, fees, auctions | address store, rows | discovery, trade, parked leg, swept burn, rebalance, fee accrual, claim and redemption, auction, bid, account funds | hook generations V1..V14, merge | every event of a basket counts once over all streams |
| Nutbox NFT mining | pool store, `walnut_nft_*` rows | batches, mint, referral, level-up, transfer | Walnut counts | weights agree at NFT, account and pool |
| Nutbox basket TVL mining | parent and child stores, rows | stake, update, deposit, withdraw, redeem, claim | Baskets | totals are sums of what is staked |
| Package assembly: `examples/*.rs` | package: modules, binaries, initial blocks, filters, sink | first legacy and unified packages, additive release, cutover, hotfix; `verify-unified-package.sh` | running cursor and caches | running modules unchanged; no domain lost or read twice; no gap at the switch |
| Backfill and handoff: runbook 7.2, `check-unified-cutover.sql`, `prepare-v11-filter-cutover.sql`, units | cursors per stream, boundary, operator's phase, tables, backup | stop, back up, backfill, continue, reset, replay, restore | SQL sink, packages | each block of each domain is applied once; stores fit the tables; the handoff ends |
| Imported markets (V1 wrapper calls, V2) | subjects, deployers, index stores, market rows | wrapper call, announcements, V2 events | IPShare, V11 | a row has its own call's amounts and sellsman; markets show their last announcement |
| V11 protocol writers | route, fee-pool and price-pool rows | put, replace, remove | imported markets, merge | rows are the registries' entries |
| V14 buyback, components | component store, buyback and component rows | pairs, pool links, taxes, fees, executions, rewards | tokens, merge | rows are the contracts' sums and states |
| Audits, migrations, reconciliation (`scripts/*.sql`, `*.mjs`, `*.sh`) | none / one-off | compare, alter | database | - |
| Generated ABI and protobuf code | none | decode | - | - |


## 2. Modules

Every component module has the contracts' actions (one log or the logs of one
call, appended to the open block) and `EndBlock`, which is the whole of what the
modules do with the block: maps, stores, counters, writers, in the dependency
order of `substreams.yaml`. What a contract refuses it emits no log for; this
is the only thing assumed of contracts besides the order of their logs.
Properties compare the rows after a block with the contracts' state. Bodies of
logs are reduced to the fields that reach a compared row.

| Module | Models | Code |
|---|---|---|
| `IncrementalSink` | wrapper process, state file, sink, chain, operator | `run-incremental-sink.sh`, `run-sink.sh`, the timer and unit |
| `ForkableTable` | abstract: tables that follow one chain, commit and revert | - |
| `SqlSink` | rows + history + undo, implements `ForkableTable` | `scripts/test-reorg.sql`; the sink binary is external |
| `TokenMarket` | Pump, tokens, curve, listing, swaps: legacy, V11 and V14 writers | lib.rs 2985-3091, 3406-3558, 4599-; v14.rs 198-290, 382-705 |
| `V14Components` | components, their pairs and pools, taxes, buyback state | v14.rs 198-302, 424-462, 526-622 |
| `IPShareLedger` | IPShare maps, stores, counts, writer | lib.rs |
| `AccountRegistry` | discovery stores, counters, numbering, account rows, rows of the additive streams | lib.rs 2424-2592, 3374-3405, 5260-5311 |
| `ReceiptMatching` | the two pairing algorithms | lib.rs 1356-1393, 2881-2941; v14.rs 127-156 |
| `WalnutProjection` | communities and pools of every kind, ratios, funds, memberships, operations | lib.rs 1892-1948, 2317-2422, 2594-2802, 4974-5258; v14.rs |
| `DatabaseMerge` | `merge_database_changes` over the ordinals that `Tables` gives | lib.rs 5369-5382 |
| `IndexBroker` | factory, pool and AMM maps, counter, account store, writer | lib.rs |
| `PoolCreations` | pairing of CreatePool calls with creation logs | lib.rs 486-642 |
| `ImportedTrades` | wrapper calls of a receipt, attribution, sellsman, index, market rows | lib.rs 1029-1276, 4101-4230 |
| `ImportV2` | V2 events, markets, trades | import_v2.rs |
| `ProtocolRegistry` | tables with entries put and removed | lib.rs 362-458, 4171-4227 |
| `ImportedMarkets` | the three, each by itself | - |
| `BasketDomain` | registry, hook operations by generation, executors, fees, auctions, streams of a package | lib.rs 1278-1850, 3159-3377; v14.rs 840-948 |
| `NftMining` | NFT pool: batches, NFTs, weights | lib.rs 1950-2197, 3560-3863 |
| `TvlMining` | parent pool, child pools, positions | lib.rs 1988-2315, 3866-4098 |
| `NutboxMining` | composes the two: one community, one factory, one block | lib.rs 3560-3604, 4569-4578 |
| `Packages` | names, contents, what a module reads, copied binaries: shared by the next two | `examples/make_*.rs`: `module_map`, `module_binary`, `append_binary` |
| `FirstPackages` | the packages that came before, and their verification | `make_legacy_continuation.rs`, `make_unified_package.rs`, `verify-unified-package.sh` |
| `PackageRelease` | the assemblers as operations on packages | the other `examples/make_*.rs` |
| `OrderedFeed` | abstract: every domain's changes applied in order, each once | - |
| `BackfillHandoff` | sinks one after another over one database, implements `OrderedFeed` | runbook 7.2, `scripts/*cutover.sql`, the units |
| `MC*` | values of the constants for TLC, symmetry; `MCReleases`, `MCBasketTrades` and `MCBrokerCreations` check several components in one run, each behaviour being one component's | - |
| `*Proofs` | theorems of the component | - |
| `FiniteFacts` | lemmas on sums, maxima and ranks over finite sets, for the proofs | - |

How state corresponds. `logs` is the block being filled; `history`, `length`
or a counter stands for finished blocks. A store is a variable with its value
at the end of the last block (`get_first`/`has_first`); its value at an ordinal
is that value and the operations of the block's logs up to it (`IndexAt`,
`OwnerAt`, `SupplyAt`, `KnownAt`, ...). `rows` or `db` are the tables. `LogOf`
and its like build a log; ordinals are positions in `logs`.

### IncrementalSink
One wrapper process (`phase`: idle; sinking; sunk, when the sink has returned
and the window is not yet saved) among concurrent actors:
the chain grows and forks, the operator installs an environment (`Deploy`:
package, base window, ceiling, growth factor, with or without the cursor id),
the sink commits any number of pending output blocks with the cursor
(`SinkCommit`), undoes (`SinkUndo`),
reaches its stop block (`SinkDone`), the process dies anywhere (`Abort`), the
window is saved after a successful run only (`SaveWindow`) and a cursor that
went backwards is refused (`RefuseBackwardsCursor`). `file` outlives processes
and environments; its scope is compared as the script compares its hash.
`cursors[p]` and `tables[p]` exist per package, as the cursor table has one line
per output module. The sink resumes behind its own cursor, or at
`--start-block`: `resolved_start_block` only sizes the range of a run, so the
wrapper acts on the tables through `STOP_BLOCK` alone, and that nothing is
skipped or undone twice is the sink's promise (`SqlSink`), not a property here.
`kept` and `savedKept` are history variables that no action reads for a
decision: the block up to which the range of the run, and that of the run that
wrote the file, has not been replaced by a fork since the sink read it. With
them `SavedRangeExhausted` holds over forks too: a file may outlive the chain it
was written about, and is evidence about what is left of it.

### SqlSink and ForkableTable
`ForkableTable` is the promise to readers: the tables hold the state of one
block, move to the next block by any change, and after a fork are again what
they were at the last valid block (`past` remembers every block's tables).
`SqlSink` has no such memory to work with: it keeps the current rows and, for
blocks above the last irreversible one, I/U/D records with the previous row.
`BeginUndo`, one `Reverse` per record, newest first, and `CommitUndo` are one
database transaction, worked on a copy (`undo.rows`) that `Crash` rolls back.
`rows`, `cursor` and `past` are the same variables in both, so the refinement
mapping is the identity on committed data and a whole undo is one `Rewind`;
`ImplementsTable` is checked and proved.

### AccountRegistry, IPShareLedger, TokenMarket, WalnutProjection, IndexBroker
`legacy_db_out` writes kind after kind rather than log after log. The models
keep that order: a value that is written twice in a block has the *last kind's*
last log, and the invariants (`RowsFollowCurve`, `IndexesFollowTheChain`, ...) say when this is the chain's last log.
Numbers of rows come from `get_at(ordinal)` of a counter, or from `get_last`
less the operations of the block; both are modelled as the code computes them.

The additive streams (`ensure_additive_account`, `init_account`) write account
rows that the registry's stores do not count, with `set_if_null` of an index
made of block and log. `accounts.entity_index` is NOT NULL DEFAULT 0, so a row
that the legacy writer inserted first keeps the default: `set_if_null` finds a
value. `AccountRegistry` has both writers.

`V14Components` has the Pump and hook (static sources, read from their first
log) and the tokens (dynamic sources, read once the store knows them), repeated
logs of one identity, logs forged by strangers, and the `expect` of a taxed
pair (`Panics` sets `halted`, which `ComponentsFollow` excludes).

### ReceiptMatching
Receipts are built log by log with trades of different pools interleaved,
trades that lost one of their two logs, and several trades of one pool. The
two matchers are operators over the receipt: earliest free later log of the
key, and n-th fee with n-th swap if there are as many. The `call` of a log, which
no matcher reads, is the truth they are compared with. `MatchesTruly` claims of
the V14 matcher: exact pairs of a pool whose logs are all paired, none of a pool
with extra swaps or with extra fees. A pool with a lone fee *and* a lone swap in
one receipt is left open, because equal counts hide it from the matcher.

### ImportedTrades, ImportV2, ProtocolRegistry
A receipt has several wrapper calls, which may fail or be of a shape the map
does not decode, each with its hops (swap logs) and its fee logs. As in the
code, a trade's token amount is that of the first or last swap of its venue in
the *whole receipt*, its fee the sum over its token in the receipt, its native
amount a balance or payment; the truth of each call is kept beside. So
`TradesExact` says exactly when an attribution is certain: with another call of
the token or venue in the receipt it need not be. `Sellsman` reads the subject
store at the block's start (`has_first`) and the deployer store at the call's
ordinal. `ImportV2` has the two helpers, the wrapper, a stranger, and the block
from which the second helper is read. `ProtocolRegistry` writes put and remove
logs of one block in order.

### BasketDomain, NftMining, TvlMining, NutboxMining
`Generation` gives a basket's hook; a *package* is a set of streams, each a
selection of generations, applied to the same block. A log of a basket
originates in its hook (trades, parked legs, swept burns), its executor
(rebalances) or the basket itself (fees accrued, claimed, redeemed), and each
stream must know who that is. Mining pools are
discovered by layers (factory, parent, child), all of which may happen in one
block, and a pool logs its first batch before the factory announces it.

### FirstPackages, PackageRelease
A module is (binary, initial block, inputs) and a package is a function from
names to modules, its binaries and its sink. `Additive`, `Cutover` and
`Hotfix` transform the production package as the programs do, with their error
returns as guards; `Advance` moves the production cursor. The definition of a
module covers the *content* of its binary, so index remapping is checked. What a module
reads, with all that those read (`ReadBy`), is the smallest set that has it and
is closed under inputs; a module's hash is the definitions of that set.
In `FirstPackages` a module also has a filter, and the package a second copy of
the filters for readers (`told`); the first manifests override no initial block
per network, so initial blocks travel with modules. `Verified` is the release
check of `verify-unified-package.sh`, which may fail only for packages that were
built of different imports or an incomplete template.

### BackfillHandoff and OrderedFeed
`OrderedFeed` promises a reader that the changes of each domain are applied
block by block, each block once and none left out. `BackfillHandoff` has the
sinks that come one after another (`Start`, `Process`, `Crash`), each with a
cursor that is committed with the rows of a block *with output* only, and the
operator's steps between them: joining two streams where their cursors meet,
stopping production, backfilling to its cursor `C`, continuing from `C + 1`,
resetting a domain's stores, replaying after the domain was cleaned, restoring a
backup. The backup (`BackUp`) is taken before production stops, as section 7.2
orders them, with the cursors in it, so it may be behind the boundary that is
recorded later. Restoring it therefore takes the procedure back to production,
which goes on from the backup's cursor; to take the restored database for that
of the boundary would leave a gap (mutant `RestoredPhaseStopped`).


## 3. Runs

`expect: pass` unless said. States are distinct states of TLC.

| Run | Instance | Shows |
|---|---|---|
| `sink` (304k) | 2 packages, 3 environments, head 6, lag 1, 2 forks, fairness | no run comes within the lag, windows keep to their bounds, a saved window means an exhausted range on what is left of its chain, and every output far enough below the head is committed, through redeployments, aborts, and a fork after a fork |
| `sql_sink` (300k) | 2 rows, 2 values, chain of 4 blocks, any forks and crashes | undo never fails, history down to the final block, refinement of `ForkableTable` |
| `ipshare` (134k) | 2 accounts, amounts 1-2, 3 logs per block, 5 logs | relation counts, held supply, indexes, joined accounts |
| `accounts` (153k) | 3 accounts, 2 logs per block, 3 blocks, every kind of log | indexes identify accounts, when an account is counted twice, joined_at, finality of the pre-Walnut index |
| `market` (428k) | one legacy, one V11 and one V14 token, supply up to 2, 4 logs per block, 5 logs; components: 2 assets, 6 logs | supply and price, listing states, trade numbers; component and buyback rows |
| `walnut` (145k) | 1 community, one legacy pool of any kind and one curation pool, 2 users, 5 logs per block, 6 logs | rows and memberships, lists, funds, actors, operation numbers, counts |
| `index_broker` (1.1M) | 2 pools, 1 AMM, 2 users, 3 logs per block, 4 logs; 3 calls of a receipt | event rows and their numbers, account rows; metadata of creations |
| `index_broker_unique` (violation) | the same | see findings |
| `basket_trades` (430k) | matchers: 2 keys, 6 logs; baskets of generations 1, 3 and V14, the two packages' streams, a stranger, 2 bidders, 3 logs per block, 5 logs | every trade its own amounts, no router log spent twice, only ambiguous receipts given up; each trade and event counted once; auction and account rows |
| `nutbox_mining` (358k) | 2 NFTs in 2 batches, 2 baskets, 2 accounts that may own both, our and another factory, amounts and levels up to 2 and 1, 4 logs per block, 7 logs | weights, NFT and batch rows, pool totals, child totals and positions |
| `imports` (774k) | 2 tokens, 2 users, 2 venues, 2 calls, 3 items per block; 1 V2 token; 2 registries with 2 keys | amounts and sellsman of each call, market and registry rows |
| `releases` (318k) | first packages of 2 networks with binaries in either order and complete or incomplete templates; V11, V14 and import-V2 templates, cutover, hotfix, cursor to 4; handoff over 3 blocks with any output, 2 faults, fairness | modules unchanged, every log read once, all domains served, no gap; refinement of `OrderedFeed`; stores and tables agree; the handoff ends |

**Why the bounds are enough.** What can go wrong needs few actors: a contract
created and used in one block (2 logs), the same key twice in a block (2 more),
a second block to read what the first stored, one interloper contract. Every
instance has room for all of that in one block and for a further block;
`MaxLogs` is per block and `MaxHistory` over blocks. Two accounts make
self-transfers and both directions possible. The chain of `sql_sink` is long
enough for a revert over two blocks after a revert. In `sink` windows grow
twice, reach the ceiling, and survive into an environment with a smaller
ceiling and a larger base; the ceiling of one environment is exactly the largest
gap between outputs, that of another is one block short of it. Two forks let an
output vanish and come back, with a cursor that the wrapper refuses in between.
Amounts are small
because they are only added and compared. Symmetry is used over interchangeable contracts and accounts in runs
without liveness properties only.

**Deadlock.** Every configuration turns the deadlock check off: with bounded
histories a model stops when its bound is reached, and the chain itself may
stop at any block.

**Fairness** is assumed in two specifications. In `IncrementalSink!FairSinkSpec`: strong
fairness of `Launch` with the real head (the timer of
`deploy/tiptag-unified-incremental.timer` starts the oneshot unit again and
again, and the endpoint does not report a stale head every time), and of each
step of a run (`SinkCommit`, `SinkUndo`, `SinkDone`, `SaveWindow`). It is
strong because a run may be aborted between any two steps, which disables them:
what is assumed is that it is not aborted every time. Of a run that finds its
cursor behind (`RefuseBackwardsCursor`) weak fairness is enough: the script goes
on to its exit. Nothing in the script
gives more: a sink that always fails never advances. `Abort`, the operator and
the growth and forks of the chain have no fairness.
`NoStarvation` further supposes (as a condition, `GapsWithinCeiling`) that
no gap between outputs exceeds the ceiling. It is needed: `grow_window`
(`run-incremental-sink.sh:98-108`) stops at the ceiling and the start never
moves without a cursor, so a longer gap than `INCREMENTAL_MAX_BLOCKS_CEILING`
(1,600,000 by default) is repeated for ever. The runbook (lines 86-88), read
without the ceiling it names elsewhere, promises more.

In `MCReleases!ReleasesSpec`: weak fairness of each sink's `Start` (the units'
`Restart=always`, the timer) and `Process`, and of `FinishBackfill` (the
operator goes on when a backfill is done). Faults are bounded, so none can
recur for ever. `HandoffCompletes` then says that a backfill ends even if its
last blocks have no output, and that a continuation brings every domain up to
the last block.


## 4. Findings

**`index_broker_unique`.** A new IndexBroker account row takes `evt_ordinal` as
`entity_index` (`lib.rs:4448`), a number local to the block and equal for both
accounts of one event, in a column that `schema.sql:205` declares UNIQUE.

Beside it, an observation without a run: `merge_database_changes` sorts by
`ordinal` fields that count rows inside one writer (`DatabaseMerge!RowOrdinal`),
except for the V14 and import writers, which put log ordinals there. The
"canonical block ordinal order" of the comment at `lib.rs:5375-5377` is
therefore not what it produces. `walnut` shows that the status of a pool that two
writers set in one block comes out right all the same.


## 5. Proofs

TLAPS proves the following for every value of the constants that satisfies the
named assumptions (any number of accounts, blocks, packages, any outputs).

| Module | Theorem | States | Argument |
|---|---|---|---|
| `SinkProofs`, of `IncrementalSink` | `TypeCorrect`, `WindowsAreSafe` | `SinkTypeOK`, `WindowsSafe` (`LagRespected`, `WindowInBounds`, `SavedRangeExhausted`) | `SinkInv` adds two facts to the checked ones: the target of the run under way is out of the lag (`TargetBehindLag`), and a sink that returned has left nothing pending up to its target but in blocks replaced since (`DrainedWhenSunk`). One lemma per action; `ForkStep` shows that what a fork replaces it takes out of both scanned ranges; the window's arithmetic is in `EffectiveWindowBounds`, `GrowType`, `TargetBounds` |
| `SinkProofs`, of `SqlSink` | `RowsRestored`, `UndoNeverFails`, `HistoryReaches`, `Implements` | `RowsAreOfCursor`, `NeverConflicts`, `HistoryReachesLib`, `ImplementsTable` | `IInv` says that a record holds what its block did to its row (`RecordsFit`), that there is one per row and block (`OnePerRow`) and that a row without one did not change (`Untouched`); and of an open undo that the reverted records are newer than those left (`UndoInOrder`) and each row is back at the block they have reached (`RowsReverted`). So the newest record finds its row (`NewestFindsItsRow`) |
| `LedgerProofs`, of `IPShareLedger` | `TypeCorrect`, `CountsAlwaysMatch`, `SupplyAlwaysHeld`, `IndexesAlwaysFollow`, `CountedAlwaysJoined` | `TypeOK`, `CountsMatch`, `SupplyIsWhatIsHeld`, `IndexesFollowTheChain`, `CountedAccountsJoined` | `CountsMatch` speaks of finished blocks; `CountsInv` keeps it true inside one: committed counts plus the deltas so far agree with the stores' present balances (`PendingAgree`), and a row that no delta touched is its store's value. `HoldersOfStep` and `CountDeltaValue` relate one delta to the cardinality of the holders. `SupplyInv` says of the contract that a supply is the sum of the shares and a total the sum of the stakes, and that the last log of a subject in the block reports them; `IndexInv` that each event store has counted its kind's rows; `DeltasMentioned` that an account with a pending count is named by a log, so that `EndBlock` joins it |
| `LedgerProofs`, of `NutboxMining` | `WeightsAlwaysAgree`, `NftRowsAlwaysFollow`, `PoolTotalsAlwaysFollow` | `WeightsAgree`, `NftRowsFollow`, `PoolTotalsFollow` | the tables that the open block's logs make, taken one by one in their own order over the factory's rows (`NftPending`, `TvlPending`), are those of the contracts; so a step is compared with its own logs only, and sums and counts change by one NFT or one position (`WeightsMove`, `MintFollows`, `PayingTotals`, `StakeSums`). What the maps know is enough: a pool emits only after it was created and is announced once (`AfterCreation`, `AnnouncedOnce`, `ParentOnce`), so the factory's rows may come first, before a log that the chain has earlier; a child of ours is stored or its creation is of the block (`ChildrenKnown`), and nobody has a position in a child that does not exist (`NothingBefore`). The writer takes all of the parent's logs before any child's: `SameParents` and `SameChildren` divide the columns between the two, `ParentRowsAfterBlock` and `BasketRowsAfterBlock` show that its tables are those of the logs' own order. `PoolsCreated`: a block's factory events are what it adds to the pools known |
| `StoreProofs`, of `AccountRegistry` | `RegistryTypeCorrect`, `OnlyBackwards`, `JoinedFirst`, `IndexesAreIdentities`, `PreIndexesAreFinal` | `RegistryTypeOK`, `CountedTwiceOnlyBackwards`, `JoinedBeforeRegistered`, `IndexesIdentify`, `PreIndexIsFinal` | what the stores hold was registered in earlier blocks (`Earlier`), so a registration of this block is later than whatever made another store skip the account; the counter is the number of accounts counted (`CountsAgree`), a known account has joined, and no two deltas of a block are followed by equally many (`PlacesDiffer`), so the new rows take numbers of their own |
| `TokenMarketProofs` | `Invariance`, `RowsAlwaysFollowCurve`, `ListingAlwaysFollows`, `TradesAlwaysNumberedOnce`, `ComponentsAlwaysFollow` | `RowsFollowCurve`, `ListingFollows`, `TradesNumberedOnce`, `ComponentsFollow` | what the writers would make of each token's row if the block ended now is what its contracts have (`TokenPending`, `CountsPending`), so a step has to be compared with one more log only, and the end of a block only moves what is pending into the rows. The operators of the module are restated for any sequence of logs (`Views`), and lemmas say what one more log adds to each. `TradesPlaced` keeps the numbers of the two kinds of writers apart: counted ones up to the counter, additive ones between the first block and the open one. For `V14Components`, `ComponentsInv`: the logs that the readers take together are those that are no repetition and no stranger's (`ReadersAgree`), because a repeated log has the index of its first copy and a token emits only after its NewToken (`LogsPlaced`); what they add to each column is pending (`PairPending`, `BuybackPending`), and a taxed pair is known at each of its taxes (`TaxKnown`) |
| `WalnutProjectionProofs` | `Invariance`, `RowsAlwaysFollowContracts`, `OperationsAlwaysFollow`, `CountsAlwaysRowCounts` | `RowsFollowContracts`, `OperationsFollow`, `CountsAreRowCounts` | again what is pending is what the contracts have (`RowsPending`), and each operation of the open block is attributed to its actor (`Attributed`). For the status, `StatusAfterIs` proves that the merge decides rightly: it keeps every change at one place and changes of one ordinal in their order (`MergeIs`), one writer's changes of a pool share an ordinal (`LegacyChanges`), and what the V14 writer adds after them says CLOSED whenever the block closes the pool (`V14Changes`). For the operations, `OperationsNumbered` gives the factories' and the other logs of a block numbers of their own above the counter, `AdditiveIs` places the V14 ones inside their block's room, and `OperationsPlaced` keeps that over blocks; the rows of a block then add up with the old ones as disjoint sets (`RowsAdded`, `MembersAdded`) |
| `StoreProofs`, of `BackfillHandoff` | `Implements`, `StoresAlwaysFit` | `FeedsInOrder`, `StoresFitTables` | what each running sink has read is complete up to its position, and up to the block it would resume at after a crash (`RunningFed`); the same of the stopped database at the boundary (`WhileStopped`) and of the backup at its own cursor (`BackupFits`). The indexes of the rows are told apart by `Numbered`. Assumes for `StoresAlwaysFit` `FewerThanRebased`: fewer rows can be counted from 1 than the first rebased index, a million times its block |
| `StoreProofs`, of `PackageRelease` | `SwitchesAreSeamless`, `OnlyNamedChange` | `SwitchIsSeamless`, `OnlyNamedModulesChange` | every package assembled is well-formed (`IsPackage`), in particular a copied module finds its content at its remapped index, because the indexes used have places of their own (`PlacesAreOwn`, `AllBinariesFacts`). A package that keeps the modules and whose new sink reads the old one has all of the old upstream in its own (`UpstreamKept`). An assembler that binds its output makes it so; one that does not has the manifest's input, which is right only as the first release: `UnboundIsFirst`, from `UnboundAssumption` (every template has that output already, reading the first sink). Also assumes `PackagesAssumption` and `ProductionAssumption` (packages are well-formed, the sink has begun) |
| `StoreProofs`, of `FirstPackages` | `FirstPackagesAlwaysAgree` | `FirstPackagesAgree` | the packages in service are the old one, the two, or one that was made of the two and verified; when the Basket package is there, the old one's Basket maps are disabled (`FirstInv`, checked with TLC first). What serves then reads each log once, since verified modules have the same hash and so the same filter (`SameByHash`). Modules that are the same in two packages, with all they read, have the same hash (`HashSame`), which is so of copied ones (`UnifiedFacts`: binaries are found at their places) and, given the same imports, of imported ones. Assumes packages as their manifests make them: `NamesAssumption`, `LegacyAssumption` (old modules other than the output read no Basket module), `BasketAssumption` (a Basket package has only Basket modules, imports and its output, which reads them all), `TemplateAssumption` |
| `IndexBrokerProofs` | `RowsAlwaysFollowCreations`, `CreationsAlwaysDescribed` | `RowsFollowCreations`, `CreationsDescribed` | `StoresInv` says that the address stores, the counter and the account store are what the finished blocks of the chain say, `ChainInv` that an AMM is created once, so that the block's own creation and the store's never disagree. `PoolInBlock` then shows that the maps give a log the pool of its creation wherever the block began, and `EventNumbers` that its number is its rank in the chain. For a receipt (`ReceiptInv`), `PlaceOfCall` gives the pool log at place n the n-th standing call, and `MetaOfPool` that call's metadata while every call up to it can be decoded |
| `TradesProofs`, of `MCBasketTrades` | `LogsAlwaysMatched`, `RouterLogsAlwaysSpentOnce`, `TradesAlwaysCountedOnce`, `EventsAndAuctionAlwaysFollow` | `MatchesTruly`, `RouterLogsSpentOnce`, `TradesCountedOnce`, `EventsAndAuctionFollow` | of a receipt (`ReceiptInv`): the two logs of a trade have no log of their key between them (`PairsFit`), and a log without a pair is open or of a kind that comes alone. So the earliest later swap that is left is the fee's own, whatever was taken before (`TakenWell`, `TakenIsPartner`), and a fee and its swap have as many of their kind before them if the pool's logs are all paired (`MatchedIffPaired`); where fees are alone and no swap is, the fees are more (`UnmatchedWithLoneFees`). Of the domain (`DomainInv`): the rows and what the open block holds make what the contracts have; `StreamsDivide` says that in each package one stream has each generation's hook, some stream its executor, and the stream that takes the tokens' events all registrations; `AuctionAfterLog` that the auction's row moves by a log as the auction does |
| `TradesProofs`, of `ImportedMarkets` | `ImportedTradesAlwaysExact`, `SellsmanAlwaysAttributed`, `MarketsAlwaysFollow` | `TradesExact`, `SellsmanAttributed`, `MarketsFollow` | a column shows the last announcement that sets it (`Follows`); it goes on doing so over a block because the last position of the two parts of the chain is that of the second, if it has one (`LastOfBoth`, `FollowsOn`). Of the first wrapper (`V1Inv`): the receipts of a block are its own (`ReceiptsFit`), so that no later block adds a call beside an old one (`OldRowStays`); a call that failed has left nothing, so that sums and places in the receipt find the call's own amounts where no other call is in doubt (`CallAmounts`); the deployer at an ordinal is the last registered before it (`DeployerAtIs`), and `has_first` knows just the subjects of earlier blocks (`SellsmanIs`). Of the second (`V2Inv`): a community of the new helper comes behind the log of its pool (`V2Fits`), and a block's indexes stay below the next block's (`V2Traded`). Of the registries, that a slot's rows and its pending logs make the contract's entry (`RegistryPending`) |

An invariant that TLC checks is seldom inductive: that rows are those of the
cursor (`RowsAreOfCursor`), for one, says nothing of the records that will have
to restore an earlier block; and that the rows are the contracts' state between
blocks says nothing of a block that is half full. Each `IInv` was checked with
TLC before its proof, and contains its module's types.

`FiniteFacts` has what the proofs need of the community modules' folds over
finite sets: `SumFunctionOnSet` adds one element at a time, in any order, and
does not depend on how an element is chosen (`SumElement`, `SumChange`); `Max`
is the greatest member; elements ranked by nested sets have ranks of their own
(`Ranking`). A fold is defined by CHOOSE over a recursive equation, and so is a
function that recurs along the places of a sequence (`TakenUpTo`,
`AuctionAfter`, `MarketAfter`, `RowAfter`, `RowsAfter`). That such an equation
has a solution, and one only, is proved by least counterexample (`LeastNumber`, `LeastSubset`, `StepsExist`), from the
well-founded orders of the library, as the library's induction theorems cannot
be instantiated.

**Only model-checked**: liveness (`NoStarvation`, `HandoffCompletes`), which with
fairness and ENABLED is out of the prover's reach. So is what a fold over
sequences or a sort of the community modules computes: `MergeDatabaseChanges` is
therefore written by places, and the proof about `RowOrdinal` uses only that it
is a number. No module declares a RECURSIVE operator: closures are smallest
closed sets.


## 6. Assumptions and abstractions

- *Substreams stores* apply operations by ordinal, give one delta per operation
  and read as described in section 2; *Tables* keep one row per (table, key),
  number rows as they are first touched, and merge set and add.
- *SQL sink*: one transaction per block for rows, records and cursor; resumes
  behind the cursor; the stop block is exclusive; records of final blocks are
  not kept (`docs/MIGRATION_PLAN.md`).
- *IPShare*: Stake's staked amount and Trade's supply are the subject's totals
  after the event. *Curation and staking pools*: amounts are positive.
- *Baskets*: a basket is traded by the hook of one generation, and the contract
  besides is no basket (`TradesAssumption`).
- *IndexBroker factory*: its CreatePool calls do not nest, so that logs come in
  the order of calls.
- *Handoff*: every block is taken as final; forks are the subject of `sink` and
  `sql_sink`.
- *Walnut*: `WalnutProjection` has the logs of announced communities and pools
  only. That `map_walnut_events` accepts exactly those (lib.rs 2633-2646, by the
  store or by the block's own announcements) is assumed; a stranger's logs and
  the acceptance rule are not exercised, as they are in `IndexBroker` and
  `TokenMarket`.
- *Packages*: every later template carries V11's modules and reads
  production's sink as `db_out`.
- Hashes, hex and JSON are not modelled. Integers are unbounded, as `BigInt`
  is; `additive_entity_index` (block * 1000000 + log index) identifies a log while a
  block has fewer than a million logs, which is assumed (`MaxLogs < IndexRoom`); the second
  import domain numbers its trades likewise (`BlockRange` bounds a block's logs).
  No counter reaches the additive indexes: the modules' `initialBlock` in
  `substreams.yaml` is above 83 million, so the first of them is above 83
  trillion, more than the chain has logs (`MaxHistory <= FirstBlock * IndexRoom`).
- *V14 addresses*: no token has the address of the Pump or of the hook, and
  there is a constituent for an index to have (`ComponentsAssumption`).
- *Zero address*: no owner, pool or community has it; in `WalnutProjection` it
  is `None`, which also stands for "no row" and is none of the states' names.
- Columns that copy a field of a log (names, timestamps, transaction hashes)
  are left out; columns that are added to, set by two writers, or derived from
  state are what the models keep.


## 7. Not modelled

- *Rows that copy one log*: the event tables (`v11_protocol_events`,
  `v14_events`, `import_v2_events` beyond their keys, NFT and basket event
  rows), Pump's configuration events, IndexBroker's factory configuration and
  mint rows, V14's optional pools, period settlements, constituents and router
  rows. They have no state to go wrong; their tests compare them field by field.
- *`set_sink_module.rs`*: sets one field of a package.
- *NFT pool's platform-fee total and funds receiver, child pools' harvest totals
  and lock data, basket launch salts, token holders' refresh rows.*
- *Prices* (`rh_price`, `exp` in floating point): a price is a function of the
  supply in `TokenMarket`.
- *Graph output* (`graph_out`, lib.rs 3112-3158): a schema-less copy of a few
  fields.
- *SQL migrations, reconciliation, audits*: one-off comparisons and alterations
  of a whole database; no state machine of their own.
- *Generated code* (`src/abi`, `src/pb`) and decoding. It is 58,000 of the
  repository's 68,000 lines of code, which bounds the share that models can
  cover: of `lib.rs` without its tests they cover about four lines in five.


## 8. Plan

Done: survey; driver, sink, ledgers, discovery, pairing, merge, domains,
packages; imported markets, V11 registries, V14 components, first packages,
handoff; proofs of the driver, the SQL sink, the ledger, the registry, the
market, the V14 components, the communities, the handoff, the brokers, the
receipts, the baskets, the imported markets and the mining pools.

Next, in this order:

1. A composition of `IncrementalSink` with `SqlSink`'s promise, so that undo
   during a bounded run is one behaviour of both.
2. The rows of section 7 that add to columns (harvest totals, platform fees).

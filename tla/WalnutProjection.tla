--------------------------- MODULE WalnutProjection ---------------------------
(***************************************************************************)
(* Walnut communities and their pools.  The legacy writer (legacy_db_out)  *)
(* handles communities, staking, locking and social pools, ownership,      *)
(* funds, ratios and operations; the V14 writer handles the trade curation *)
(* pools, which belong to the same communities and write to the same rows. *)
(* Both read the owners store at the ordinal of their log; the sink gets   *)
(* the merge of their changes.                                             *)
(***************************************************************************)
EXTENDS DatabaseMerge, FiniteSetsExt, Functions

CONSTANTS
    Communities,
    LegacyPools,    \* pools that the legacy factories may create
    CurationPools,  \* pools that the V14 factory may create
    Users,
    EarlierRows,    \* how many rows of other domains the legacy writer may touch first
    None,           \* the zero address; also "no such row"
    FirstBlock,     \* initialBlock of the writers' modules
    MaxLogs,        \* bound on the logs of a block
    MaxHistory      \* bound on the logs of the chain

\* How many additive indexes a block has.
IndexRoom == 1000000

PoolFactories == {"ERC20_STAKING_CREATED", "ERC20_LOCKING_CREATED", "SOCIAL_CURATION_CREATED"}
FactoryKinds == {"COMMUNITY_CREATED"} \cup PoolFactories
StakeKinds == {"DEPOSIT", "LOCK"}
UnstakeKinds == {"WITHDRAW", "UNLOCK"}
AdminKinds == {"ADMINSETFEE", "ADMINSETRATIO", "ADMINSETDAOFUND", "ADMINWITHDRAWNREVENUE",
               "ADMINCLOSEPOOL"}
DynamicKinds == {"OWNERSHIP_TRANSFERRED", "POOL_UPDATED", "REDEEM", "SOCIALCLAIM", "HARVEST"}
                    \cup StakeKinds \cup UnstakeKinds \cup AdminKinds
V14Kinds == {"TradeCurationCreated", "TradeClaimed"}

(***************************************************************************)
(* A block has fewer logs than an additive index has room for, and the     *)
(* chain starts at a block whose number (83 million in substreams.yaml)    *)
(* times that room is more than the chain has logs, so that no counter     *)
(* runs into the additive indexes.                                         *)
(***************************************************************************)
ASSUME WalnutAssumption ==
    /\ LegacyPools \cap CurationPools = {}
    /\ IsFiniteSet(Communities \cup LegacyPools \cup CurationPools \cup Users)
    /\ None \notin Communities \cup LegacyPools \cup CurationPools \cup Users
    /\ None \notin PoolFactories \cup {"OPENED", "CLOSED"}
    /\ EarlierRows \subseteq Nat
    /\ FirstBlock \in Nat /\ MaxLogs \in Nat /\ MaxHistory \in Nat
    /\ MaxLogs < IndexRoom /\ MaxHistory <= FirstBlock * IndexRoom

VARIABLES
    owner,        \* the contracts: owner of each community, None before creation,
    home,         \*   community of each pool, None before creation,
    origin,       \*   the kind of log that announced it,
    fund,         \*   DAO fund of each community,
    fee,          \*   its fee ratio, 0 or 1,
    retained,     \*   revenue that it has not been paid yet,
    listed,       \*   pools of its last list of ratios, with one ratio each,
    closed,       \*   pools that were closed,
    staked,       \*   what is staked in each pool by each user
    logs,         \* the open block
    history,      \* the logs of the committed blocks
    owners,       \* store_walnut_owners at the start of the open block
    memberships,  \* store_walnut_memberships, likewise
    operations,   \* store_walnut_indexes, "walnut_op", likewise
    block,        \* number of the open block
    db            \* the committed walnut_* and accounts rows

pools == <<home, origin, closed, staked>>
dao == <<fund, fee, retained, listed>>
contracts == <<owner, pools, dao>>
stores == <<owners, memberships, operations>>
vars == <<contracts, logs, history, stores, block, db>>

Pools == LegacyPools \cup CurationPools

\* A log has a kind, community, pool and account; "previous" is the owner
\* before the log, "actor" who is then the owner.

Init ==
    /\ owner = [c \in Communities |-> None]
    /\ home = [p \in Pools |-> None]
    /\ origin = [p \in Pools |-> None]
    /\ fund = [c \in Communities |-> None]
    /\ fee = [c \in Communities |-> 0]
    /\ retained = [c \in Communities |-> 0]
    /\ listed = [c \in Communities |-> <<>>]
    /\ closed = {}
    /\ staked = [k \in Pools \X Users |-> 0]
    /\ logs = <<>> /\ history = <<>>
    /\ owners = [c \in Communities |-> None]
    /\ memberships = {}
    /\ operations = 0
    /\ block = FirstBlock
    /\ db = [owner |-> [c \in Communities |-> None],
             pools_count |-> [c \in Communities |-> 0],
             users_count |-> [c \in Communities |-> 0],
             operation_count |-> [c \in Communities |-> 0],
             walnut_operation_count |-> [u \in Users |-> 0],
             dao_fund |-> [c \in Communities |-> None],
             fee_ratio |-> [c \in Communities |-> 0],
             distributed_c_token |-> [c \in Communities |-> 0],
             retained_revenue |-> [c \in Communities |-> 0],
             active_pool_count |-> [c \in Communities |-> 0],
             status |-> [p \in Pools |-> None],
             pool_index |-> [p \in Pools |-> 0],
             total_amount |-> [p \in Pools |-> 0],
             stakers_count |-> [p \in Pools |-> 0],
             total_claimed |-> [p \in Pools |-> 0],
             trade_members |-> {},
             members |-> {}, operations |-> {}]

-----------------------------------------------------------------------------
(***************************************************************************)
(* The contracts.  A community announces its first owner in its            *)
(* constructor, before the factory announces the community.                *)
(***************************************************************************)
Emit(new) ==
    /\ Len(logs \o new) <= MaxLogs
    /\ Len(history \o logs \o new) <= MaxHistory
    /\ logs' = logs \o new
    /\ UNCHANGED <<history, stores, block, db>>

LogOf(kind, c, p, account, previous, actor) ==
    [kind |-> kind, community |-> c, pool |-> p, account |-> account,
     previous |-> previous, actor |-> actor, pools |-> <<>>, ratio |-> 0]

AdminLog(kind, c, p, account) == LogOf(kind, c, p, account, None, owner[c])
UserLog(kind, p, u) == LogOf(kind, home[p], p, u, None, u)

CreateCommunity(c, u) ==
    /\ owner[c] = None
    /\ owner' = [owner EXCEPT ![c] = u]
    /\ fund' = [fund EXCEPT ![c] = u]
    /\ Emit(<<LogOf("OWNERSHIP_TRANSFERRED", c, None, u, None, u),
              LogOf("COMMUNITY_CREATED", c, None, u, None, u)>>)
    /\ UNCHANGED <<pools, fee, retained, listed>>

TransferOwnership(c, u) ==
    /\ owner[c] \notin {None, u}
    /\ owner' = [owner EXCEPT ![c] = u]
    /\ Emit(<<LogOf("OWNERSHIP_TRANSFERRED", c, None, u, owner[c], u)>>)
    /\ UNCHANGED <<pools, dao>>

CreatePool(kind, c, p) ==
    /\ owner[c] # None /\ home[p] = None
    /\ home' = [home EXCEPT ![p] = c]
    /\ origin' = [origin EXCEPT ![p] = kind]
    /\ Emit(<<LogOf(kind, c, p, owner[c], None, owner[c])>>)
    /\ UNCHANGED <<owner, closed, staked, dao>>

ClosePool(p) ==
    /\ home[p] # None /\ p \notin closed
    /\ closed' = closed \cup {p}
    /\ Emit(<<AdminLog("ADMINCLOSEPOOL", home[p], p, owner[home[p]])>>)
    /\ UNCHANGED <<owner, home, origin, staked, dao>>

\* The owner lists the open pools, in some order, with their ratios.
SetRatios(c) ==
    /\ owner[c] # None
    /\ \E list \in SetToSeqs({p \in Pools : home[p] = c /\ p \notin closed}) :
          /\ list # listed[c]
          /\ listed' = [listed EXCEPT ![c] = list]
          /\ Emit(<<[AdminLog("ADMINSETRATIO", c, None, None) EXCEPT !.pools = list]>>)
    /\ UNCHANGED <<owner, pools, fund, fee, retained>>

SetFee(c) ==
    /\ owner[c] # None
    /\ fee' = [fee EXCEPT ![c] = 1 - @]
    /\ Emit(<<[AdminLog("ADMINSETFEE", c, None, None) EXCEPT !.ratio = 1 - fee[c]]>>)
    /\ UNCHANGED <<owner, pools, fund, retained, listed>>

SetFund(c, u) ==
    /\ owner[c] # None /\ fund[c] # u
    /\ fund' = [fund EXCEPT ![c] = u]
    /\ Emit(<<AdminLog("ADMINSETDAOFUND", c, None, u)>>)
    /\ UNCHANGED <<owner, pools, fee, retained, listed>>

\* Pools bring revenue, which is paid to the fund.
Earn(c) ==
    /\ owner[c] # None
    /\ retained' = [retained EXCEPT ![c] = @ + 1]
    /\ Emit(<<LogOf("POOL_UPDATED", c, None, None, None, None)>>)
    /\ UNCHANGED <<owner, pools, fund, fee, listed>>

PayRevenue(c) ==
    /\ retained[c] > 0
    /\ retained' = [retained EXCEPT ![c] = @ - 1]
    /\ Emit(<<AdminLog("ADMINWITHDRAWNREVENUE", c, None, fund[c])>>)
    /\ UNCHANGED <<owner, pools, fund, fee, listed>>

StakesIn(p) == origin[p] \in {"ERC20_STAKING_CREATED", "ERC20_LOCKING_CREATED"}

Deposit(p, u) ==
    /\ StakesIn(p) /\ p \notin closed
    /\ staked' = [staked EXCEPT ![<<p, u>>] = @ + 1]
    /\ Emit(<<UserLog(IF origin[p] = "ERC20_STAKING_CREATED" THEN "DEPOSIT" ELSE "LOCK", p, u)>>)
    /\ UNCHANGED <<owner, home, origin, closed, dao>>

Withdraw(p, u) ==
    /\ staked[<<p, u>>] > 0
    /\ staked' = [staked EXCEPT ![<<p, u>>] = @ - 1]
    /\ Emit(<<UserLog(IF origin[p] = "ERC20_STAKING_CREATED" THEN "WITHDRAW" ELSE "UNLOCK", p, u)>>)
    /\ UNCHANGED <<owner, home, origin, closed, dao>>

\* Claims that leave the stake alone: what was unlocked, a reward for a post,
\* the rewards of a pool, a reward for a trade.
Claim(kind, p, u) ==
    /\ CASE kind = "REDEEM"       -> \E l \in Range(history \o logs) :
                                        l.kind = "UNLOCK" /\ l.pool = p /\ l.account = u
         [] kind = "SOCIALCLAIM"  -> origin[p] = "SOCIAL_CURATION_CREATED"
         [] kind = "HARVEST"      -> StakesIn(p) /\ staked[<<p, u>>] > 0
         [] kind = "TradeClaimed" -> origin[p] = "TradeCurationCreated"
    /\ Emit(<<UserLog(kind, p, u)>>)
    /\ UNCHANGED contracts

-----------------------------------------------------------------------------
Of(kinds) == {n \in DOMAIN logs : logs[n].kind \in kinds}

\* Mutant: the last value of the block.
OwnerAtLast(n, c) ==
    LET sets == {m \in Of({"COMMUNITY_CREATED", "OWNERSHIP_TRANSFERRED"}) : logs[m].community = c}
    IN  IF sets = {} THEN owners[c] ELSE logs[Max(sets)].account

\* store_walnut_owners.get_at(ordinal, community).
OwnerAt(n, c) ==
    LET sets == {m \in Of({"COMMUNITY_CREATED", "OWNERSHIP_TRANSFERRED"}) :
                    m <= n /\ logs[m].community = c}
    IN  IF sets = {} THEN owners[c] ELSE logs[Max(sets)].account

\* Mutant: a new owner does not become a user.
MembershipKeysNoTransfer ==
    {<<"community", logs[n].community, logs[n].account>> :
        n \in Of({"COMMUNITY_CREATED", "SOCIALCLAIM"} \cup StakeKinds)}
    \cup {<<"pool", logs[n].pool, logs[n].account>> : n \in Of({"SOCIALCLAIM"} \cup StakeKinds)}
    \cup {<<"staker", logs[n].pool, logs[n].account>> : n \in Of(StakeKinds)}

\* The keys that store_walnut_memberships sets, those it has included.
UserKinds == {"COMMUNITY_CREATED", "SOCIALCLAIM", "OWNERSHIP_TRANSFERRED"} \cup StakeKinds
MembershipKeys ==
    {<<"community", logs[n].community, logs[n].account>> :
        n \in {m \in Of(UserKinds) :
                 logs[m].kind = "OWNERSHIP_TRANSFERRED" => logs[m].previous # None}}
    \cup {<<"pool", logs[n].pool, logs[n].account>> : n \in Of({"SOCIALCLAIM"} \cup StakeKinds)}
    \cup {<<"staker", logs[n].pool, logs[n].account>> : n \in Of(StakeKinds)}

\* Mutant: set instead of set_if_not_exists.
MembershipDeltasOfSet == MembershipKeys

\* set_if_not_exists has a delta for a new key only.
MembershipDeltas == MembershipKeys \ memberships

\* The legacy logs with an operation row, in the order they are numbered:
\* those of the factories, then the others.
Operations(kinds) == Of(kinds) \ Of({"OWNERSHIP_TRANSFERRED", "POOL_UPDATED"} \cup V14Kinds)
LegacyOperations == Operations(FactoryKinds \cup DynamicKinds)

\* Mutant: factory and dynamic operations are numbered from one start.
OperationIndexRestarts(n) ==
    LET kinds == IF logs[n].kind \in FactoryKinds THEN FactoryKinds ELSE DynamicKinds
    IN  operations + Cardinality({m \in Operations(kinds) : m <= n})

\* next_operation_index: get_last less the block's operations, and so on.
OperationIndex(n) ==
    IF logs[n].kind \in FactoryKinds
    THEN operations + Cardinality({m \in Operations(FactoryKinds) : m <= n})
    ELSE operations + Cardinality(Operations(FactoryKinds))
                    + Cardinality({m \in Operations(DynamicKinds) : m <= n})

\* additive_entity_index of V14 rows.
AdditiveIndex(n) == block * IndexRoom + n

\* Who an operation is attributed to.  A staking pool is created for the
\* owner at its log, as a curation pool is by enrich_community_metadata.
OperationAccount(n) ==
    IF logs[n].kind \in PoolFactories \cup AdminKinds \cup {"TradeCurationCreated"}
    THEN OwnerAt(n, logs[n].community)
    ELSE logs[n].account

OperationRow(n) ==
    [entity_index |-> IF logs[n].kind \in V14Kinds THEN AdditiveIndex(n) ELSE OperationIndex(n),
     log |-> Len(history) + n,
     account |-> OperationAccount(n)]

WithOperation == LegacyOperations \cup Of(V14Kinds)

-----------------------------------------------------------------------------
(***************************************************************************)
(* The status of a pool is set by both writers, so that the order of the   *)
(* merged changes decides.                                                 *)
(***************************************************************************)

\* The rows the legacy writer touches for a log, in its order.
RowsTouchedBy(n) ==
    LET l == logs[n]
        operation == <<<<"operation", n>>, <<"community", l.community>>>>
        account == <<"account", OperationAccount(n)>>
        community == <<"community", l.community>>
        pool == <<"pool", l.pool>>
    IN  CASE l.kind = "COMMUNITY_CREATED" ->
               <<account, community, <<"summary", None>>>> \o operation
          [] l.kind \in PoolFactories ->
               <<pool, community, <<"summary", None>>, account>> \o operation
          [] l.kind = "OWNERSHIP_TRANSFERRED" ->
               IF l.previous = None THEN <<>> ELSE <<community>>
          [] l.kind = "POOL_UPDATED" -> <<community>>
          [] l.kind = "ADMINSETRATIO" ->
               <<community>> \o [i \in DOMAIN l.pools |-> <<"pool", l.pools[i]>>]
                             \o <<account>> \o operation
          [] l.kind \in {"ADMINSETFEE", "ADMINSETDAOFUND", "ADMINWITHDRAWNREVENUE", "HARVEST"} ->
               <<community, account>> \o operation
          [] l.kind \in {"REDEEM", "SOCIALCLAIM"} -> <<account>> \o operation
          [] OTHER -> <<pool, account>> \o operation

InRowOrder(kinds) == LET order == InOrder(Of(kinds)) IN [i \in DOMAIN order |-> RowsTouchedBy(order[i])]

LegacyRows == FlattenSeq(InRowOrder(FactoryKinds) \o InRowOrder(DynamicKinds))

\* Mutant: closedInBlock is not set.
CurationStatusOpened(p) == "OPENED"

\* enrich_community_metadata: closedInBlock.
CurationStatus(p) ==
    IF \E n \in Of({"ADMINCLOSEPOOL"}) : logs[n].pool = p THEN "CLOSED" ELSE "OPENED"

StatusChange(n, status, ordinal) ==
    [pool |-> logs[n].pool, status |-> status, ordinal |-> ordinal, log |-> n]

\* The status that a legacy row is left with: the close follows the creation.
LegacyStatusChanges(earlier) ==
    LET order == InOrder(Of(PoolFactories \cup {"ADMINCLOSEPOOL"}))
        StatusOf(n) == IF logs[n].kind = "ADMINCLOSEPOOL" THEN "CLOSED" ELSE "OPENED"
        OrdinalOf(n) == earlier + RowOrdinal(LegacyRows, <<"pool", logs[n].pool>>)
    IN  [i \in DOMAIN order |-> StatusChange(order[i], StatusOf(order[i]), OrdinalOf(order[i]))]

V14StatusChanges ==
    LET order == InOrder(Of({"TradeCurationCreated"}))
    IN  [i \in DOMAIN order |-> StatusChange(order[i], CurationStatus(logs[order[i]].pool), order[i])]

\* v14_continuation_db_out, and the sink's application in that order.
StatusChanges(earlier) ==
    MergeDatabaseChanges(<<LegacyStatusChanges(earlier), V14StatusChanges>>)

StatusAfter(p, earlier) ==
    LET own == {i \in DOMAIN StatusChanges(earlier) : StatusChanges(earlier)[i].pool = p}
    IN  IF own = {} THEN db.status[p] ELSE StatusChanges(earlier)[Max(own)].status

\* The owner that a community row is left with: COMMUNITY_CREATED is written
\* before any transfer, and the first transfer, from nobody, is not.
OwnerAfter(c) ==
    LET transfers == {n \in Of({"OWNERSHIP_TRANSFERRED"}) :
                         logs[n].community = c /\ logs[n].previous # None}
        creations == {n \in Of({"COMMUNITY_CREATED"}) : logs[n].community = c}
    IN  IF transfers # {} THEN logs[Max(transfers)].account
        ELSE IF creations # {} THEN logs[Max(creations)].account ELSE db.owner[c]

\* The fund: the creator at first, then what ADMINSETDAOFUND says.
FundAfter(c) ==
    LET sets == {n \in Of({"COMMUNITY_CREATED", "ADMINSETDAOFUND"}) : logs[n].community = c}
    IN  IF sets = {} THEN db.dao_fund[c] ELSE logs[Max(sets)].account

FeeAfter(c) ==
    LET sets == {n \in Of({"ADMINSETFEE"}) : logs[n].community = c}
    IN  IF sets = {} THEN db.fee_ratio[c] ELSE logs[Max(sets)].ratio

\* The lists of ratios: pools keep what the last list with them says.
Lists(c) == {n \in Of({"ADMINSETRATIO"}) : logs[n].community = c}
ListedIndex(p) ==
    LET lists == {n \in Of({"ADMINSETRATIO"}) : p \in Range(logs[n].pools)}
    IN  IF lists = {} THEN db.pool_index[p]
        ELSE CHOOSE i \in DOMAIN logs[Max(lists)].pools : logs[Max(lists)].pools[i] = p

Count(kind, c) == Cardinality({n \in Of({kind}) : logs[n].community = c})

EndBlock(earlier) ==
    /\ logs # <<>>
    /\ db' = [owner |-> [c \in Communities |-> OwnerAfter(c)],
              pools_count |-> [c \in Communities |-> db.pools_count[c] +
                  Cardinality({n \in Of(PoolFactories \cup {"TradeCurationCreated"}) :
                                  logs[n].community = c})],
              users_count |-> [c \in Communities |-> db.users_count[c] +
                  Cardinality({k \in MembershipDeltas : k[1] = "community" /\ k[2] = c})],
              dao_fund |-> [c \in Communities |-> FundAfter(c)],
              fee_ratio |-> [c \in Communities |-> FeeAfter(c)],
              distributed_c_token |-> [c \in Communities |->
                  db.distributed_c_token[c] + Count("HARVEST", c)],
              retained_revenue |-> [c \in Communities |->
                  db.retained_revenue[c] + Count("POOL_UPDATED", c)
                                         - Count("ADMINWITHDRAWNREVENUE", c)],
              active_pool_count |-> [c \in Communities |->
                  IF Lists(c) = {} THEN db.active_pool_count[c]
                                   ELSE Len(logs[Max(Lists(c))].pools)],
              pool_index |-> [p \in Pools |-> ListedIndex(p)],
              operation_count |-> [c \in Communities |-> db.operation_count[c] +
                  Cardinality({n \in WithOperation : logs[n].community = c})],
              walnut_operation_count |-> [u \in Users |-> db.walnut_operation_count[u] +
                  Cardinality({n \in WithOperation : OperationAccount(n) = u})],
              status |-> [p \in Pools |-> StatusAfter(p, earlier)],
              total_amount |-> [p \in Pools |-> db.total_amount[p]
                  + Cardinality({n \in Of(StakeKinds) : logs[n].pool = p})
                  - Cardinality({n \in Of(UnstakeKinds) : logs[n].pool = p})],
              stakers_count |-> [p \in Pools |-> db.stakers_count[p] +
                  Cardinality({k \in MembershipDeltas : k[1] = "staker" /\ k[2] = p})],
              total_claimed |-> [p \in Pools |-> db.total_claimed[p] +
                  Cardinality({n \in Of({"TradeClaimed"}) : logs[n].pool = p})],
              members |-> db.members \cup MembershipDeltas,
              trade_members |-> db.trade_members \cup
                  {<<logs[n].pool, logs[n].account>> : n \in Of({"TradeClaimed"})},
              operations |-> db.operations \cup {OperationRow(n) : n \in WithOperation}]
    /\ owners' = [c \in Communities |-> OwnerAt(Len(logs), c)]
    /\ memberships' = memberships \cup MembershipKeys
    /\ operations' = operations + Cardinality(LegacyOperations)
    /\ history' = history \o logs
    /\ logs' = <<>>
    /\ block' = block + 1
    /\ UNCHANGED contracts

Next ==
    \/ \E c \in Communities, u \in Users : CreateCommunity(c, u)
    \/ \E c \in Communities, u \in Users : TransferOwnership(c, u)
    \/ \E c \in Communities, p \in LegacyPools, kind \in PoolFactories : CreatePool(kind, c, p)
    \/ \E c \in Communities, p \in CurationPools : CreatePool("TradeCurationCreated", c, p)
    \/ \E p \in Pools : ClosePool(p)
    \/ \E c \in Communities : SetRatios(c) \/ SetFee(c)
    \/ \E c \in Communities, u \in Users : SetFund(c, u)
    \/ \E c \in Communities : Earn(c) \/ PayRevenue(c)
    \/ \E p \in LegacyPools, u \in Users : Deposit(p, u)
    \/ \E p \in LegacyPools, u \in Users : Withdraw(p, u)
    \/ \E p \in Pools, u \in Users, kind \in {"REDEEM", "SOCIALCLAIM", "HARVEST", "TradeClaimed"} :
          Claim(kind, p, u)
    \/ \E earlier \in EarlierRows : EndBlock(earlier)

Spec == Init /\ [][Next]_vars

-----------------------------------------------------------------------------
(***************************************************************************)
(* Between blocks the rows say of every pool and community what the        *)
(* contracts say, also when a pool is created by one writer and closed or  *)
(* listed by the other within a block, and when a community changes hands  *)
(* in it; and whoever owns a community or stakes in a pool of it is a      *)
(* member.                                                                 *)
(***************************************************************************)
RowsFollowContracts ==
    logs = <<>> =>
        /\ db.owner = owner /\ db.dao_fund = fund /\ db.fee_ratio = fee
        /\ db.retained_revenue = retained
        /\ \A p \in Pools :
              /\ db.status[p] = IF home[p] = None THEN None
                                ELSE IF p \in closed THEN "CLOSED" ELSE "OPENED"
              /\ db.total_amount[p] = SumFunctionOnSet([u \in Users |-> staked[<<p, u>>]], Users)
        /\ \A c \in Communities :
              /\ db.active_pool_count[c] = Len(listed[c])
              /\ \A i \in DOMAIN listed[c] : db.pool_index[listed[c][i]] = i
              /\ owner[c] # None => <<"community", c, owner[c]>> \in db.members
        /\ \A p \in Pools, u \in Users : staked[<<p, u>>] > 0 =>
              {<<"staker", p, u>>, <<"pool", p, u>>, <<"community", home[p], u>>} \subseteq db.members

(***************************************************************************)
(* Every operation is attributed to who could perform it when its log was  *)
(* emitted: for administration, the owner at that moment.  No two share an *)
(* entity_index (a UNIQUE column), and those of the legacy writer are      *)
(* numbered without gaps, although it numbers the factories' before the    *)
(* others.                                                                 *)
(***************************************************************************)
OperationsFollow ==
    /\ \A row \in db.operations : row.account = history[row.log].actor
    /\ \A r, s \in db.operations : r # s => r.entity_index # s.entity_index
    /\ LET legacy == {r \in db.operations : history[r.log].kind \notin V14Kinds}
       IN  {r.entity_index : r \in legacy} = 1..Cardinality(legacy)

(***************************************************************************)
(* The counts on community, pool and account rows are the numbers of       *)
(* membership and operation rows, whichever writer added them, and what it *)
(* has distributed is what its harvests claimed.                           *)
(***************************************************************************)
CountsAreRowCounts ==
    /\ \A c \in Communities :
          /\ db.users_count[c] =
                Cardinality({k \in db.members : k[1] = "community" /\ k[2] = c})
          /\ db.operation_count[c] =
                Cardinality({r \in db.operations : history[r.log].community = c})
          /\ db.distributed_c_token[c] =
                Cardinality({r \in db.operations : history[r.log].community = c
                                                 /\ history[r.log].kind = "HARVEST"})
    /\ \A p \in Pools :
          db.stakers_count[p] = Cardinality({k \in db.members : k[1] = "staker" /\ k[2] = p})
    /\ \A u \in Users :
          db.walnut_operation_count[u] = Cardinality({r \in db.operations : r.account = u})
=============================================================================

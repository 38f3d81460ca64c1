----------------------- MODULE WalnutProjectionProofs -----------------------
(***************************************************************************)
(* The invariants of WalnutProjection for any finite sets of communities,  *)
(* pools and users, and blocks of every length below a million logs.       *)
(***************************************************************************)
EXTENDS WalnutProjection, FiniteFacts, SequenceTheorems

LogKinds == FactoryKinds \cup DynamicKinds \cup V14Kinds

OwnerKinds == {"COMMUNITY_CREATED", "OWNERSHIP_TRANSFERRED"}
CreationKinds == PoolFactories \cup {"TradeCurationCreated"}
StatusKinds == CreationKinds \cup {"ADMINCLOSEPOOL"}
AccountOfOwner == PoolFactories \cup AdminKinds \cup {"TradeCurationCreated"}

Log == [kind : LogKinds, community : Communities \cup {None}, pool : Pools \cup {None},
        account : Users \cup {None}, previous : Users \cup {None}, actor : Users \cup {None},
        pools : Seq(Pools), ratio : {0, 1}]

ContractsType ==
    /\ owner \in [Communities -> Users \cup {None}]
    /\ home \in [Pools -> Communities \cup {None}]
    /\ fund \in [Communities -> Users \cup {None}]
    /\ fee \in [Communities -> {0, 1}]
    /\ retained \in [Communities -> Nat]
    /\ listed \in [Communities -> Seq(Pools)]
    /\ closed \subseteq Pools
    /\ staked \in [Pools \X Users -> Nat]

StoresType ==
    /\ logs \in Seq(Log) /\ history \in Seq(Log)
    /\ Len(logs) <= MaxLogs /\ Len(history) + Len(logs) <= MaxHistory
    /\ owners \in [Communities -> Users \cup {None}]
    /\ memberships = db.members /\ IsFiniteSet(memberships)
    /\ operations \in Nat
    /\ block \in Nat /\ block >= FirstBlock

RowsType ==
    /\ db.owner \in [Communities -> Users \cup {None}]
    /\ db.dao_fund \in [Communities -> Users \cup {None}]
    /\ db.fee_ratio \in [Communities -> {0, 1}]
    /\ db.retained_revenue \in [Communities -> Int]
    /\ db.total_amount \in [Pools -> Int]

TypeInv == ContractsType /\ StoresType /\ RowsType

-----------------------------------------------------------------------------
\* A pool has its home as soon as it is announced, and nothing happens to it
\* before; lists name each pool of their community at most once.
Injective(list) == \A i, j \in DOMAIN list : list[i] = list[j] => i = j

ContractsInv ==
    /\ \A p \in Pools : home[p] = None => origin[p] = None /\ p \notin closed
    /\ \A p \in Pools, u \in Users : home[p] = None => staked[<<p, u>>] = 0
    /\ \A c \in Communities :
          /\ Injective(listed[c])
          /\ \A i \in DOMAIN listed[c] : home[listed[c][i]] = c

\* What a log of the open block says fits the contracts.
Fits(e) ==
    /\ e.kind \in OwnerKinds => e.community \in Communities /\ owner[e.community] # None
    /\ e.kind \in StatusKinds => e.pool \in Pools /\ home[e.pool] # None
    /\ e.kind \in PoolFactories => e.pool \in LegacyPools
    /\ e.kind = "TradeCurationCreated" => e.pool \in CurationPools
    /\ e.kind = "ADMINSETRATIO" =>
          /\ e.community \in Communities
          /\ \A i \in DOMAIN e.pools : home[e.pools[i]] = e.community

LogsInv ==
    /\ \A n \in DOMAIN logs : Fits(logs[n])
    /\ \A m, n \in DOMAIN logs :
          logs[m].kind \in CreationKinds /\ logs[n].kind = "ADMINCLOSEPOOL"
            /\ logs[m].pool = logs[n].pool => m < n

\* Every operation is attributed to its actor.
Attributed == \A n \in WithOperation : OperationAccount(n) = logs[n].actor

-----------------------------------------------------------------------------
(***************************************************************************)
(* What the open block will make of the rows is what the contracts have.   *)
(***************************************************************************)
OwnersPending ==
    \A c \in Communities : OwnerAt(Len(logs), c) = owner[c] /\ OwnerAfter(c) = owner[c]

FundsPending == \A c \in Communities : FundAfter(c) = fund[c]

FeesPending == \A c \in Communities : FeeAfter(c) = fee[c]

RevenuePending ==
    \A c \in Communities :
        db.retained_revenue[c] + Count("POOL_UPDATED", c) - Count("ADMINWITHDRAWNREVENUE", c)
            = retained[c]

ClosedNow(p) == \E n \in Of({"ADMINCLOSEPOOL"}) : logs[n].pool = p
CreatedNow(p) == \E n \in Of(CreationKinds) : logs[n].pool = p

PendingStatus(p) ==
    IF ClosedNow(p) THEN "CLOSED" ELSE IF CreatedNow(p) THEN "OPENED" ELSE db.status[p]

StatusPending ==
    \A p \in Pools :
        PendingStatus(p) = IF home[p] = None THEN None
                           ELSE IF p \in closed THEN "CLOSED" ELSE "OPENED"

StakedIn(p) == SumFunctionOnSet([u \in Users |-> staked[<<p, u>>]], Users)
PoolCount(kinds, p) == Cardinality({n \in Of(kinds) : logs[n].pool = p})

StakesPending ==
    \A p \in Pools :
        db.total_amount[p] + PoolCount(StakeKinds, p) - PoolCount(UnstakeKinds, p) = StakedIn(p)

ListsPending ==
    \A c \in Communities :
        IF Lists(c) = {}
        THEN /\ db.active_pool_count[c] = Len(listed[c])
             /\ \A i \in DOMAIN listed[c] : db.pool_index[listed[c][i]] = i
        ELSE logs[Max(Lists(c))].pools = listed[c]

Members == db.members \cup MembershipKeys

MembersPending ==
    /\ \A c \in Communities : owner[c] # None => <<"community", c, owner[c]>> \in Members
    /\ \A p \in Pools, u \in Users : staked[<<p, u>>] > 0 =>
          {<<"staker", p, u>>, <<"pool", p, u>>, <<"community", home[p], u>>} \subseteq Members

RowsPending ==
    /\ OwnersPending /\ FundsPending /\ FeesPending /\ RevenuePending
    /\ StatusPending /\ StakesPending /\ ListsPending /\ MembersPending

-----------------------------------------------------------------------------
\* The operation rows of the legacy writer.
LegacyRowsOf == {r \in db.operations : history[r.log].kind \notin V14Kinds}

\* Its rows are those its counter has counted, the other writer's lie between
\* the first block and the open one.
OperationsPlaced ==
    /\ IsFiniteSet(db.operations)
    /\ \A r \in db.operations :
          /\ r.log \in 1..Len(history) /\ r.entity_index \in Nat
          /\ history[r.log].kind \in V14Kinds =>
                FirstBlock * IndexRoom < r.entity_index /\ r.entity_index < block * IndexRoom
          /\ history[r.log].kind \notin V14Kinds => r.entity_index \in 1..operations
    /\ operations <= Len(history)
    /\ Cardinality(LegacyRowsOf) = operations

OpenInv == TypeInv /\ ContractsInv /\ LogsInv /\ Attributed /\ RowsPending

RowsInv == OperationsPlaced /\ OperationsFollow /\ CountsAreRowCounts

IInv == OpenInv /\ RowsInv
-----------------------------------------------------------------------------
(***************************************************************************)
(* A step of the contracts: the open block gets new logs, while blocks,    *)
(* stores and rows stay.                                                   *)
(***************************************************************************)
Extended ==
    /\ logs' \in Seq(Log) /\ Len(logs) <= Len(logs')
    /\ \A n \in 1..Len(logs) : logs'[n] = logs[n]
    /\ UNCHANGED <<history, stores, block, db>>

\* None of the new logs is of these kinds.
NoNew(kinds) == \A n \in (Len(logs) + 1)..Len(logs') : logs'[n].kind \notin kinds

\* The logs of some kinds are finitely many positions.
LEMMA OfType ==
    ASSUME logs \in Seq(Log), NEW kinds
    PROVE  /\ Of(kinds) \subseteq 1..Len(logs) /\ IsFiniteSet(Of(kinds))
           /\ \A n \in Of(kinds) : logs[n] \in Log /\ logs[n].kind \in kinds
<1>1. Len(logs) \in Nat /\ DOMAIN logs = 1..Len(logs)
  OBVIOUS
<1>2. IsFiniteSet(1..Len(logs))
  BY <1>1, FS_Interval
<1>3. Of(kinds) \subseteq 1..Len(logs)
  BY <1>1 DEF Of
<1>4. IsFiniteSet(Of(kinds))
  BY <1>2, <1>3, FS_Subset
<1> QED
  BY <1>1, <1>3, <1>4 DEF Of

\* Without new logs of these kinds theirs stay the same.
LEMMA OldOf ==
    ASSUME logs \in Seq(Log), Extended, NEW kinds, NoNew(kinds)
    PROVE  Of(kinds)' = Of(kinds) /\ \A n \in Of(kinds) : logs'[n] = logs[n]
<1>1. PICK len \in Nat : len = Len(logs)
  OBVIOUS
<1>2. PICK more \in Nat : more = Len(logs')
  BY DEF Extended
<1>3. len <= more /\ DOMAIN logs = 1..len /\ DOMAIN logs' = 1..more
  BY <1>1, <1>2 DEF Extended
<1>4. 1..more = (1..len) \cup ((len + 1)..more)
  BY <1>3
<1>5. \A n \in 1..len : logs'[n] = logs[n]
  BY <1>1 DEF Extended
<1>6. \A n \in (len + 1)..more : logs'[n].kind \notin kinds
  BY <1>1, <1>2 DEF NoNew
<1>7. \A n : n \in Of(kinds)' <=> n \in Of(kinds)
  BY <1>3, <1>4, <1>5, <1>6 DEF Of
<1> QED
  BY <1>3, <1>5, <1>7 DEF Of

\* The owner before and at a log, said with the kinds' name.
OwnerSets(n, c) == {m \in Of(OwnerKinds) : m <= n /\ logs[m].community = c}

\* OwnerAt looks at the logs that say an owner, up to its own.
LEMMA OwnerAtIs ==
    ASSUME NEW n, NEW c
    PROVE  OwnerAt(n, c) = IF OwnerSets(n, c) = {} THEN owners[c] ELSE logs[Max(OwnerSets(n, c))].account
BY DEF OwnerAt, OwnerSets, OwnerKinds

-----------------------------------------------------------------------------
(***************************************************************************)
(* A step without logs of the kinds that set something leaves what is      *)
(* pending of it as it was.                                                *)
(***************************************************************************)
ByCommunity(kinds, c) == {n \in Of(kinds) : logs[n].community = c}
ByPool(kinds, p) == {n \in Of(kinds) : logs[n].pool = p}

\* The logs of a community or pool are finitely many positions.
LEMMA ByType ==
    ASSUME logs \in Seq(Log), NEW kinds, NEW x
    PROVE  /\ ByCommunity(kinds, x) \subseteq 1..Len(logs) /\ ByPool(kinds, x) \subseteq 1..Len(logs)
           /\ IsFiniteSet(ByCommunity(kinds, x)) /\ IsFiniteSet(ByPool(kinds, x))
           /\ Len(logs) \in Nat
           /\ Cardinality(ByCommunity(kinds, x)) \in Nat /\ Cardinality(ByPool(kinds, x)) \in Nat
<1>1. Of(kinds) \subseteq 1..Len(logs) /\ IsFiniteSet(Of(kinds))
  BY OfType
<1>2. ByCommunity(kinds, x) \subseteq Of(kinds) /\ ByPool(kinds, x) \subseteq Of(kinds)
  BY DEF ByCommunity, ByPool
<1>3. IsFiniteSet(ByCommunity(kinds, x)) /\ IsFiniteSet(ByPool(kinds, x))
  BY <1>1, <1>2, FS_Subset
<1> QED
  BY <1>1, <1>2, <1>3, FS_CardinalityType

\* Those of kinds without new logs stay the same, and so does their last log.
LEMMA OldBy ==
    ASSUME logs \in Seq(Log), Extended, NEW kinds, NoNew(kinds), NEW x
    PROVE  /\ ByCommunity(kinds, x)' = ByCommunity(kinds, x)
           /\ ByPool(kinds, x)' = ByPool(kinds, x)
           /\ ByCommunity(kinds, x) # {} =>
                logs'[Max(ByCommunity(kinds, x))] = logs[Max(ByCommunity(kinds, x))]
<1>1. Of(kinds)' = Of(kinds) /\ \A n \in Of(kinds) : logs'[n] = logs[n]
  BY OldOf
<1>2. /\ ByCommunity(kinds, x)' = ByCommunity(kinds, x)
      /\ ByPool(kinds, x)' = ByPool(kinds, x)
  BY <1>1 DEF ByCommunity, ByPool
<1>3. ASSUME ByCommunity(kinds, x) # {}
      PROVE  logs'[Max(ByCommunity(kinds, x))] = logs[Max(ByCommunity(kinds, x))]
  <2>1. Max(ByCommunity(kinds, x)) \in ByCommunity(kinds, x)
    BY <1>3, ByType, GreatestPosition
  <2>2. Max(ByCommunity(kinds, x)) \in Of(kinds)
    BY <2>1 DEF ByCommunity
  <2> QED
    BY <1>1, <2>2
<1> QED
  BY <1>2, <1>3

\* Owners.
TransferKinds == {"OWNERSHIP_TRANSFERRED"}
CommunityKinds == {"COMMUNITY_CREATED"}
TransfersOf(c) == {n \in ByCommunity(TransferKinds, c) : logs[n].previous # None}

\* OwnerAfter in these terms.
LEMMA OwnerAfterIs ==
    ASSUME NEW c
    PROVE  OwnerAfter(c) = IF TransfersOf(c) # {} THEN logs[Max(TransfersOf(c))].account
                           ELSE IF ByCommunity(CommunityKinds, c) # {}
                                THEN logs[Max(ByCommunity(CommunityKinds, c))].account
                                ELSE db.owner[c]
<1>1. TransfersOf(c) = {n \in Of({"OWNERSHIP_TRANSFERRED"}) :
                            logs[n].community = c /\ logs[n].previous # None}
  BY DEF TransfersOf, ByCommunity, TransferKinds
<1> QED
  BY <1>1 DEF OwnerAfter, ByCommunity, CommunityKinds

\* Both views of the owners, to be primed.
OwnersIn ==
    \A c : /\ \A n : OwnerAt(n, c) = IF OwnerSets(n, c) = {} THEN owners[c]
                                     ELSE logs[Max(OwnerSets(n, c))].account
           /\ OwnerAfter(c) = IF TransfersOf(c) # {} THEN logs[Max(TransfersOf(c))].account
                              ELSE IF ByCommunity(CommunityKinds, c) # {}
                                   THEN logs[Max(ByCommunity(CommunityKinds, c))].account
                                   ELSE db.owner[c]

\* They hold in every state.
LEMMA OwnersAre == OwnersIn
BY OwnerAtIs, OwnerAfterIs DEF OwnersIn

\* The owner at an earlier log does not depend on later ones.
LEMMA OwnerAtOld ==
    ASSUME logs \in Seq(Log), Extended, NEW n \in 1..Len(logs), NEW c
    PROVE  OwnerAt(n, c)' = OwnerAt(n, c)
<1>1. PICK len \in Nat : len = Len(logs)
  OBVIOUS
<1>2. PICK more \in Nat : more = Len(logs')
  BY DEF Extended
<1>3. len <= more /\ DOMAIN logs = 1..len /\ DOMAIN logs' = 1..more /\ n \in 1..len
  BY <1>1, <1>2 DEF Extended
<1>4. \A m \in 1..len : logs'[m] = logs[m]
  BY <1>1 DEF Extended
<1>5. OwnerSets(n, c)' = OwnerSets(n, c)
  BY <1>3, <1>4 DEF OwnerSets, Of
<1>6. OwnerSets(n, c) \subseteq 1..len
  BY <1>3 DEF OwnerSets, Of
<1>7. OwnerSets(n, c) # {} => Max(OwnerSets(n, c)) \in 1..len
  BY <1>6, GreatestPosition
<1>8. OwnersIn'
  BY OwnersAre, PTL
<1>9. owners' = owners
  BY DEF Extended, stores
<1>10. OwnerAt(n, c)' = IF OwnerSets(n, c)' = {} THEN owners'[c] ELSE logs'[Max(OwnerSets(n, c)')].account
  BY <1>8 DEF OwnersIn
<1> QED
  BY <1>4, <1>5, <1>7, <1>9, <1>10, OwnerAtIs

\* The owner stays after logs of other kinds.
LEMMA OwnerAtKept ==
    ASSUME logs \in Seq(Log), Extended, NoNew(OwnerKinds), NEW c,
           NEW n \in Len(logs)..Len(logs')
    PROVE  OwnerAt(n, c)' = OwnerAt(Len(logs), c)
<1>1. PICK len \in Nat : len = Len(logs)
  OBVIOUS
<1>2. Of(OwnerKinds)' = Of(OwnerKinds) /\ \A m \in Of(OwnerKinds) : logs'[m] = logs[m]
  BY OldOf
<1>3. Of(OwnerKinds) \subseteq 1..len
  BY <1>1, OfType
<1>4. n \in Int /\ len <= n /\ \A m \in 1..len : m <= n /\ m <= len
  BY <1>1 DEF Extended
<1>5. OwnerSets(n, c)' = OwnerSets(len, c)
  BY <1>2, <1>3, <1>4 DEF OwnerSets
<1>6. OwnerSets(len, c) \subseteq 1..len /\ OwnerSets(len, c) \subseteq Of(OwnerKinds)
  BY <1>3 DEF OwnerSets
<1>7. OwnerSets(len, c) # {} => Max(OwnerSets(len, c)) \in Of(OwnerKinds)
  BY <1>6, GreatestPosition
<1>8. OwnersIn'
  BY OwnersAre, PTL
<1>9. owners' = owners
  BY DEF Extended, stores
<1>10. OwnerAt(n, c)' = IF OwnerSets(n, c)' = {} THEN owners'[c] ELSE logs'[Max(OwnerSets(n, c)')].account
  BY <1>8 DEF OwnersIn
<1>11. OwnerAt(len, c) = IF OwnerSets(len, c) = {} THEN owners[c] ELSE logs[Max(OwnerSets(len, c))].account
  BY OwnerAtIs
<1> QED
  BY <1>1, <1>2, <1>5, <1>7, <1>9, <1>10, <1>11

\* Without a log that says an owner, the pending owners stay.
LEMMA OwnersQuiet ==
    ASSUME TypeInv, OwnersPending, Extended, NoNew(OwnerKinds), owner' = owner
    PROVE  OwnersPending'
<1>1. logs \in Seq(Log)
  BY DEF TypeInv, StoresType
<1>2. ASSUME NEW c \in Communities PROVE OwnerAt(Len(logs), c)' = owner[c]
  <2>1. Len(logs') \in Len(logs)..Len(logs')
    BY <1>1 DEF Extended
  <2>2. PICK more : more = Len(logs')
    OBVIOUS
  <2>3. OwnerAt(more, c)' = OwnerAt(Len(logs), c)
    BY <1>1, <2>1, <2>2, OwnerAtKept
  <2>4. OwnersIn'
    BY OwnersAre, PTL
  <2>5. OwnerAt(more, c)' = OwnerAt(Len(logs), c)'
    BY <2>2, <2>4 DEF OwnersIn
  <2> QED
    BY <2>3, <2>5 DEF OwnersPending
<1>3. ASSUME NEW c \in Communities PROVE OwnerAfter(c)' = owner[c]
  <2>1. NoNew(TransferKinds) /\ NoNew(CommunityKinds)
    BY DEF NoNew, OwnerKinds, TransferKinds, CommunityKinds
  <2>2. /\ ByCommunity(TransferKinds, c)' = ByCommunity(TransferKinds, c)
        /\ Of(TransferKinds)' = Of(TransferKinds)
        /\ \A n \in Of(TransferKinds) : logs'[n] = logs[n]
    BY <1>1, <2>1, OldBy, OldOf
  <2>3. TransfersOf(c)' = TransfersOf(c) /\ \A n \in TransfersOf(c) : logs'[n] = logs[n]
    BY <2>2 DEF TransfersOf, ByCommunity
  <2>4. TransfersOf(c) # {} => Max(TransfersOf(c)) \in TransfersOf(c)
    <3>1. TransfersOf(c) \subseteq 1..Len(logs) /\ Len(logs) \in Nat
      BY <1>1, ByType DEF TransfersOf
    <3> QED
      BY <3>1, GreatestPosition
  <2>5. /\ ByCommunity(CommunityKinds, c)' = ByCommunity(CommunityKinds, c)
        /\ ByCommunity(CommunityKinds, c) # {} =>
              logs'[Max(ByCommunity(CommunityKinds, c))] = logs[Max(ByCommunity(CommunityKinds, c))]
    BY <1>1, <2>1, OldBy
  <2>6. OwnersIn' /\ OwnersIn
    BY OwnersAre, PTL
  <2>7. db' = db
    BY DEF Extended
  <2>8. OwnerAfter(c)' = OwnerAfter(c)
    BY <2>3, <2>4, <2>5, <2>6, <2>7 DEF OwnersIn
  <2> QED
    BY <2>8 DEF OwnersPending
<1> QED
  BY <1>2, <1>3 DEF OwnersPending

FundKinds == {"COMMUNITY_CREATED", "ADMINSETDAOFUND"}
EarnKinds == {"POOL_UPDATED"}
PayKinds == {"ADMINWITHDRAWNREVENUE"}
FeeKinds == {"ADMINSETFEE"}
ListKinds == {"ADMINSETRATIO"}
CloseKinds == {"ADMINCLOSEPOOL"}

\* The other things pending, in terms of the logs of a community or a pool.
RowsIn ==
    /\ \A c : FundAfter(c) = IF ByCommunity(FundKinds, c) = {} THEN db.dao_fund[c]
                             ELSE logs[Max(ByCommunity(FundKinds, c))].account
    /\ \A c : FeeAfter(c) = IF ByCommunity(FeeKinds, c) = {} THEN db.fee_ratio[c]
                            ELSE logs[Max(ByCommunity(FeeKinds, c))].ratio
    /\ \A c : Count("POOL_UPDATED", c) = Cardinality(ByCommunity(EarnKinds, c))
    /\ \A c : Count("ADMINWITHDRAWNREVENUE", c) = Cardinality(ByCommunity(PayKinds, c))
    /\ \A kinds, p : PoolCount(kinds, p) = Cardinality(ByPool(kinds, p))
    /\ \A c : Lists(c) = ByCommunity(ListKinds, c)
    /\ \A p : ClosedNow(p) <=> ByPool(CloseKinds, p) # {}
    /\ \A p : CreatedNow(p) <=> ByPool(CreationKinds, p) # {}

\* They hold in every state.
LEMMA RowsAre == RowsIn
<1>1. \A c : FundAfter(c) = IF ByCommunity(FundKinds, c) = {} THEN db.dao_fund[c]
                            ELSE logs[Max(ByCommunity(FundKinds, c))].account
  BY DEF FundAfter, ByCommunity, FundKinds
<1>2. \A c : FeeAfter(c) = IF ByCommunity(FeeKinds, c) = {} THEN db.fee_ratio[c]
                           ELSE logs[Max(ByCommunity(FeeKinds, c))].ratio
  BY DEF FeeAfter, ByCommunity, FeeKinds
<1>3. /\ \A c : Count("POOL_UPDATED", c) = Cardinality(ByCommunity(EarnKinds, c))
      /\ \A c : Count("ADMINWITHDRAWNREVENUE", c) = Cardinality(ByCommunity(PayKinds, c))
      /\ \A kinds, p : PoolCount(kinds, p) = Cardinality(ByPool(kinds, p))
      /\ \A c : Lists(c) = ByCommunity(ListKinds, c)
  BY DEF Count, PoolCount, Lists, ByCommunity, ByPool, EarnKinds, PayKinds, ListKinds
<1>4. /\ \A p : ClosedNow(p) <=> ByPool(CloseKinds, p) # {}
      /\ \A p : CreatedNow(p) <=> ByPool(CreationKinds, p) # {}
  BY DEF ClosedNow, CreatedNow, ByPool, CloseKinds
<1> QED
  BY <1>1, <1>2, <1>3, <1>4 DEF RowsIn

\* Without a log that sets a fund, the pending funds stay.
LEMMA FundsQuiet ==
    ASSUME TypeInv, FundsPending, Extended, NoNew(FundKinds), fund' = fund
    PROVE  FundsPending'
<1>1. logs \in Seq(Log) /\ db' = db
  BY DEF TypeInv, StoresType, Extended
<1>2. RowsIn /\ RowsIn'
  BY RowsAre, PTL
<1> SUFFICES ASSUME NEW c \in Communities PROVE FundAfter(c)' = fund[c]
  BY DEF FundsPending
<1>3. FundAfter(c)' = FundAfter(c)
  BY <1>1, <1>2, OldBy DEF RowsIn
<1> QED
  BY <1>3 DEF FundsPending

\* Without a log that sets a fee, the pending fees stay.
LEMMA FeesQuiet ==
    ASSUME TypeInv, FeesPending, Extended, NoNew(FeeKinds), fee' = fee
    PROVE  FeesPending'
<1>1. logs \in Seq(Log) /\ db' = db
  BY DEF TypeInv, StoresType, Extended
<1>2. RowsIn /\ RowsIn'
  BY RowsAre, PTL
<1> SUFFICES ASSUME NEW c \in Communities PROVE FeeAfter(c)' = fee[c]
  BY DEF FeesPending
<1>3. FeeAfter(c)' = FeeAfter(c)
  BY <1>1, <1>2, OldBy DEF RowsIn
<1> QED
  BY <1>3 DEF FeesPending

\* Without a log about revenue, the pending revenue stays.
LEMMA RevenueQuiet ==
    ASSUME TypeInv, RevenuePending, Extended, NoNew(EarnKinds \cup PayKinds), retained' = retained
    PROVE  RevenuePending'
<1>1. logs \in Seq(Log) /\ db' = db
  BY DEF TypeInv, StoresType, Extended
<1>2. RowsIn /\ RowsIn'
  BY RowsAre, PTL
<1>3. NoNew(EarnKinds) /\ NoNew(PayKinds)
  BY DEF NoNew
<1> SUFFICES ASSUME NEW c \in Communities
             PROVE  db'.retained_revenue[c] + Count("POOL_UPDATED", c)' - Count("ADMINWITHDRAWNREVENUE", c)'
                      = retained'[c]
  BY DEF RevenuePending
<1>4. /\ Count("POOL_UPDATED", c)' = Count("POOL_UPDATED", c)
      /\ Count("ADMINWITHDRAWNREVENUE", c)' = Count("ADMINWITHDRAWNREVENUE", c)
  BY <1>1, <1>2, <1>3, OldBy DEF RowsIn
<1> QED
  BY <1>1, <1>4 DEF RevenuePending

\* Without a log that creates or closes a pool, the pending states stay.
LEMMA StatusQuiet ==
    ASSUME TypeInv, StatusPending, Extended, NoNew(StatusKinds),
           \A p \in Pools : home'[p] = None <=> home[p] = None, closed' = closed
    PROVE  StatusPending'
<1>1. logs \in Seq(Log) /\ db' = db
  BY DEF TypeInv, StoresType, Extended
<1>2. RowsIn /\ RowsIn'
  BY RowsAre, PTL
<1>3. NoNew(CloseKinds) /\ NoNew(CreationKinds)
  BY DEF NoNew, StatusKinds, CloseKinds
<1> SUFFICES ASSUME NEW p \in Pools PROVE PendingStatus(p)' = PendingStatus(p)
  BY DEF StatusPending
<1>4. (ClosedNow(p)' <=> ClosedNow(p)) /\ (CreatedNow(p)' <=> CreatedNow(p))
  BY <1>1, <1>2, <1>3, OldBy DEF RowsIn
<1> QED
  BY <1>1, <1>4 DEF PendingStatus

\* Without a deposit or withdrawal, the pending stakes stay.
LEMMA StakesQuiet ==
    ASSUME TypeInv, StakesPending, Extended, NoNew(StakeKinds \cup UnstakeKinds), staked' = staked
    PROVE  StakesPending'
<1>1. logs \in Seq(Log) /\ db' = db
  BY DEF TypeInv, StoresType, Extended
<1>2. RowsIn /\ RowsIn'
  BY RowsAre, PTL
<1>3. NoNew(StakeKinds) /\ NoNew(UnstakeKinds)
  BY DEF NoNew
<1> SUFFICES ASSUME NEW p \in Pools
             PROVE  db'.total_amount[p] + PoolCount(StakeKinds, p)' - PoolCount(UnstakeKinds, p)'
                      = StakedIn(p)'
  BY DEF StakesPending
<1>4. /\ PoolCount(StakeKinds, p)' = PoolCount(StakeKinds, p)
      /\ PoolCount(UnstakeKinds, p)' = PoolCount(UnstakeKinds, p)
  BY <1>1, <1>2, <1>3, OldBy DEF RowsIn
<1>5. StakedIn(p)' = StakedIn(p)
  BY DEF StakedIn
<1> QED
  BY <1>1, <1>4, <1>5 DEF StakesPending

\* Without a list of ratios, the pending lists stay.
LEMMA ListsQuiet ==
    ASSUME TypeInv, ListsPending, Extended, NoNew(ListKinds), listed' = listed
    PROVE  ListsPending'
<1>1. logs \in Seq(Log) /\ db' = db
  BY DEF TypeInv, StoresType, Extended
<1>2. RowsIn /\ RowsIn'
  BY RowsAre, PTL
<1>3. ASSUME NEW c PROVE Lists(c)' = Lists(c) /\ (Lists(c) # {} => logs'[Max(Lists(c))] = logs[Max(Lists(c))])
  BY <1>1, <1>2, OldBy DEF RowsIn
<1> QED
  BY <1>1, <1>3 DEF ListsPending

\* A member stays one in an open block.
LEMMA MembersStay ==
    ASSUME TypeInv, Extended
    PROVE  Members \subseteq Members'
<1>1. PICK len \in Nat : len = Len(logs)
  BY DEF TypeInv, StoresType
<1>2. PICK more \in Nat : more = Len(logs')
  BY DEF Extended
<1>3. len <= more /\ DOMAIN logs = 1..len /\ DOMAIN logs' = 1..more
  BY <1>1, <1>2 DEF Extended, TypeInv, StoresType
<1>4. \A n \in 1..len : logs'[n] = logs[n]
  BY <1>1 DEF Extended
<1>5. \A kinds : \A n \in Of(kinds) : n \in Of(kinds)' /\ logs'[n] = logs[n]
  BY <1>3, <1>4 DEF Of
<1>6. \A kinds : Of(kinds) \subseteq Of(kinds)' /\ \A n \in Of(kinds) : logs'[n] = logs[n]
  BY <1>5
<1>7. MembershipKeys \subseteq MembershipKeys'
  BY <1>6 DEF MembershipKeys
<1> QED
  BY <1>7 DEF Members, Extended

-----------------------------------------------------------------------------
(***************************************************************************)
(* What new logs must be for the facts about logs to last.                 *)
(***************************************************************************)
\* Communities keep an owner, and pools their home.
Grown ==
    /\ \A c \in Communities : owner[c] # None => owner'[c] # None
    /\ \A p \in Pools : home[p] # None => home'[p] = home[p]

\* What fits the contracts still fits them later.
LEMMA FitsLater ==
    ASSUME Grown, NEW e \in Log, Fits(e)
    PROVE  Fits(e)'
<1>1. e.pools \in Seq(Pools)
  BY DEF Log
<1>2. e.kind \in OwnerKinds => e.community \in Communities /\ owner'[e.community] # None
  BY DEF Grown, Fits
<1>3. e.kind \in StatusKinds => e.pool \in Pools /\ home'[e.pool] # None
  BY DEF Grown, Fits
<1>4. e.kind = "ADMINSETRATIO" =>
          /\ e.community \in Communities
          /\ \A i \in DOMAIN e.pools : home'[e.pools[i]] = e.community
  <2> SUFFICES ASSUME e.kind = "ADMINSETRATIO", NEW i \in DOMAIN e.pools
               PROVE  home'[e.pools[i]] = e.community
    BY DEF Fits
  <2>1. e.pools[i] \in Pools
    BY <1>1
  <2>2. home[e.pools[i]] = e.community /\ e.community \in Communities
    BY DEF Fits
  <2>3. e.community # None
    BY <2>2, WalnutAssumption
  <2> QED
    BY <2>1, <2>2, <2>3 DEF Grown
<1> QED
  BY <1>2, <1>3, <1>4 DEF Fits

\* No close of a pool precedes its creation, and all logs fit.
LEMMA LogsLater ==
    ASSUME TypeInv, LogsInv, Extended, Grown,
           \A n \in (Len(logs) + 1)..Len(logs') : \A e \in Log : e = logs'[n] => Fits(e)',
           \A m \in (Len(logs) + 1)..Len(logs'), n \in 1..Len(logs') :
              logs'[m].kind \in CreationKinds /\ logs'[n].kind = "ADMINCLOSEPOOL"
                /\ logs'[m].pool = logs'[n].pool => m < n
    PROVE  LogsInv'
<1>1. PICK len \in Nat : len = Len(logs)
  BY DEF TypeInv, StoresType
<1>2. PICK more \in Nat : more = Len(logs')
  BY DEF Extended
<1>3. len <= more /\ DOMAIN logs = 1..len /\ DOMAIN logs' = 1..more
  BY <1>1, <1>2 DEF Extended, TypeInv, StoresType
<1>4. \A n \in 1..len : logs'[n] = logs[n] /\ logs[n] \in Log
  BY <1>1 DEF Extended, TypeInv, StoresType
<1>5. 1..more = (1..len) \cup ((len + 1)..more)
  BY <1>3
<1>6. \A n \in 1..more : logs'[n] \in Log
  BY <1>2 DEF Extended
<1>7. ASSUME NEW n \in 1..more PROVE Fits(logs[n])'
  <2>1. PICK e \in Log : e = logs'[n]
    BY <1>6
  <2>2. Fits(e)'
    <3>1. CASE n \in 1..len
      <4>1. e = logs[n] /\ Fits(logs[n])
        BY <3>1, <2>1, <1>3, <1>4 DEF LogsInv
      <4>2. Fits(e)
        BY <4>1
      <4> QED
        BY <4>2, FitsLater
    <3>2. CASE n \in (len + 1)..more
      BY <3>2, <2>1, <1>1, <1>2
    <3> QED
      BY <3>1, <3>2, <1>5
  <2> QED
    BY <2>1, <2>2 DEF Fits
<1>8. ASSUME NEW m \in 1..more, NEW n \in 1..more,
             logs'[m].kind \in CreationKinds, logs'[n].kind = "ADMINCLOSEPOOL",
             logs'[m].pool = logs'[n].pool
      PROVE  m < n
  <2>1. CASE m \in 1..len /\ n \in 1..len
    BY <2>1, <1>3, <1>4, <1>8 DEF LogsInv
  <2>2. CASE m \in 1..len /\ n \in (len + 1)..more
    BY <2>2
  <2>3. CASE m \in (len + 1)..more
    BY <2>3, <1>1, <1>2, <1>8
  <2> QED
    BY <2>1, <2>2, <2>3, <1>5
<1> QED
  BY <1>3, <1>7, <1>8 DEF LogsInv

\* Whom a new log's operation is attributed to, if it has one.
Acts(e) ==
    IF e.kind \in AccountOfOwner
    THEN e.community \in Communities /\ e.actor = owner[e.community]
    ELSE e.kind \in {"OWNERSHIP_TRANSFERRED", "POOL_UPDATED"} \/ e.account = e.actor

\* The logs with an operation are those of all kinds but two.
OperationsAre ==
    logs \in Seq(Log) =>
        WithOperation = {n \in 1..Len(logs) : logs[n].kind \notin {"OWNERSHIP_TRANSFERRED", "POOL_UPDATED"}}

\* That holds in every state.
LEMMA OperationsAreSo == OperationsAre
<1> SUFFICES ASSUME logs \in Seq(Log)
             PROVE  WithOperation = {n \in 1..Len(logs) : logs[n].kind \notin {"OWNERSHIP_TRANSFERRED", "POOL_UPDATED"}}
  BY DEF OperationsAre
<1> DEFINE len == Len(logs)
<1>0. DOMAIN logs = 1..len /\ \A n \in 1..len : logs[n] \in Log
  OBVIOUS
<1>01. \A e \in Log : e.kind \in LogKinds
  BY DEF Log
<1>1. DOMAIN logs = 1..len /\ \A n \in DOMAIN logs : logs[n].kind \in LogKinds
  BY <1>0, <1>01
<1>2. V14Kinds \cap {"OWNERSHIP_TRANSFERRED", "POOL_UPDATED"} = {}
  BY DEF V14Kinds
<1>3. ASSUME NEW n
      PROVE  n \in WithOperation
               <=> n \in DOMAIN logs /\ logs[n].kind \notin {"OWNERSHIP_TRANSFERRED", "POOL_UPDATED"}
  <2>1. n \in Of(V14Kinds) <=> n \in DOMAIN logs /\ logs[n].kind \in V14Kinds
    BY DEF Of
  <2>2. n \in LegacyOperations
          <=> /\ n \in DOMAIN logs /\ logs[n].kind \in FactoryKinds \cup DynamicKinds
              /\ logs[n].kind \notin {"OWNERSHIP_TRANSFERRED", "POOL_UPDATED"} \cup V14Kinds
    BY DEF LegacyOperations, Operations, Of
  <2>3. n \in WithOperation <=> n \in LegacyOperations \/ n \in Of(V14Kinds)
    BY DEF WithOperation
  <2>4. n \in DOMAIN logs => logs[n].kind \in FactoryKinds \cup DynamicKinds \/ logs[n].kind \in V14Kinds
    BY <1>1 DEF LogKinds
  <2> QED
    BY <1>2, <2>1, <2>2, <2>3, <2>4
<1> QED
  BY <1>1, <1>3

\* The account of an operation.
LEMMA AccountIs ==
    ASSUME NEW n
    PROVE  OperationAccount(n) = IF logs[n].kind \in AccountOfOwner THEN OwnerAt(n, logs[n].community)
                                 ELSE logs[n].account
BY DEF OperationAccount, AccountOfOwner

\* The same in all states.
AccountsAre ==
    \A n : OperationAccount(n) = IF logs[n].kind \in AccountOfOwner THEN OwnerAt(n, logs[n].community)
                                 ELSE logs[n].account
\* That holds in every state too.
LEMMA AccountsAreSo == AccountsAre
BY AccountIs DEF AccountsAre

\* The operations of an open block keep their actors, and new ones have theirs.
LEMMA AttributedLater ==
    ASSUME TypeInv, OwnersPending, Attributed, Extended,
           \A n \in (Len(logs) + 1)..Len(logs') : \A e \in Log : e = logs'[n] => Acts(e),
           NoNew(OwnerKinds) \/ NoNew(AccountOfOwner)
    PROVE  Attributed'
<1>1. PICK len \in Nat : len = Len(logs)
  BY DEF TypeInv, StoresType
<1>2. PICK more \in Nat : more = Len(logs')
  BY DEF Extended
<1>3. len <= more /\ DOMAIN logs = 1..len /\ DOMAIN logs' = 1..more /\ logs \in Seq(Log)
  BY <1>1, <1>2 DEF Extended, TypeInv, StoresType
<1>4. \A n \in 1..len : logs'[n] = logs[n] /\ logs[n] \in Log
  BY <1>1, <1>3 DEF Extended
<1>5. 1..more = (1..len) \cup ((len + 1)..more)
  BY <1>3
<1>6. \A n \in 1..more : logs'[n] \in Log
  BY <1>2 DEF Extended
<1>7. OperationsAre /\ OperationsAre' /\ AccountsAre /\ AccountsAre' /\ logs' \in Seq(Log)
  BY OperationsAreSo, AccountsAreSo, PTL DEF Extended
<1>8. \A n : n \in WithOperation <=> n \in 1..len /\ logs[n].kind \notin {"OWNERSHIP_TRANSFERRED", "POOL_UPDATED"}
  BY <1>1, <1>3, <1>7 DEF OperationsAre
<1>9. \A n : n \in WithOperation' <=> n \in 1..more /\ logs'[n].kind \notin {"OWNERSHIP_TRANSFERRED", "POOL_UPDATED"}
  BY <1>2, <1>7 DEF OperationsAre
<1> SUFFICES ASSUME NEW n \in WithOperation' PROVE OperationAccount(n)' = logs'[n].actor
  BY DEF Attributed
<1>10. n \in 1..more /\ logs'[n].kind \notin {"OWNERSHIP_TRANSFERRED", "POOL_UPDATED"}
  BY <1>9
<1>11. OperationAccount(n)' = IF logs'[n].kind \in AccountOfOwner THEN OwnerAt(n, logs[n].community)'
                              ELSE logs'[n].account
  BY <1>7 DEF AccountsAre
<1>12. CASE n \in 1..len
  <2>1. logs'[n] = logs[n] /\ n \in WithOperation
    BY <1>4, <1>8, <1>10, <1>12
  <2>2. OperationAccount(n) = logs[n].actor
    BY <2>1 DEF Attributed
  <2>3. OperationAccount(n) = IF logs[n].kind \in AccountOfOwner THEN OwnerAt(n, logs[n].community)
                              ELSE logs[n].account
    BY <1>7 DEF AccountsAre
  <2>4. PICK c : c = logs[n].community
    OBVIOUS
  <2>5. OwnerAt(n, c)' = OwnerAt(n, c)
    BY <1>1, <1>3, <1>12, OwnerAtOld
  <2>6. OwnersIn'
    BY OwnersAre, PTL
  <2>7. OwnerAt(n, logs[n].community)' = OwnerAt(n, c)'
    BY <2>1, <2>4, <2>6 DEF OwnersIn
  <2> QED
    BY <1>11, <2>1, <2>2, <2>3, <2>4, <2>5, <2>7
<1>13. CASE n \in (len + 1)..more
  <2>1. PICK e \in Log : e = logs'[n]
    BY <1>6, <1>10
  <2>2. Acts(e)
    BY <1>1, <1>2, <1>13, <2>1
  <2>3. CASE e.kind \in AccountOfOwner
    <3>1. e.community \in Communities /\ e.actor = owner[e.community]
      BY <2>2, <2>3 DEF Acts
    <3>2. NoNew(OwnerKinds)
      BY <1>1, <1>2, <1>13, <2>1, <2>3 DEF NoNew
    <3>3. PICK c \in Communities : c = e.community
      BY <3>1
    <3>4. n \in Len(logs)..Len(logs')
      BY <1>1, <1>2, <1>3, <1>13
    <3>5. OwnerAt(n, c)' = OwnerAt(Len(logs), c)
      BY <1>3, <3>2, <3>4, OwnerAtKept
    <3>6. OwnerAt(Len(logs), c) = owner[c]
      BY DEF OwnersPending
    <3>7. OwnersIn'
      BY OwnersAre, PTL
    <3>8. OwnerAt(n, logs[n].community)' = OwnerAt(n, c)'
      BY <2>1, <3>3, <3>7 DEF OwnersIn
    <3> QED
      BY <1>11, <2>1, <2>3, <3>1, <3>3, <3>5, <3>6, <3>8
  <2>4. CASE e.kind \notin AccountOfOwner
    BY <1>10, <1>11, <2>1, <2>2, <2>4 DEF Acts
  <2> QED
    BY <2>3, <2>4
<1> QED
  BY <1>5, <1>10, <1>12, <1>13

-----------------------------------------------------------------------------
(***************************************************************************)
(* Actions that emit one log.                                              *)
(***************************************************************************)
One(e) ==
    /\ e \in Log /\ Extended /\ StoresType'
    /\ Len(logs') = Len(logs) + 1 /\ logs'[Len(logs) + 1] = e

\* A log is well-formed if its parts are.
LEMMA LogOfType ==
    ASSUME NEW kind \in LogKinds, NEW c \in Communities \cup {None}, NEW p \in Pools \cup {None},
           NEW account \in Users \cup {None}, NEW previous \in Users \cup {None},
           NEW actor \in Users \cup {None}
    PROVE  LogOf(kind, c, p, account, previous, actor) \in Log
<1>1. <<>> \in Seq(Pools) /\ 0 \in {0, 1}
  OBVIOUS
<1> QED
  BY <1>1 DEF LogOf, Log

\* Emitting a well-formed log does that.
LEMMA EmitOne ==
    ASSUME TypeInv, NEW e \in Log, Emit(<<e>>)
    PROVE  One(e) /\ RowsType'
<1>1. logs \in Seq(Log) /\ history \in Seq(Log)
  BY DEF TypeInv, StoresType
<1>2. PICK len \in Nat : len = Len(logs)
  BY <1>1
<1>3. logs' = logs \o <<e>> /\ <<e>> \in Seq(Log) /\ Len(<<e>>) = 1 /\ <<e>>[1] = e
  BY DEF Emit
<1>4. logs' \in Seq(Log) /\ Len(logs') = Len(logs) + 1
  BY <1>1, <1>3, ConcatProperties
<1>5. logs'[Len(logs) + 1] = e /\ \A n \in 1..Len(logs) : logs'[n] = logs[n]
  BY <1>1, <1>3, ConcatProperties
<1>6. Extended
  BY <1>2, <1>4, <1>5 DEF Emit, Extended
<1>7. Len(logs') <= MaxLogs /\ Len(history') + Len(logs') <= MaxHistory
  <2>1. Len(logs') <= MaxLogs
    BY DEF Emit
  <2>2. history \o logs \o <<e>> = (history \o logs) \o <<e>>
    OBVIOUS
  <2>3. /\ history \o logs \in Seq(Log) /\ Len(history \o logs) = Len(history) + Len(logs)
        /\ Len(history) \in Nat /\ Len(logs) \in Nat
    BY <1>1, ConcatProperties
  <2>4. Len((history \o logs) \o <<e>>) = Len(history) + Len(logs) + 1
    BY <1>3, <2>3, ConcatProperties
  <2>5. Len(history) + Len(logs) + 1 <= MaxHistory
    BY <2>2, <2>4 DEF Emit
  <2> QED
    BY <1>4, <2>1, <2>3, <2>5 DEF Emit
<1>8. StoresType'
  BY <1>4, <1>7 DEF Emit, stores, TypeInv, StoresType
<1>9. RowsType'
  BY DEF Emit, TypeInv, RowsType
<1> QED
  BY <1>4, <1>5, <1>6, <1>8, <1>9 DEF One

\* It is the only new one.
LEMMA OneNew ==
    ASSUME TypeInv, NEW e, One(e)
    PROVE  /\ (Len(logs) + 1)..Len(logs') = {Len(logs) + 1}
           /\ \A kinds : e.kind \notin kinds => NoNew(kinds)
<1>1. PICK len \in Nat : len = Len(logs)
  BY DEF TypeInv, StoresType
<1>2. (Len(logs) + 1)..Len(logs') = {Len(logs) + 1}
  BY <1>1 DEF One
<1> QED
  BY <1>2 DEF One, NoNew

\* A position after some others.
LEMMA NewLast ==
    ASSUME NEW len \in Nat, NEW S, S \subseteq 1..len, IsFiniteSet(S)
    PROVE  /\ Max(S \cup {len + 1}) = len + 1
           /\ Cardinality(S \cup {len + 1}) = Cardinality(S) + 1
<1>1. PICK last \in Nat : last = len + 1
  OBVIOUS
<1>2. S \cup {last} \subseteq 1..last /\ S \cup {last} # {} /\ last \notin S
  BY <1>1
<1>3. Max(S \cup {last}) \in S \cup {last} /\ \A m \in S \cup {last} : m <= Max(S \cup {last})
  BY <1>1, <1>2, GreatestPosition
<1>4. Max(S \cup {last}) = last
  <2>1. last <= Max(S \cup {last})
    BY <1>3
  <2>2. Max(S \cup {last}) \in 1..last
    BY <1>2, <1>3
  <2> QED
    BY <2>1, <2>2
<1>5. Cardinality(S \cup {last}) = Cardinality(S) + 1
  BY <1>2, FS_AddElement
<1> QED
  BY <1>1, <1>4, <1>5

\* The logs of a community or pool after one more.
LEMMA OneBy ==
    ASSUME TypeInv, NEW e, One(e), NEW kinds, NEW x
    PROVE  /\ ByCommunity(kinds, x)' = IF e.kind \in kinds /\ e.community = x
                                       THEN ByCommunity(kinds, x) \cup {Len(logs) + 1}
                                       ELSE ByCommunity(kinds, x)
           /\ ByPool(kinds, x)' = IF e.kind \in kinds /\ e.pool = x
                                  THEN ByPool(kinds, x) \cup {Len(logs) + 1}
                                  ELSE ByPool(kinds, x)
           /\ Max(ByCommunity(kinds, x) \cup {Len(logs) + 1}) = Len(logs) + 1
           /\ Cardinality(ByCommunity(kinds, x) \cup {Len(logs) + 1}) = Cardinality(ByCommunity(kinds, x)) + 1
           /\ Cardinality(ByPool(kinds, x) \cup {Len(logs) + 1}) = Cardinality(ByPool(kinds, x)) + 1
<1>1. logs \in Seq(Log)
  BY DEF TypeInv, StoresType
<1>2. PICK len \in Nat : len = Len(logs)
  BY <1>1
<1>3. PICK last \in Nat : last = len + 1
  OBVIOUS
<1>4. DOMAIN logs = 1..len /\ DOMAIN logs' = 1..last /\ logs'[last] = e
  BY <1>1, <1>2, <1>3 DEF One, Extended
<1>5. \A n \in 1..len : logs'[n] = logs[n]
  BY <1>2 DEF One, Extended
<1>6. 1..last = (1..len) \cup {last}
  BY <1>3
<1>7. PICK old : old = 1..len
  OBVIOUS
<1>8. last \notin old /\ \A n : n \in 1..last <=> n \in old \/ n = last
  BY <1>3, <1>6, <1>7
<1>9. ASSUME NEW n
      PROVE  n \in Of(kinds)' <=> n \in Of(kinds) \/ (n = last /\ e.kind \in kinds)
  <2>1. n \in Of(kinds)' <=> n \in 1..last /\ logs'[n].kind \in kinds
    BY <1>4 DEF Of
  <2>2. n \in Of(kinds) <=> n \in old /\ logs[n].kind \in kinds
    BY <1>4, <1>7 DEF Of
  <2>3. n \in old => logs'[n] = logs[n]
    BY <1>5, <1>7
  <2>4. CASE n \in old
    BY ONLY <1>8, <2>1, <2>2, <2>3, <2>4
  <2>5. CASE n = last
    BY ONLY <1>4, <1>8, <2>1, <2>2, <2>5
  <2> QED
    BY ONLY <1>8, <2>1, <2>2, <2>4, <2>5
<1>10. \A n \in Of(kinds) : logs'[n] = logs[n] /\ n # last
  BY <1>4, <1>5, <1>7, <1>8 DEF Of
<1>11. ASSUME NEW n
       PROVE  /\ n \in ByCommunity(kinds, x)'
                   <=> n \in ByCommunity(kinds, x) \/ (n = last /\ e.kind \in kinds /\ e.community = x)
              /\ n \in ByPool(kinds, x)'
                   <=> n \in ByPool(kinds, x) \/ (n = last /\ e.kind \in kinds /\ e.pool = x)
  <2>1. /\ n \in ByCommunity(kinds, x)' <=> n \in Of(kinds)' /\ logs'[n].community = x
        /\ n \in ByPool(kinds, x)' <=> n \in Of(kinds)' /\ logs'[n].pool = x
    BY DEF ByCommunity, ByPool
  <2>2. /\ n \in ByCommunity(kinds, x) <=> n \in Of(kinds) /\ logs[n].community = x
        /\ n \in ByPool(kinds, x) <=> n \in Of(kinds) /\ logs[n].pool = x
    BY DEF ByCommunity, ByPool
  <2>3. logs'[last] = e
    BY <1>4
  <2>4. CASE n = last
    BY ONLY <1>9, <1>10, <2>1, <2>2, <2>3, <2>4
  <2>5. CASE n # last
    BY ONLY <1>9, <1>10, <2>1, <2>2, <2>5
  <2> QED
    BY ONLY <2>4, <2>5
<1>12. ByCommunity(kinds, x)' = IF e.kind \in kinds /\ e.community = x
                                THEN ByCommunity(kinds, x) \cup {last} ELSE ByCommunity(kinds, x)
  <2>1. CASE e.kind \in kinds /\ e.community = x
    BY ONLY <1>11, <2>1
  <2>2. CASE ~ (e.kind \in kinds /\ e.community = x)
    BY ONLY <1>11, <2>2
  <2> QED
    BY ONLY <2>1, <2>2
<1>13. ByPool(kinds, x)' = IF e.kind \in kinds /\ e.pool = x
                           THEN ByPool(kinds, x) \cup {last} ELSE ByPool(kinds, x)
  <2>1. CASE e.kind \in kinds /\ e.pool = x
    BY ONLY <1>11, <2>1
  <2>2. CASE ~ (e.kind \in kinds /\ e.pool = x)
    BY ONLY <1>11, <2>2
  <2> QED
    BY ONLY <2>1, <2>2
<1> QED
  BY <1>1, <1>2, <1>3, <1>12, <1>13, ByType, NewLast

\* The last log of a community, and how many it and a pool have, after it.
LEMMA OneLast ==
    ASSUME TypeInv, NEW e, One(e), NEW kinds, NEW x
    PROVE  /\ e.kind \in kinds /\ e.community = x =>
                /\ ByCommunity(kinds, x)' # {}
                /\ logs'[Max(ByCommunity(kinds, x)')] = e
                /\ Cardinality(ByCommunity(kinds, x)') = Cardinality(ByCommunity(kinds, x)) + 1
           /\ ~ (e.kind \in kinds /\ e.community = x) =>
                /\ ByCommunity(kinds, x)' = ByCommunity(kinds, x)
                /\ ByCommunity(kinds, x) # {} =>
                     logs'[Max(ByCommunity(kinds, x))] = logs[Max(ByCommunity(kinds, x))]
           /\ e.kind \in kinds /\ e.pool = x =>
                /\ ByPool(kinds, x)' # {}
                /\ Cardinality(ByPool(kinds, x)') = Cardinality(ByPool(kinds, x)) + 1
           /\ ~ (e.kind \in kinds /\ e.pool = x) => ByPool(kinds, x)' = ByPool(kinds, x)
<1>1. PICK last : last = Len(logs) + 1
  OBVIOUS
<1>2. PICK old : old = ByCommunity(kinds, x)
  OBVIOUS
<1>3. /\ old \subseteq 1..Len(logs) /\ Len(logs) \in Nat
      /\ \A n \in 1..Len(logs) : logs'[n] = logs[n]
      /\ logs'[last] = e
  BY <1>1, <1>2, ByType DEF TypeInv, StoresType, One, Extended
<1>4. old # {} => logs'[Max(old)] = logs[Max(old)]
  BY <1>3, GreatestPosition
<1>5. ASSUME e.kind \in kinds, e.community = x
      PROVE  ByCommunity(kinds, x)' = old \cup {last} /\ Max(old \cup {last}) = last
             /\ Cardinality(old \cup {last}) = Cardinality(old) + 1
  BY <1>1, <1>2, <1>5, OneBy
<1>6. ~ (e.kind \in kinds /\ e.community = x) => ByCommunity(kinds, x)' = old
  BY <1>2, OneBy
<1>7. ASSUME e.kind \in kinds, e.pool = x
      PROVE  ByPool(kinds, x)' = ByPool(kinds, x) \cup {last}
             /\ Cardinality(ByPool(kinds, x) \cup {last}) = Cardinality(ByPool(kinds, x)) + 1
  BY <1>1, <1>7, OneBy
<1>8. ~ (e.kind \in kinds /\ e.pool = x) => ByPool(kinds, x)' = ByPool(kinds, x)
  BY OneBy
<1>9. ByCommunity(kinds, x)' = old \cup {last} /\ Max(old \cup {last}) = last =>
         ByCommunity(kinds, x)' # {} /\ logs'[Max(ByCommunity(kinds, x)')] = e
  BY <1>3
<1> QED
  BY <1>2, <1>4, <1>5, <1>6, <1>7, <1>8, <1>9

\* Logs keep fitting when the new one does, and creates no closed pool.
LEMMA OneFits ==
    ASSUME TypeInv, LogsInv, NEW e, One(e), Grown, Fits(e)',
           e.kind \in CreationKinds => home[e.pool] = None
    PROVE  LogsInv'
<1>1. logs \in Seq(Log)
  BY DEF TypeInv, StoresType
<1>2. PICK len \in Nat : len = Len(logs)
  BY <1>1
<1>3. PICK last \in Nat : last = len + 1
  OBVIOUS
<1>4. /\ DOMAIN logs = 1..len /\ Len(logs') = last /\ logs'[last] = e
      /\ \A n \in 1..len : logs'[n] = logs[n]
      /\ 1..last = (1..len) \cup {last} /\ (len + 1)..last = {last}
  BY <1>1, <1>2, <1>3 DEF One, Extended
<1>5. \A n \in (Len(logs) + 1)..Len(logs') : \A d \in Log : d = logs'[n] => Fits(d)'
  BY <1>2, <1>3, <1>4
<1>6. ASSUME NEW n \in 1..last, e.kind \in CreationKinds, logs'[n].kind = "ADMINCLOSEPOOL",
             e.pool = logs'[n].pool
      PROVE  FALSE
  <2>1. e.kind # "ADMINCLOSEPOOL"
    BY <1>6 DEF CreationKinds, PoolFactories
  <2>2. n \in 1..len /\ logs'[n] = logs[n] /\ logs[n].kind \in StatusKinds
    BY <1>4, <1>6, <2>1 DEF StatusKinds
  <2>3. home[logs[n].pool] # None
    BY <1>4, <2>2 DEF LogsInv, Fits
  <2> QED
    BY <1>6, <2>2, <2>3
<1>7. \A m \in (Len(logs) + 1)..Len(logs'), n \in 1..Len(logs') :
         logs'[m].kind \in CreationKinds /\ logs'[n].kind = "ADMINCLOSEPOOL"
           /\ logs'[m].pool = logs'[n].pool => m < n
  BY <1>2, <1>3, <1>4, <1>6
<1>8. Extended
  BY DEF One
<1> QED
  BY <1>5, <1>7, <1>8, LogsLater

\* Operations keep their actors when the new one has its own.
LEMMA OneActs ==
    ASSUME TypeInv, OwnersPending, Attributed, NEW e, One(e), Acts(e)
    PROVE  Attributed'
<1>1. Extended
  BY DEF One
<1>2. \A n \in (Len(logs) + 1)..Len(logs') : \A d \in Log : d = logs'[n] => Acts(d)
  BY OneNew DEF One
<1>3. OwnerKinds \cap AccountOfOwner = {}
  BY DEF OwnerKinds, AccountOfOwner, PoolFactories, AdminKinds
<1>4. NoNew(OwnerKinds) \/ NoNew(AccountOfOwner)
  BY <1>3, OneNew
<1> QED
  BY <1>1, <1>2, <1>4, AttributedLater

\* The committed rows stay right while a block is open.
LEMMA RowsStay ==
    ASSUME RowsInv, Extended
    PROVE  RowsInv'
<1>1. /\ history' = history /\ operations' = operations /\ block' = block /\ db' = db
  BY DEF Extended, stores
<1>2. OperationsPlaced'
  BY <1>1 DEF RowsInv, OperationsPlaced, LegacyRowsOf
<1>3. OperationsFollow'
  BY <1>1 DEF RowsInv, OperationsFollow
<1>4. CountsAreRowCounts'
  BY <1>1 DEF RowsInv, CountsAreRowCounts
<1> QED
  BY <1>2, <1>3, <1>4 DEF RowsInv

\* The community, pool and members of a step that changes none of them stay.
LEMMA MembersQuiet ==
    ASSUME TypeInv, MembersPending, Extended, owner' = owner,
           \A p \in Pools, u \in Users :
              staked'[<<p, u>>] > 0 => staked[<<p, u>>] > 0 /\ home'[p] = home[p]
    PROVE  MembersPending'
<1>1. Members \subseteq Members'
  BY MembersStay
<1>2. ASSUME NEW c \in Communities, owner'[c] # None
      PROVE  <<"community", c, owner'[c]>> \in Members'
  BY <1>1, <1>2 DEF MembersPending
<1>3. ASSUME NEW p \in Pools, NEW u \in Users, staked'[<<p, u>>] > 0
      PROVE  {<<"staker", p, u>>, <<"pool", p, u>>, <<"community", home'[p], u>>} \subseteq Members'
  <2>1. staked[<<p, u>>] > 0 /\ home'[p] = home[p]
    BY <1>3
  <2>2. {<<"staker", p, u>>, <<"pool", p, u>>, <<"community", home[p], u>>} \subseteq Members
    BY <2>1 DEF MembersPending
  <2> QED
    BY <1>1, <2>1, <2>2
<1> QED
  BY <1>2, <1>3 DEF MembersPending

\* What one log leaves alone.
LEMMA OneQuiet ==
    ASSUME TypeInv, RowsPending, NEW e, One(e)
    PROVE  /\ e.kind \notin OwnerKinds /\ owner' = owner => OwnersPending'
           /\ e.kind \notin FundKinds /\ fund' = fund => FundsPending'
           /\ e.kind \notin FeeKinds /\ fee' = fee => FeesPending'
           /\ e.kind \notin EarnKinds \cup PayKinds /\ retained' = retained => RevenuePending'
           /\ e.kind \notin StatusKinds /\ home' = home /\ closed' = closed => StatusPending'
           /\ e.kind \notin StakeKinds \cup UnstakeKinds /\ staked' = staked => StakesPending'
           /\ e.kind \notin ListKinds /\ listed' = listed => ListsPending'
           /\ owner' = owner /\ staked' = staked /\ home' = home => MembersPending'
<1>1. Extended
  BY DEF One
<1>2. e.kind \notin OwnerKinds => NoNew(OwnerKinds)
  BY OneNew
<1>3. e.kind \notin FundKinds => NoNew(FundKinds)
  BY OneNew
<1>4. e.kind \notin FeeKinds => NoNew(FeeKinds)
  BY OneNew
<1>5. e.kind \notin EarnKinds \cup PayKinds => NoNew(EarnKinds \cup PayKinds)
  BY OneNew
<1>6. e.kind \notin StatusKinds => NoNew(StatusKinds)
  BY OneNew
<1>7. e.kind \notin StakeKinds \cup UnstakeKinds => NoNew(StakeKinds \cup UnstakeKinds)
  BY OneNew
<1>8. e.kind \notin ListKinds => NoNew(ListKinds)
  BY OneNew
<1>9. owner' = owner /\ staked' = staked /\ home' = home => MembersPending'
  BY <1>1, MembersQuiet DEF RowsPending
<1> QED
  BY <1>1, <1>2, <1>3, <1>4, <1>5, <1>6, <1>7, <1>8, <1>9, OwnersQuiet, FundsQuiet, FeesQuiet,
     RevenueQuiet, StatusQuiet, StakesQuiet, ListsQuiet DEF RowsPending

\* The contracts stay right when pools, owners and lists stay.
LEMMA ContractsStay ==
    ASSUME ContractsInv, home' = home, origin' = origin, closed' = closed, staked' = staked,
           listed' = listed
    PROVE  ContractsInv'
BY DEF ContractsInv, Injective

\* Communities and pools stay in a step that leaves them.
LEMMA GrownStays ==
    ASSUME owner' = owner, home' = home
    PROVE  Grown
BY DEF Grown

\* Logs of these kinds need not fit anything.
LEMMA OtherFits ==
    ASSUME NEW e, e.kind \notin OwnerKinds, e.kind \notin StatusKinds, e.kind # "ADMINSETRATIO"
    PROVE  Fits(e)'
BY DEF Fits, StatusKinds, CreationKinds

\* A claim: the stake and everything else stays.
LEMMA ClaimStep ==
    ASSUME OpenInv, NEW kind \in {"REDEEM", "SOCIALCLAIM", "HARVEST", "TradeClaimed"},
           NEW p \in Pools, NEW u \in Users, Claim(kind, p, u)
    PROVE  OpenInv' /\ Extended
<1>1. TypeInv /\ RowsPending /\ ContractsInv /\ LogsInv /\ Attributed
  BY DEF OpenInv
<1>2. /\ kind \in LogKinds /\ kind \notin OwnerKinds /\ kind \notin StatusKinds
      /\ kind # "ADMINSETRATIO" /\ kind \notin ListKinds /\ kind \notin FundKinds /\ kind \notin FeeKinds
      /\ kind \notin EarnKinds \cup PayKinds /\ kind \notin StakeKinds \cup UnstakeKinds
      /\ kind \notin AccountOfOwner
  BY DEF LogKinds, DynamicKinds, V14Kinds, OwnerKinds, StatusKinds, CreationKinds, PoolFactories,
         FundKinds, EarnKinds, PayKinds, FeeKinds, ListKinds, StakeKinds, UnstakeKinds, AccountOfOwner, AdminKinds
<1>3. home[p] \in Communities \cup {None}
  BY <1>1 DEF TypeInv, ContractsType
<1>4. LogOf(kind, home[p], p, u, None, u) \in Log
  BY <1>2, <1>3, LogOfType
<1>5. PICK e \in Log : e = LogOf(kind, home[p], p, u, None, u)
  BY <1>4
<1>6. Emit(<<e>>) /\ e.kind = kind /\ e.account = e.actor
  BY <1>5 DEF Claim, UserLog, LogOf
<1>7. One(e) /\ RowsType'
  BY <1>1, <1>6, EmitOne
<1>8. /\ owner' = owner /\ home' = home /\ origin' = origin /\ closed' = closed /\ staked' = staked
      /\ fund' = fund /\ fee' = fee /\ retained' = retained /\ listed' = listed
  BY DEF Claim, contracts, pools, dao
<1>9. TypeInv'
  BY <1>1, <1>7, <1>8 DEF One, TypeInv, ContractsType
<1>10. ContractsInv'
  BY <1>1, <1>8, ContractsStay
<1>11. LogsInv'
  <2>1. Grown
    BY <1>8, GrownStays
  <2>2. Fits(e)'
    BY <1>2, <1>6, OtherFits
  <2>3. e.kind \notin CreationKinds
    BY <1>2, <1>6 DEF StatusKinds
  <2> QED
    BY <1>1, <1>7, <2>1, <2>2, <2>3, OneFits
<1>12. Attributed'
  <2>1. Acts(e)
    BY <1>2, <1>6 DEF Acts
  <2> QED
    BY <1>1, <1>7, <2>1, OneActs DEF RowsPending
<1>13. RowsPending'
  BY <1>1, <1>2, <1>6, <1>7, <1>8, OneQuiet DEF RowsPending
<1> QED
  BY <1>7, <1>9, <1>10, <1>11, <1>12, <1>13 DEF One, OpenInv

\* A new fee.
LEMMA SetFeeStep ==
    ASSUME OpenInv, NEW c \in Communities, SetFee(c)
    PROVE  OpenInv' /\ Extended
<1>1. TypeInv /\ RowsPending /\ ContractsInv /\ LogsInv /\ Attributed
  BY DEF OpenInv
<1>2. PICK kind : kind = "ADMINSETFEE"
  OBVIOUS
<1>3. /\ kind \in LogKinds /\ kind \notin OwnerKinds /\ kind \notin StatusKinds
      /\ kind # "ADMINSETRATIO" /\ kind \notin ListKinds /\ kind \notin FundKinds
      /\ kind \notin EarnKinds \cup PayKinds /\ kind \notin StakeKinds \cup UnstakeKinds
      /\ kind \in AccountOfOwner
  BY <1>2 DEF LogKinds, DynamicKinds, V14Kinds, OwnerKinds, StatusKinds, CreationKinds, PoolFactories,
         FundKinds, EarnKinds, PayKinds, FeeKinds, ListKinds, StakeKinds, UnstakeKinds, AccountOfOwner, AdminKinds
<1>4. owner[c] \in Users \cup {None} /\ fee[c] \in {0, 1} /\ fee \in [Communities -> {0, 1}]
  BY <1>1 DEF TypeInv, ContractsType
<1>5. PICK d \in Log : d = LogOf(kind, c, None, None, None, owner[c])
  BY <1>3, <1>4, LogOfType
<1>6. PICK e : e = [d EXCEPT !.ratio = 1 - fee[c]]
  OBVIOUS
<1>7. e \in Log /\ e.kind = kind /\ e.community = c /\ e.actor = owner[c] /\ e.ratio = 1 - fee[c]
  <2>1. 1 - fee[c] \in {0, 1}
    BY <1>4
  <2>2. e \in Log /\ e.kind = d.kind /\ e.community = d.community /\ e.actor = d.actor
          /\ e.ratio = 1 - fee[c]
    BY <1>6, <2>1 DEF Log
  <2> QED
    BY <1>5, <2>2 DEF LogOf
<1>8. Emit(<<e>>)
  BY <1>2, <1>5, <1>6 DEF SetFee, AdminLog
<1>9. One(e) /\ RowsType'
  BY <1>1, <1>7, <1>8, EmitOne
<1>10. /\ owner' = owner /\ home' = home /\ origin' = origin /\ closed' = closed /\ staked' = staked
       /\ fund' = fund /\ retained' = retained /\ listed' = listed
       /\ fee' = [fee EXCEPT ![c] = 1 - fee[c]]
  BY DEF SetFee, pools
<1>11. TypeInv'
  <2>1. fee' \in [Communities -> {0, 1}]
    BY <1>4, <1>10
  <2> QED
    BY <1>1, <1>9, <1>10, <2>1 DEF One, TypeInv, ContractsType
<1>12. ContractsInv'
  BY <1>1, <1>10, ContractsStay
<1>13. LogsInv'
  <2>1. Grown
    BY <1>10, GrownStays
  <2>2. Fits(e)'
    BY <1>3, <1>7, OtherFits
  <2>3. e.kind \notin CreationKinds
    BY <1>3, <1>7 DEF StatusKinds
  <2> QED
    BY <1>1, <1>9, <2>1, <2>2, <2>3, OneFits
<1>14. Attributed'
  <2>1. Acts(e)
    BY <1>3, <1>7 DEF Acts
  <2> QED
    BY <1>1, <1>9, <2>1, OneActs DEF RowsPending
<1>15. FeesPending'
  <2>1. RowsIn'
    BY RowsAre, PTL
  <2> SUFFICES ASSUME NEW x \in Communities PROVE FeeAfter(x)' = fee'[x]
    BY DEF FeesPending
  <2>2. kind \in FeeKinds
    BY <1>2 DEF FeeKinds
  <2>3. CASE x = c
    <3>1. FeeAfter(x)' = e.ratio
      BY <1>1, <1>7, <1>9, <2>1, <2>2, <2>3, OneLast DEF RowsIn
    <3> QED
      BY <1>4, <1>7, <1>10, <2>3, <3>1
  <2>4. CASE x # c
    <3>1. RowsIn /\ db' = db /\ FeeAfter(x) = fee[x]
      BY <1>1, <1>9, RowsAre DEF One, Extended, RowsPending, FeesPending
    <3>2. FeeAfter(x)' = FeeAfter(x)
      BY <1>1, <1>7, <1>9, <2>1, <2>4, <3>1, OneLast DEF RowsIn
    <3> QED
      BY <1>4, <1>10, <2>4, <3>1, <3>2
  <2> QED
    BY <2>3, <2>4
<1>16. RowsPending'
  BY <1>1, <1>2, <1>3, <1>7, <1>9, <1>10, <1>15, OneQuiet DEF RowsPending
<1> QED
  BY <1>9, <1>11, <1>12, <1>13, <1>14, <1>16 DEF One, OpenInv

\* What is left to show of a step with one log.
LEMMA OneStep ==
    ASSUME OpenInv, NEW e, One(e), RowsType', ContractsType', ContractsInv', Grown, Fits(e)',
           e.kind \in CreationKinds => home[e.pool] = None, Acts(e), RowsPending'
    PROVE  OpenInv' /\ Extended
<1>1. TypeInv /\ RowsPending /\ LogsInv /\ Attributed
  BY DEF OpenInv
<1>2. LogsInv'
  BY <1>1, OneFits
<1>3. Attributed'
  BY <1>1, OneActs DEF RowsPending
<1>4. TypeInv'
  BY DEF One, TypeInv
<1> QED
  BY <1>2, <1>3, <1>4 DEF One, OpenInv

\* A new fund.
LEMMA SetFundStep ==
    ASSUME OpenInv, NEW c \in Communities, NEW u \in Users, SetFund(c, u)
    PROVE  OpenInv' /\ Extended
<1>1. TypeInv /\ RowsPending /\ ContractsInv
  BY DEF OpenInv
<1>2. PICK kind : kind = "ADMINSETDAOFUND"
  OBVIOUS
<1>3. /\ kind \in LogKinds /\ kind \notin OwnerKinds /\ kind \notin StatusKinds
      /\ kind # "ADMINSETRATIO" /\ kind \notin ListKinds /\ kind \in FundKinds /\ kind \notin FeeKinds
      /\ kind \notin EarnKinds \cup PayKinds /\ kind \notin StakeKinds \cup UnstakeKinds
      /\ kind \in AccountOfOwner
  BY <1>2 DEF LogKinds, DynamicKinds, V14Kinds, OwnerKinds, StatusKinds, CreationKinds, PoolFactories,
         FundKinds, EarnKinds, PayKinds, FeeKinds, ListKinds, StakeKinds, UnstakeKinds, AccountOfOwner, AdminKinds
<1>4. owner[c] \in Users \cup {None} /\ fund \in [Communities -> Users \cup {None}]
  BY <1>1 DEF TypeInv, ContractsType
<1>5. PICK e \in Log : e = LogOf(kind, c, None, u, None, owner[c])
  BY <1>3, <1>4, LogOfType
<1>6. Emit(<<e>>) /\ e.kind = kind /\ e.community = c /\ e.account = u /\ e.actor = owner[c]
  BY <1>2, <1>5 DEF SetFund, AdminLog, LogOf
<1>7. One(e) /\ RowsType'
  BY <1>1, <1>6, EmitOne
<1>8. /\ owner' = owner /\ home' = home /\ origin' = origin /\ closed' = closed /\ staked' = staked
      /\ fee' = fee /\ retained' = retained /\ listed' = listed
      /\ fund' = [fund EXCEPT ![c] = u]
  BY DEF SetFund, pools
<1>9. ContractsType'
  <2>1. fund' \in [Communities -> Users \cup {None}]
    BY <1>4, <1>8
  <2> QED
    BY <1>1, <1>8, <2>1 DEF TypeInv, ContractsType
<1>10. ContractsInv' /\ Grown
  BY <1>1, <1>8, ContractsStay, GrownStays
<1>11. Fits(e)' /\ e.kind \notin CreationKinds
  BY <1>3, <1>6, OtherFits DEF StatusKinds
<1>12. Acts(e)
  BY <1>3, <1>6 DEF Acts
<1>13. FundsPending'
  <2>1. RowsIn'
    BY RowsAre, PTL
  <2> SUFFICES ASSUME NEW x \in Communities PROVE FundAfter(x)' = fund'[x]
    BY DEF FundsPending
  <2>2. CASE x = c
    <3>1. FundAfter(x)' = e.account
      BY <1>1, <1>3, <1>6, <1>7, <2>1, <2>2, OneLast DEF RowsIn
    <3> QED
      BY <1>4, <1>6, <1>8, <2>2, <3>1
  <2>3. CASE x # c
    <3>1. RowsIn /\ db' = db /\ FundAfter(x) = fund[x]
      BY <1>1, <1>7, RowsAre DEF One, Extended, RowsPending, FundsPending
    <3>2. FundAfter(x)' = FundAfter(x)
      BY <1>1, <1>6, <1>7, <2>1, <2>3, <3>1, OneLast DEF RowsIn
    <3> QED
      BY <1>4, <1>8, <2>3, <3>1, <3>2
  <2> QED
    BY <2>2, <2>3
<1>14. RowsPending'
  BY <1>1, <1>3, <1>6, <1>7, <1>8, <1>13, OneQuiet DEF RowsPending
<1> QED
  BY <1>7, <1>9, <1>10, <1>11, <1>12, <1>14, OneStep

\* Revenue, earned or paid.
LEMMA RevenueMoves ==
    ASSUME OpenInv, NEW c \in Communities, NEW e, One(e), RowsType', e.community = c,
           e.kind \in EarnKinds \cup PayKinds, Acts(e),
           e.kind \in PayKinds => retained[c] > 0,
           retained' = [retained EXCEPT ![c] = IF e.kind \in EarnKinds THEN @ + 1 ELSE @ - 1],
           owner' = owner, pools' = pools, fund' = fund, fee' = fee, listed' = listed
    PROVE  OpenInv' /\ Extended
<1>1. TypeInv /\ RowsPending /\ ContractsInv
  BY DEF OpenInv
<1>2. /\ e.kind \notin OwnerKinds /\ e.kind \notin StatusKinds
      /\ e.kind # "ADMINSETRATIO" /\ e.kind \notin ListKinds /\ e.kind \notin FundKinds
      /\ e.kind \notin FeeKinds /\ e.kind \notin StakeKinds \cup UnstakeKinds
  BY DEF OwnerKinds, StatusKinds, CreationKinds, PoolFactories,
         FundKinds, EarnKinds, PayKinds, FeeKinds, ListKinds, StakeKinds, UnstakeKinds
<1>3. EarnKinds \cap PayKinds = {}
  BY DEF EarnKinds, PayKinds
<1>4. /\ home' = home /\ origin' = origin /\ closed' = closed /\ staked' = staked
  BY DEF pools
<1>5. retained \in [Communities -> Nat]
  BY <1>1 DEF TypeInv, ContractsType
<1>6. ContractsType'
  <2>1. retained[c] \in Nat /\ (e.kind \in EarnKinds \/ retained[c] > 0)
    BY <1>5
  <2>2. (IF e.kind \in EarnKinds THEN retained[c] + 1 ELSE retained[c] - 1) \in Nat
    BY <2>1
  <2>3. retained' \in [Communities -> Nat]
    BY <1>5, <2>2
  <2> QED
    BY <1>1, <1>4, <2>3 DEF TypeInv, ContractsType
<1>7. ContractsInv' /\ Grown
  BY <1>1, <1>4, ContractsStay, GrownStays
<1>8. Fits(e)' /\ e.kind \notin CreationKinds
  BY <1>2, OtherFits DEF StatusKinds
<1>9. RevenuePending'
  <2>0. RowsIn /\ RowsIn'
    BY RowsAre, PTL
  <2>1. RowsIn /\ RowsIn' /\ db' = db
    BY <2>0 DEF One, Extended
  <2> SUFFICES ASSUME NEW x \in Communities
               PROVE  db'.retained_revenue[x] + Count("POOL_UPDATED", x)' - Count("ADMINWITHDRAWNREVENUE", x)'
                        = retained'[x]
    BY DEF RevenuePending
  <2>2. PICK earned \in Nat : earned = Cardinality(ByCommunity(EarnKinds, x))
    BY <1>1, ByType DEF TypeInv, StoresType
  <2>3. PICK paid \in Nat : paid = Cardinality(ByCommunity(PayKinds, x))
    BY <1>1, ByType DEF TypeInv, StoresType
  <2>4. db.retained_revenue[x] + earned - paid = retained[x] /\ db.retained_revenue[x] \in Int
    BY <1>1, <2>1, <2>2, <2>3 DEF RowsPending, RevenuePending, RowsIn, TypeInv, RowsType
  <2>5. CASE x # c
    <3>1. /\ Cardinality(ByCommunity(EarnKinds, x)') = earned
          /\ Cardinality(ByCommunity(PayKinds, x)') = paid
      BY <1>1, <2>2, <2>3, <2>5, OneLast
    <3> QED
      BY <1>5, <2>1, <2>4, <2>5, <3>1 DEF RowsIn
  <2>6. CASE x = c /\ e.kind \in EarnKinds
    <3>1. /\ Cardinality(ByCommunity(EarnKinds, x)') = earned + 1
          /\ Cardinality(ByCommunity(PayKinds, x)') = paid
      BY <1>1, <1>3, <2>2, <2>3, <2>6, OneLast
    <3>2. retained'[x] = retained[x] + 1
      BY <1>5, <2>6
    <3> QED
      BY <2>1, <2>4, <3>1, <3>2 DEF RowsIn
  <2>7. CASE x = c /\ e.kind \in PayKinds
    <3>1. /\ Cardinality(ByCommunity(EarnKinds, x)') = earned
          /\ Cardinality(ByCommunity(PayKinds, x)') = paid + 1
      BY <1>1, <1>3, <2>2, <2>3, <2>7, OneLast
    <3>2. retained'[x] = retained[x] - 1
      BY <1>3, <1>5, <2>7
    <3> QED
      BY <2>1, <2>4, <3>1, <3>2 DEF RowsIn
  <2> QED
    BY <2>5, <2>6, <2>7
<1>10. RowsPending'
  BY <1>1, <1>2, <1>4, <1>9, OneQuiet DEF RowsPending
<1> QED
  BY <1>6, <1>7, <1>8, <1>10, OneStep

\* Earning it.
LEMMA EarnStep ==
    ASSUME OpenInv, NEW c \in Communities, Earn(c)
    PROVE  OpenInv' /\ Extended
<1>1. TypeInv
  BY DEF OpenInv
<1>2. PICK kind : kind = "POOL_UPDATED"
  OBVIOUS
<1>3. kind \in LogKinds /\ kind \in EarnKinds /\ kind \notin PayKinds /\ kind \notin AccountOfOwner
  BY <1>2 DEF LogKinds, DynamicKinds, EarnKinds, PayKinds, AccountOfOwner, AdminKinds, PoolFactories
<1>4. PICK e \in Log : e = LogOf(kind, c, None, None, None, None)
  BY <1>3, LogOfType
<1>5. Emit(<<e>>) /\ e.kind = kind /\ e.community = c
  BY <1>2, <1>4 DEF Earn, LogOf
<1>6. One(e) /\ RowsType'
  BY <1>1, <1>5, EmitOne
<1>7. Acts(e)
  BY <1>2, <1>3, <1>5 DEF Acts
<1>8. /\ retained' = [retained EXCEPT ![c] = @ + 1]
      /\ owner' = owner /\ pools' = pools /\ fund' = fund /\ fee' = fee /\ listed' = listed
  BY DEF Earn
<1> QED
  BY <1>3, <1>5, <1>6, <1>7, <1>8, RevenueMoves

\* Paying it.
LEMMA PayRevenueStep ==
    ASSUME OpenInv, NEW c \in Communities, PayRevenue(c)
    PROVE  OpenInv' /\ Extended
<1>1. TypeInv
  BY DEF OpenInv
<1>2. PICK kind : kind = "ADMINWITHDRAWNREVENUE"
  OBVIOUS
<1>3. kind \in LogKinds /\ kind \notin EarnKinds /\ kind \in PayKinds /\ kind \in AccountOfOwner
  BY <1>2 DEF LogKinds, DynamicKinds, EarnKinds, PayKinds, AccountOfOwner, AdminKinds
<1>4. owner[c] \in Users \cup {None} /\ fund[c] \in Users \cup {None}
  BY <1>1 DEF TypeInv, ContractsType
<1>5. PICK e \in Log : e = LogOf(kind, c, None, fund[c], None, owner[c])
  BY <1>3, <1>4, LogOfType
<1>6. Emit(<<e>>) /\ e.kind = kind /\ e.community = c /\ e.actor = owner[c]
  BY <1>2, <1>5 DEF PayRevenue, AdminLog, LogOf
<1>7. One(e) /\ RowsType'
  BY <1>1, <1>6, EmitOne
<1>8. Acts(e)
  BY <1>3, <1>6 DEF Acts
<1>9. /\ retained' = [retained EXCEPT ![c] = @ - 1] /\ retained[c] > 0
      /\ owner' = owner /\ pools' = pools /\ fund' = fund /\ fee' = fee /\ listed' = listed
  BY DEF PayRevenue
<1> QED
  BY <1>3, <1>6, <1>7, <1>8, <1>9, RevenueMoves

\* A new list of ratios.
LEMMA SetRatiosStep ==
    ASSUME OpenInv, NEW c \in Communities, SetRatios(c)
    PROVE  OpenInv' /\ Extended
<1>1. TypeInv /\ RowsPending /\ ContractsInv
  BY DEF OpenInv
<1>2. PICK kind : kind = "ADMINSETRATIO"
  OBVIOUS
<1>3. /\ kind \in LogKinds /\ kind \notin OwnerKinds /\ kind \notin StatusKinds
      /\ kind \in ListKinds /\ kind \notin FundKinds /\ kind \notin FeeKinds
      /\ kind \notin EarnKinds \cup PayKinds /\ kind \notin StakeKinds \cup UnstakeKinds
      /\ kind \in AccountOfOwner
  BY <1>2 DEF LogKinds, DynamicKinds, V14Kinds, OwnerKinds, StatusKinds, CreationKinds, PoolFactories,
         FundKinds, EarnKinds, PayKinds, FeeKinds, ListKinds, StakeKinds, UnstakeKinds, AccountOfOwner, AdminKinds
<1>4. /\ owner[c] \in Users \cup {None} /\ listed \in [Communities -> Seq(Pools)]
      /\ home \in [Pools -> Communities \cup {None}]
  BY <1>1 DEF TypeInv, ContractsType
<1>5. PICK open : open = {p \in Pools : home[p] = c /\ p \notin closed}
  OBVIOUS
<1>6. PICK list \in SetToSeqs(open) :
         /\ listed' = [listed EXCEPT ![c] = list]
         /\ Emit(<<[AdminLog("ADMINSETRATIO", c, None, None) EXCEPT !.pools = list]>>)
  BY <1>5 DEF SetRatios
<1>7. list \in Seq(Pools) /\ Injective(list) /\ \A i \in DOMAIN list : home[list[i]] = c
  <2>1. IsFiniteSet(open) /\ open \subseteq Pools
    <3>1. open \subseteq Communities \cup LegacyPools \cup CurationPools \cup Users
      BY <1>5 DEF Pools
    <3> QED
      BY <1>5, <3>1, FS_Subset, WalnutAssumption
  <2>2. PICK size \in Nat : size = Cardinality(open)
    BY <2>1, FS_CardinalityType
  <2>3. list \in [1..size -> open] /\ \A i, j \in DOMAIN list : list[i] = list[j] => i = j
    BY <2>2 DEF SetToSeqs
  <2>4. list \in [1..size -> Pools]
    BY <2>1, <2>3
  <2> QED
    BY <1>5, <2>3, <2>4 DEF Injective
<1>8. PICK d \in Log : d = LogOf(kind, c, None, None, None, owner[c])
  BY <1>3, <1>4, LogOfType
<1>9. PICK e : e = [d EXCEPT !.pools = list]
  OBVIOUS
<1>10. e \in Log /\ e.kind = kind /\ e.community = c /\ e.actor = owner[c] /\ e.pools = list
  <2>1. e \in Log /\ e.kind = d.kind /\ e.community = d.community /\ e.actor = d.actor /\ e.pools = list
    BY <1>7, <1>9 DEF Log
  <2> QED
    BY <1>8, <2>1 DEF LogOf
<1>11. Emit(<<e>>)
  BY <1>2, <1>6, <1>8, <1>9 DEF AdminLog
<1>12. One(e) /\ RowsType'
  BY <1>1, <1>10, <1>11, EmitOne
<1>13. /\ owner' = owner /\ home' = home /\ origin' = origin /\ closed' = closed /\ staked' = staked
       /\ fund' = fund /\ fee' = fee /\ retained' = retained
  BY DEF SetRatios, pools
<1>14. ContractsType'
  <2>1. listed' \in [Communities -> Seq(Pools)]
    BY <1>4, <1>6, <1>7
  <2> QED
    BY <1>1, <1>13, <2>1 DEF TypeInv, ContractsType
<1>15. ContractsInv'
  <2>1. ASSUME NEW x \in Communities
        PROVE  Injective(listed'[x]) /\ \A i \in DOMAIN listed'[x] : home[listed'[x][i]] = x
    <3>1. CASE x = c
      <4>1. listed'[x] = list
        BY <1>4, <1>6, <3>1
      <4> QED
        BY <1>7, <3>1, <4>1 DEF Injective
    <3>2. CASE x # c
      <4>1. listed'[x] = listed[x]
        BY <1>4, <1>6, <3>2
      <4> QED
        BY <1>1, <4>1 DEF ContractsInv, Injective
    <3> QED
      BY <3>1, <3>2
  <2> QED
    BY <1>1, <1>13, <2>1 DEF ContractsInv, Injective
<1>16. Grown
  BY <1>13, GrownStays
<1>17. Fits(e)' /\ e.kind \notin CreationKinds
  BY <1>3, <1>7, <1>10, <1>13 DEF Fits, StatusKinds, CreationKinds
<1>18. Acts(e)
  BY <1>3, <1>10 DEF Acts
<1>19. ListsPending'
  <2>1. RowsIn /\ RowsIn'
    BY RowsAre, PTL
  <2>2. db' = db
    BY <1>12 DEF One, Extended
  <2>3. ASSUME NEW x \in Communities
        PROVE  IF Lists(x)' = {}
               THEN /\ db.active_pool_count[x] = Len(listed'[x])
                    /\ \A i \in DOMAIN listed'[x] : db.pool_index[listed'[x][i]] = i
               ELSE logs'[Max(Lists(x)')].pools = listed'[x]
    <3>1. CASE x = c
      <4>1. Lists(x)' # {} /\ logs'[Max(Lists(x)')] = e
        BY <1>1, <1>3, <1>10, <1>12, <2>1, <3>1, OneLast DEF RowsIn
      <4>2. listed'[x] = list
        BY <1>4, <1>6, <3>1
      <4> QED
        BY <1>10, <4>1, <4>2
    <3>2. CASE x # c
      <4>1. Lists(x)' = Lists(x) /\ (Lists(x) # {} => logs'[Max(Lists(x))] = logs[Max(Lists(x))])
        BY <1>1, <1>10, <1>12, <2>1, <3>2, OneLast DEF RowsIn
      <4>2. listed'[x] = listed[x]
        BY <1>4, <1>6, <3>2
      <4> QED
        BY <1>1, <4>1, <4>2 DEF RowsPending, ListsPending
    <3> QED
      BY <3>1, <3>2
  <2> QED
    BY <2>2, <2>3 DEF ListsPending
<1>20. RowsPending'
  BY <1>1, <1>3, <1>10, <1>12, <1>13, <1>19, OneQuiet DEF RowsPending
<1> QED
  BY <1>12, <1>14, <1>15, <1>16, <1>17, <1>18, <1>20, OneStep

\* The pending states after a log about a pool.
LEMMA StatusMoves ==
    ASSUME TypeInv, StatusPending, NEW e, One(e), NEW p \in Pools, e.kind \in StatusKinds, e.pool = p,
           \A q \in Pools \ {p} : (home'[q] = None <=> home[q] = None) /\ (q \in closed' <=> q \in closed),
           home'[p] # None,
           e.kind = "ADMINCLOSEPOOL" => p \in closed',
           e.kind \in CreationKinds => home[p] = None /\ p \notin closed'
    PROVE  StatusPending'
<1>1. RowsIn /\ RowsIn'
  BY RowsAre, PTL
<1>2. db' = db
  BY DEF One, Extended
<1>3. CreationKinds \cap CloseKinds = {} /\ \A k : k \in CloseKinds <=> k = "ADMINCLOSEPOOL"
  BY DEF CreationKinds, PoolFactories, CloseKinds
<1> SUFFICES ASSUME NEW q \in Pools
             PROVE  PendingStatus(q)' = IF home'[q] = None THEN None
                                        ELSE IF q \in closed' THEN "CLOSED" ELSE "OPENED"
  BY DEF StatusPending
<1>4. PendingStatus(q)' = IF ClosedNow(q)' THEN "CLOSED"
                          ELSE IF CreatedNow(q)' THEN "OPENED" ELSE db.status[q]
  BY <1>2 DEF PendingStatus
<1>5. PendingStatus(q) = IF home[q] = None THEN None ELSE IF q \in closed THEN "CLOSED" ELSE "OPENED"
  BY DEF StatusPending
<1>6. CASE q # p
  <2>1. (ClosedNow(q)' <=> ClosedNow(q)) /\ (CreatedNow(q)' <=> CreatedNow(q))
    BY <1>1, <1>6, OneLast DEF RowsIn
  <2> QED
    BY <1>4, <1>5, <1>6, <2>1 DEF PendingStatus
<1>7. CASE q = p /\ e.kind = "ADMINCLOSEPOOL"
  <2>1. ClosedNow(q)'
    BY <1>1, <1>3, <1>7, OneLast DEF RowsIn
  <2> QED
    BY <1>4, <1>7, <2>1
<1>8. CASE q = p /\ e.kind \in CreationKinds
  <2>1. CreatedNow(q)' /\ (ClosedNow(q)' <=> ClosedNow(q))
    BY <1>1, <1>3, <1>8, OneLast DEF RowsIn
  <2>2. ~ ClosedNow(q)
    <3>1. PendingStatus(q) = None
      BY <1>5, <1>8
    <3>2. None # "CLOSED"
      BY WalnutAssumption
    <3> QED
      BY <3>1, <3>2 DEF PendingStatus
  <2> QED
    BY <1>4, <1>8, <2>1, <2>2
<1> QED
  BY <1>6, <1>7, <1>8 DEF StatusKinds

\* A pool closes.
LEMMA ClosePoolStep ==
    ASSUME OpenInv, NEW p \in Pools, ClosePool(p)
    PROVE  OpenInv' /\ Extended
<1>1. TypeInv /\ RowsPending /\ ContractsInv
  BY DEF OpenInv
<1>2. PICK kind : kind = "ADMINCLOSEPOOL"
  OBVIOUS
<1>3. /\ kind \in LogKinds /\ kind \notin OwnerKinds /\ kind \in StatusKinds /\ kind \notin CreationKinds
      /\ kind # "ADMINSETRATIO" /\ kind \notin ListKinds /\ kind \notin FundKinds /\ kind \notin FeeKinds
      /\ kind \notin EarnKinds \cup PayKinds /\ kind \notin StakeKinds \cup UnstakeKinds
      /\ kind \in AccountOfOwner
  BY <1>2 DEF LogKinds, DynamicKinds, V14Kinds, OwnerKinds, StatusKinds, CreationKinds, PoolFactories,
         FundKinds, EarnKinds, PayKinds, FeeKinds, ListKinds, StakeKinds, UnstakeKinds, AccountOfOwner, AdminKinds
<1>4. PICK c \in Communities : c = home[p]
  BY <1>1 DEF TypeInv, ContractsType, ClosePool
<1>5. owner[c] \in Users \cup {None} /\ closed \subseteq Pools
  BY <1>1 DEF TypeInv, ContractsType
<1>6. PICK e \in Log : e = LogOf(kind, c, p, owner[c], None, owner[c])
  BY <1>3, <1>5, LogOfType
<1>7. Emit(<<e>>) /\ e.kind = kind /\ e.community = c /\ e.pool = p /\ e.actor = owner[c]
  BY <1>2, <1>4, <1>6 DEF ClosePool, AdminLog, LogOf
<1>8. One(e) /\ RowsType'
  BY <1>1, <1>7, EmitOne
<1>9. /\ owner' = owner /\ home' = home /\ origin' = origin /\ staked' = staked
      /\ fund' = fund /\ fee' = fee /\ retained' = retained /\ listed' = listed
      /\ closed' = closed \cup {p} /\ home[p] # None
  BY DEF ClosePool, dao
<1>10. ContractsType'
  BY <1>1, <1>5, <1>9 DEF TypeInv, ContractsType
<1>11. ContractsInv' /\ Grown
  <2>1. \A q \in Pools : home[q] = None => q \notin closed'
    BY <1>1, <1>9 DEF ContractsInv
  <2> QED
    BY <1>1, <1>9, <2>1, GrownStays DEF ContractsInv, Injective
<1>12. Fits(e)'
  BY <1>3, <1>7, <1>9 DEF Fits, CreationKinds
<1>13. Acts(e)
  BY <1>3, <1>7 DEF Acts
<1>14. StatusPending'
  BY <1>1, <1>3, <1>7, <1>8, <1>9, StatusMoves DEF RowsPending
<1>15. RowsPending'
  BY <1>1, <1>3, <1>7, <1>8, <1>9, <1>14, OneQuiet DEF RowsPending
<1> QED
  BY <1>3, <1>7, <1>8, <1>10, <1>11, <1>12, <1>13, <1>15, OneStep

\* A pool is announced, by either factory.
LEMMA CreatePoolStep ==
    ASSUME OpenInv, NEW kind \in CreationKinds, NEW c \in Communities, NEW p \in Pools,
           kind \in PoolFactories => p \in LegacyPools,
           kind = "TradeCurationCreated" => p \in CurationPools, CreatePool(kind, c, p)
    PROVE  OpenInv' /\ Extended
<1>1. TypeInv /\ RowsPending /\ ContractsInv
  BY DEF OpenInv
<1>2. /\ kind \in LogKinds /\ kind \notin OwnerKinds /\ kind \in StatusKinds /\ kind # "ADMINCLOSEPOOL"
      /\ kind # "ADMINSETRATIO" /\ kind \notin ListKinds /\ kind \notin FundKinds /\ kind \notin FeeKinds
      /\ kind \notin EarnKinds \cup PayKinds /\ kind \notin StakeKinds \cup UnstakeKinds
      /\ kind \in AccountOfOwner
  BY DEF LogKinds, DynamicKinds, FactoryKinds, V14Kinds, OwnerKinds, StatusKinds, CreationKinds, PoolFactories,
         FundKinds, EarnKinds, PayKinds, FeeKinds, ListKinds, StakeKinds, UnstakeKinds, AccountOfOwner, AdminKinds
<1>3. /\ owner[c] \in Users \cup {None} /\ home \in [Pools -> Communities \cup {None}]
      /\ listed \in [Communities -> Seq(Pools)]
  BY <1>1 DEF TypeInv, ContractsType
<1>4. PICK e \in Log : e = LogOf(kind, c, p, owner[c], None, owner[c])
  BY <1>2, <1>3, LogOfType
<1>5. Emit(<<e>>) /\ e.kind = kind /\ e.community = c /\ e.pool = p /\ e.actor = owner[c]
  BY <1>4 DEF CreatePool, LogOf
<1>6. One(e) /\ RowsType'
  BY <1>1, <1>5, EmitOne
<1>7. /\ owner' = owner /\ closed' = closed /\ staked' = staked
      /\ fund' = fund /\ fee' = fee /\ retained' = retained /\ listed' = listed
      /\ home' = [home EXCEPT ![p] = c] /\ home[p] = None
      /\ origin' = [origin EXCEPT ![p] = kind]
  BY DEF CreatePool, dao
<1>8. c # None
  BY WalnutAssumption
<1>9. /\ home' \in [Pools -> Communities \cup {None}] /\ home'[p] = c
      /\ \A q \in Pools \ {p} : home'[q] = home[q]
  BY <1>3, <1>7
<1>10. ContractsType'
  BY <1>1, <1>7, <1>9 DEF TypeInv, ContractsType
<1>11. Grown
  BY <1>7, <1>9 DEF Grown
<1>12. ContractsInv'
  <2>1. ASSUME NEW q \in Pools, home'[q] = None
        PROVE  origin'[q] = None /\ q \notin closed' /\ \A u \in Users : staked'[<<q, u>>] = 0
    <3>1. q # p /\ home[q] = None
      BY <1>8, <1>9, <2>1
    <3>2. origin[q] = None /\ q \notin closed /\ \A u \in Users : staked[<<q, u>>] = 0
      BY <1>1, <3>1 DEF ContractsInv
    <3>3. origin'[q] = origin[q]
      BY <1>7, <3>1
    <3> QED
      BY <1>7, <3>2, <3>3
  <2>2. ASSUME NEW x \in Communities, NEW i \in DOMAIN listed[x]
        PROVE  home'[listed[x][i]] = x
    <3>1. listed[x][i] \in Pools
      BY <1>3
    <3>2. home[listed[x][i]] = x /\ x # None
      BY <1>1, WalnutAssumption DEF ContractsInv
    <3> QED
      BY <3>1, <3>2, <1>11 DEF Grown
  <2>3. \A x \in Communities : Injective(listed[x])'
    BY <1>1, <1>7 DEF ContractsInv, Injective
  <2> QED
    BY <1>7, <2>1, <2>2, <2>3 DEF ContractsInv
<1>13. Fits(e)'
  BY <1>2, <1>5, <1>8, <1>9 DEF Fits
<1>14. Acts(e)
  BY <1>2, <1>5 DEF Acts
<1>15. StatusPending'
  <2>1. p \notin closed'
    BY <1>1, <1>7 DEF ContractsInv
  <2> QED
    BY <1>1, <1>2, <1>5, <1>6, <1>7, <1>8, <1>9, <2>1, StatusMoves DEF RowsPending
<1>16. MembersPending'
  <2>1. ASSUME NEW q \in Pools, NEW u \in Users, staked'[<<q, u>>] > 0
        PROVE  staked[<<q, u>>] > 0 /\ home'[q] = home[q]
    <3>1. staked[<<q, u>>] > 0
      BY <1>7, <2>1
    <3>2. q # p
      BY <1>1, <1>7, <3>1 DEF ContractsInv
    <3> QED
      BY <1>9, <3>1, <3>2
  <2> QED
    BY <1>1, <1>6, <1>7, <2>1, MembersQuiet DEF RowsPending, One
<1>17. RowsPending'
  BY <1>1, <1>2, <1>5, <1>6, <1>7, <1>15, <1>16, OneQuiet DEF RowsPending
<1> QED
  BY <1>5, <1>6, <1>7, <1>10, <1>11, <1>12, <1>13, <1>14, <1>17, OneStep

-----------------------------------------------------------------------------
(***************************************************************************)
(* Deposits and withdrawals.                                               *)
(***************************************************************************)
\* A stake that changes by one, with the log that says so.
LEMMA StakesMove ==
    ASSUME OpenInv, NEW p \in Pools, NEW u \in Users, NEW e, One(e), RowsType',
           e.kind \in StakeKinds \cup UnstakeKinds, e.pool = p, e.community = home[p],
           e.account = u, e.actor = u, home[p] # None,
           e.kind \in UnstakeKinds => staked[<<p, u>>] > 0,
           staked' = [staked EXCEPT ![<<p, u>>] = IF e.kind \in StakeKinds THEN @ + 1 ELSE @ - 1],
           owner' = owner, home' = home, origin' = origin, closed' = closed,
           fund' = fund, fee' = fee, retained' = retained, listed' = listed
    PROVE  OpenInv' /\ Extended
<1>1. TypeInv /\ RowsPending /\ ContractsInv
  BY DEF OpenInv
<1>2. /\ e.kind \notin OwnerKinds /\ e.kind \notin StatusKinds /\ e.kind \notin AccountOfOwner
      /\ e.kind # "ADMINSETRATIO" /\ e.kind \notin ListKinds /\ e.kind \notin FundKinds
      /\ e.kind \notin FeeKinds /\ e.kind \notin EarnKinds \cup PayKinds
  BY DEF OwnerKinds, StatusKinds, CreationKinds, PoolFactories, AccountOfOwner, AdminKinds,
         FundKinds, EarnKinds, PayKinds, FeeKinds, ListKinds, StakeKinds, UnstakeKinds
<1>3. StakeKinds \cap UnstakeKinds = {}
  BY DEF StakeKinds, UnstakeKinds
<1>4. staked \in [Pools \X Users -> Nat]
  BY <1>1 DEF TypeInv, ContractsType
<1>5. PICK was \in Nat : was = staked[<<p, u>>]
  BY <1>4
<1>6. PICK now \in Nat : now = IF e.kind \in StakeKinds THEN was + 1 ELSE was - 1
  <2>1. e.kind \in StakeKinds \/ was > 0
    BY <1>5
  <2>2. (IF e.kind \in StakeKinds THEN was + 1 ELSE was - 1) \in Nat
    BY <2>1
  <2> QED
    BY <2>2
<1>7. /\ staked' \in [Pools \X Users -> Nat] /\ staked'[<<p, u>>] = now
      /\ \A q \in Pools, v \in Users : <<q, v>> # <<p, u>> => staked'[<<q, v>>] = staked[<<q, v>>]
  BY <1>4, <1>5, <1>6
<1>8. ContractsType'
  BY <1>1, <1>7 DEF TypeInv, ContractsType
<1>9. ContractsInv'
  <2>1. ASSUME NEW q \in Pools, NEW v \in Users, home[q] = None
        PROVE  staked'[<<q, v>>] = 0
    <3>1. q # p /\ staked[<<q, v>>] = 0
      BY <1>1, <2>1 DEF ContractsInv
    <3> QED
      BY <1>7, <3>1
  <2> QED
    BY <1>1, <2>1 DEF ContractsInv, Injective
<1>10. Grown /\ Fits(e)' /\ e.kind \notin CreationKinds
  BY <1>2, GrownStays, OtherFits DEF StatusKinds
<1>11. Acts(e)
  BY <1>2 DEF Acts
<1>12. StakesPending'
  <2>1. RowsIn /\ RowsIn'
    BY RowsAre, PTL
  <2>2. db' = db
    BY DEF One, Extended
  <2>3. IsFiniteSet(Users)
    <3>1. Users \subseteq Communities \cup LegacyPools \cup CurationPools \cup Users
      OBVIOUS
    <3> QED
      BY <3>1, FS_Subset, WalnutAssumption
  <2> SUFFICES ASSUME NEW q \in Pools
               PROVE  db'.total_amount[q] + PoolCount(StakeKinds, q)' - PoolCount(UnstakeKinds, q)'
                        = StakedIn(q)'
    BY DEF StakesPending
  <2>4. PICK f : f = [v \in Users |-> staked[<<q, v>>]]
    OBVIOUS
  <2>5. PICK g : g = [v \in Users |-> staked'[<<q, v>>]]
    OBVIOUS
  <2>6. /\ StakedIn(q) = SumFunctionOnSet(f, Users)
        /\ StakedIn(q)' = SumFunctionOnSet(g, Users)
    BY <2>4, <2>5 DEF StakedIn
  <2>7. NumericOn(f, Users)
    BY <1>4, <2>4 DEF NumericOn
  <2>8. PICK sum \in Int : sum = SumFunctionOnSet(f, Users)
    BY <2>3, <2>7, SumType
  <2>9. PICK in \in Nat : in = Cardinality(ByPool(StakeKinds, q))
    BY <1>1, ByType DEF TypeInv, StoresType
  <2>10. PICK out \in Nat : out = Cardinality(ByPool(UnstakeKinds, q))
    BY <1>1, ByType DEF TypeInv, StoresType
  <2>11. PICK total \in Int : total = db.total_amount[q]
    BY <1>1 DEF TypeInv, RowsType
  <2>12. total + in - out = sum
    BY <1>1, <2>1, <2>6, <2>8, <2>9, <2>10, <2>11 DEF RowsPending, StakesPending, RowsIn
  <2>13. CASE q # p
    <3>1. \A v \in Users : f[v] = g[v]
      BY <1>7, <2>4, <2>5, <2>13
    <3>2. SumFunctionOnSet(g, Users) = sum
      BY <2>3, <2>8, <3>1, SumSame
    <3>3. /\ Cardinality(ByPool(StakeKinds, q)') = in
          /\ Cardinality(ByPool(UnstakeKinds, q)') = out
      BY <1>1, <2>9, <2>10, <2>13, OneLast
    <3> QED
      BY <2>1, <2>2, <2>6, <2>11, <2>12, <3>2, <3>3 DEF RowsIn
  <2>14. CASE q = p
    <3>1. /\ f[u] = was /\ g[u] = now /\ g[u] \in Int
          /\ \A v \in Users \ {u} : g[v] = f[v]
      BY <1>5, <1>7, <2>4, <2>5, <2>14
    <3>2. SumFunctionOnSet(g, Users) = sum - was + now
      BY <2>3, <2>7, <2>8, <3>1, SumChange
    <3>3. CASE e.kind \in StakeKinds
      <4>1. /\ Cardinality(ByPool(StakeKinds, q)') = in + 1
            /\ Cardinality(ByPool(UnstakeKinds, q)') = out
        BY <1>1, <1>3, <2>9, <2>10, <2>14, <3>3, OneLast
      <4>2. now = was + 1
        BY <1>6, <3>3
      <4> QED
        BY <2>1, <2>2, <2>6, <2>11, <2>12, <3>2, <4>1, <4>2 DEF RowsIn
    <3>4. CASE e.kind \in UnstakeKinds
      <4>1. /\ Cardinality(ByPool(StakeKinds, q)') = in
            /\ Cardinality(ByPool(UnstakeKinds, q)') = out + 1
        BY <1>1, <1>3, <2>9, <2>10, <2>14, <3>4, OneLast
      <4>2. now = was - 1
        BY <1>3, <1>6, <3>4
      <4> QED
        BY <2>1, <2>2, <2>6, <2>11, <2>12, <3>2, <4>1, <4>2 DEF RowsIn
    <3> QED
      BY <3>3, <3>4
  <2> QED
    BY <2>13, <2>14
<1>13. MembersPending'
  <2>1. Members \subseteq Members'
    BY <1>1, MembersStay DEF One
  <2>2. \A x \in Communities : owner[x] # None => <<"community", x, owner[x]>> \in Members
    BY <1>1 DEF RowsPending, MembersPending
  <2>3. ASSUME NEW q \in Pools, NEW v \in Users, staked'[<<q, v>>] > 0
        PROVE  {<<"staker", q, v>>, <<"pool", q, v>>, <<"community", home[q], v>>} \subseteq Members'
    <3>1. CASE staked[<<q, v>>] > 0
      BY <1>1, <2>1, <3>1 DEF RowsPending, MembersPending
    <3>2. CASE ~ (staked[<<q, v>>] > 0)
      <4>1. <<q, v>> = <<p, u>>
        BY <1>7, <2>3, <3>2
      <4>2. q = p /\ v = u
        BY <4>1
      <4>3. e.kind \in StakeKinds
        <5>1. now > 0 /\ ~ (was > 0)
          BY <1>5, <1>7, <2>3, <3>2, <4>2
        <5> QED
          BY <1>6, <5>1
      <4>4. PICK last : last = Len(logs) + 1
        OBVIOUS
      <4>5. last \in DOMAIN logs' /\ logs'[last] = e
        BY <1>1, <4>4 DEF One, Extended, TypeInv, StoresType
      <4>6. /\ last \in Of({"SOCIALCLAIM"} \cup StakeKinds)' /\ last \in Of(StakeKinds)'
            /\ last \in Of(UserKinds)' /\ logs'[last].kind # "OWNERSHIP_TRANSFERRED"
        BY <4>3, <4>5, <1>2 DEF Of, UserKinds, OwnerKinds
      <4>7. {<<"staker", p, u>>, <<"pool", p, u>>, <<"community", home[p], u>>} \subseteq MembershipKeys'
        BY <4>5, <4>6 DEF MembershipKeys
      <4> QED
        BY <4>2, <4>7 DEF Members
    <3> QED
      BY <3>1, <3>2
  <2> QED
    BY <2>1, <2>2, <2>3 DEF MembersPending
<1>14. RowsPending'
  BY <1>1, <1>2, <1>12, <1>13, OneQuiet DEF RowsPending
<1> QED
  BY <1>8, <1>9, <1>10, <1>11, <1>14, OneStep

\* A deposit or lock.
LEMMA DepositStep ==
    ASSUME OpenInv, NEW p \in Pools, NEW u \in Users, Deposit(p, u)
    PROVE  OpenInv' /\ Extended
<1>1. TypeInv /\ ContractsInv
  BY DEF OpenInv
<1>2. PICK kind : kind = IF origin[p] = "ERC20_STAKING_CREATED" THEN "DEPOSIT" ELSE "LOCK"
  OBVIOUS
<1>3. kind \in LogKinds /\ kind \in StakeKinds /\ kind \notin UnstakeKinds
  BY <1>2 DEF LogKinds, DynamicKinds, StakeKinds, UnstakeKinds
<1>4. home[p] # None
  <2>1. origin[p] \in PoolFactories
    BY DEF Deposit, StakesIn, PoolFactories
  <2>2. origin[p] # None
    BY <2>1, WalnutAssumption
  <2> QED
    BY <1>1, <2>2 DEF ContractsInv
<1>5. home[p] \in Communities \cup {None}
  BY <1>1 DEF TypeInv, ContractsType
<1>6. PICK e \in Log : e = LogOf(kind, home[p], p, u, None, u)
  BY <1>3, <1>5, LogOfType
<1>7. /\ Emit(<<e>>) /\ e.kind = kind /\ e.community = home[p] /\ e.pool = p
      /\ e.account = u /\ e.actor = u
  BY <1>2, <1>6 DEF Deposit, UserLog, LogOf
<1>8. One(e) /\ RowsType'
  BY <1>1, <1>7, EmitOne
<1>9. /\ owner' = owner /\ home' = home /\ origin' = origin /\ closed' = closed
      /\ fund' = fund /\ fee' = fee /\ retained' = retained /\ listed' = listed
      /\ staked' = [staked EXCEPT ![<<p, u>>] = @ + 1]
  BY DEF Deposit, dao
<1> QED
  BY <1>3, <1>4, <1>7, <1>8, <1>9, StakesMove

\* A withdrawal or unlock.
LEMMA WithdrawStep ==
    ASSUME OpenInv, NEW p \in Pools, NEW u \in Users, Withdraw(p, u)
    PROVE  OpenInv' /\ Extended
<1>1. TypeInv /\ ContractsInv
  BY DEF OpenInv
<1>2. PICK kind : kind = IF origin[p] = "ERC20_STAKING_CREATED" THEN "WITHDRAW" ELSE "UNLOCK"
  OBVIOUS
<1>3. kind \in LogKinds /\ kind \notin StakeKinds /\ kind \in UnstakeKinds
  BY <1>2 DEF LogKinds, DynamicKinds, StakeKinds, UnstakeKinds
<1>4. home[p] # None /\ staked[<<p, u>>] > 0
  BY <1>1 DEF ContractsInv, Withdraw
<1>5. home[p] \in Communities \cup {None}
  BY <1>1 DEF TypeInv, ContractsType
<1>6. PICK e \in Log : e = LogOf(kind, home[p], p, u, None, u)
  BY <1>3, <1>5, LogOfType
<1>7. /\ Emit(<<e>>) /\ e.kind = kind /\ e.community = home[p] /\ e.pool = p
      /\ e.account = u /\ e.actor = u
  BY <1>2, <1>6 DEF Withdraw, UserLog, LogOf
<1>8. One(e) /\ RowsType'
  BY <1>1, <1>7, EmitOne
<1>9. /\ owner' = owner /\ home' = home /\ origin' = origin /\ closed' = closed
      /\ fund' = fund /\ fee' = fee /\ retained' = retained /\ listed' = listed
      /\ staked' = [staked EXCEPT ![<<p, u>>] = @ - 1]
  BY DEF Withdraw, dao
<1> QED
  BY <1>3, <1>4, <1>7, <1>8, <1>9, StakesMove

-----------------------------------------------------------------------------
(***************************************************************************)
(* Owners.                                                                 *)
(***************************************************************************)
\* The owner at the end of the block, in terms of the logs of a community.
EndIn ==
    logs \in Seq(Log) =>
        \A c : OwnerAt(Len(logs), c) = IF ByCommunity(OwnerKinds, c) = {} THEN owners[c]
                                       ELSE logs[Max(ByCommunity(OwnerKinds, c))].account

\* That holds in every state.
LEMMA EndIs == EndIn
<1> SUFFICES ASSUME logs \in Seq(Log), NEW c
             PROVE  OwnerAt(Len(logs), c) = IF ByCommunity(OwnerKinds, c) = {} THEN owners[c]
                                            ELSE logs[Max(ByCommunity(OwnerKinds, c))].account
  BY DEF EndIn
<1>1. PICK len \in Nat : len = Len(logs)
  OBVIOUS
<1>2. Of(OwnerKinds) \subseteq 1..len
  BY <1>1, OfType
<1>3. OwnerSets(len, c) = ByCommunity(OwnerKinds, c)
  BY <1>1, <1>2 DEF OwnerSets, ByCommunity
<1> QED
  BY <1>1, <1>3, OwnerAtIs

\* Members after the owner of one community becomes a member.
LEMMA OwnerJoins ==
    ASSUME TypeInv, MembersPending, Extended, NEW c \in Communities, NEW u \in Users,
           owner' = [owner EXCEPT ![c] = u], <<"community", c, u>> \in MembershipKeys',
           staked' = staked, home' = home
    PROVE  MembersPending'
<1>1. Members \subseteq Members'
  BY MembersStay
<1>2. ASSUME NEW x \in Communities, owner'[x] # None
      PROVE  <<"community", x, owner'[x]>> \in Members'
  <2>1. CASE x = c
    BY <2>1 DEF Members, TypeInv, ContractsType
  <2>2. CASE x # c
    BY <1>1, <1>2, <2>2 DEF MembersPending, TypeInv, ContractsType
  <2> QED
    BY <2>1, <2>2
<1> QED
  BY <1>1, <1>2 DEF MembersPending

\* The owner hands a community over.
LEMMA TransferOwnershipStep ==
    ASSUME OpenInv, NEW c \in Communities, NEW u \in Users, TransferOwnership(c, u)
    PROVE  OpenInv' /\ Extended
<1>1. TypeInv /\ RowsPending /\ ContractsInv
  BY DEF OpenInv
<1>2. PICK kind : kind = "OWNERSHIP_TRANSFERRED"
  OBVIOUS
<1>3. /\ kind \in LogKinds /\ kind \in OwnerKinds /\ kind \notin StatusKinds /\ kind \notin CreationKinds
      /\ kind # "ADMINSETRATIO" /\ kind \notin ListKinds /\ kind \notin FundKinds /\ kind \notin FeeKinds
      /\ kind \notin EarnKinds \cup PayKinds /\ kind \notin StakeKinds \cup UnstakeKinds
      /\ kind \notin AccountOfOwner /\ kind \in TransferKinds /\ kind \notin CommunityKinds
      /\ kind \in UserKinds /\ kind # "TradeCurationCreated" /\ kind \notin PoolFactories
  BY <1>2 DEF LogKinds, DynamicKinds, V14Kinds, OwnerKinds, StatusKinds, CreationKinds, PoolFactories,
         FundKinds, EarnKinds, PayKinds, FeeKinds, ListKinds, StakeKinds, UnstakeKinds, AccountOfOwner, AdminKinds,
         TransferKinds, CommunityKinds, UserKinds
<1>4. owner[c] \in Users \cup {None} /\ owner \in [Communities -> Users \cup {None}] /\ owner[c] # None
  BY <1>1 DEF TypeInv, ContractsType, TransferOwnership
<1>5. PICK e \in Log : e = LogOf(kind, c, None, u, owner[c], u)
  BY <1>3, <1>4, LogOfType
<1>6. /\ Emit(<<e>>) /\ e.kind = kind /\ e.community = c /\ e.account = u /\ e.actor = u
      /\ e.previous # None
  BY <1>2, <1>4, <1>5 DEF TransferOwnership, LogOf
<1>7. One(e) /\ RowsType'
  BY <1>1, <1>6, EmitOne
<1>8. /\ home' = home /\ origin' = origin /\ closed' = closed /\ staked' = staked
      /\ fund' = fund /\ fee' = fee /\ retained' = retained /\ listed' = listed
      /\ owner' = [owner EXCEPT ![c] = u]
  BY DEF TransferOwnership, pools, dao
<1>9. /\ owner' \in [Communities -> Users \cup {None}] /\ owner'[c] = u
      /\ \A x \in Communities \ {c} : owner'[x] = owner[x]
  BY <1>4, <1>8
<1>10. u # None
  BY WalnutAssumption
<1>11. ContractsType'
  BY <1>1, <1>8, <1>9 DEF TypeInv, ContractsType
<1>12. ContractsInv'
  BY <1>1, <1>8, ContractsStay
<1>13. Grown
  BY <1>8, <1>9, <1>10 DEF Grown
<1>14. Fits(e)'
  BY <1>3, <1>6, <1>9, <1>10 DEF Fits
<1>15. Acts(e)
  BY <1>2, <1>3, <1>6 DEF Acts
<1>16. PICK last : last = Len(logs) + 1
  OBVIOUS
<1>17. last \in DOMAIN logs' /\ logs'[last] = e /\ \A n \in 1..Len(logs) : logs'[n] = logs[n]
  BY <1>1, <1>7, <1>16 DEF One, Extended, TypeInv, StoresType
<1>18. OwnersPending'
  <2>1. EndIn' /\ EndIn /\ OwnersIn' /\ OwnersIn
    BY EndIs, OwnersAre, PTL
  <2>2. owners' = owners /\ db' = db /\ logs' \in Seq(Log) /\ logs \in Seq(Log)
    BY <1>1, <1>7 DEF One, Extended, stores, TypeInv, StoresType
  <2>3. ASSUME NEW x \in Communities \ {c}
        PROVE  OwnerAt(Len(logs), x)' = owner'[x] /\ OwnerAfter(x)' = owner'[x]
    <3>1. OwnerAt(Len(logs), x)' = OwnerAt(Len(logs), x)
      BY <1>1, <1>6, <1>7, <2>1, <2>2, <2>3, OneLast DEF EndIn
    <3>2. /\ ByCommunity(TransferKinds, x)' = ByCommunity(TransferKinds, x)
          /\ ByCommunity(TransferKinds, x) \subseteq 1..Len(logs) /\ Len(logs) \in Nat
      BY <1>1, <1>6, <1>7, <2>2, <2>3, OneLast, ByType
    <3>3. TransfersOf(x)' = TransfersOf(x) /\ TransfersOf(x) \subseteq 1..Len(logs)
      BY <1>17, <3>2 DEF TransfersOf
    <3>4. TransfersOf(x) # {} => Max(TransfersOf(x)) \in 1..Len(logs)
      BY <3>2, <3>3, GreatestPosition
    <3>5. /\ ByCommunity(CommunityKinds, x)' = ByCommunity(CommunityKinds, x)
          /\ ByCommunity(CommunityKinds, x) # {} =>
               logs'[Max(ByCommunity(CommunityKinds, x))] = logs[Max(ByCommunity(CommunityKinds, x))]
      BY <1>1, <1>6, <1>7, <2>3, OneLast
    <3>6. OwnerAfter(x)' = OwnerAfter(x)
      BY <1>17, <2>1, <2>2, <3>3, <3>4, <3>5 DEF OwnersIn
    <3>7. OwnerAt(Len(logs), x) = owner[x] /\ OwnerAfter(x) = owner[x]
      BY <1>1, <2>3 DEF RowsPending, OwnersPending
    <3> QED
      BY <1>9, <2>3, <3>1, <3>6, <3>7
  <2>4. OwnerAt(Len(logs), c)' = u
    BY <1>1, <1>3, <1>6, <1>7, <2>1, <2>2, OneLast DEF EndIn
  <2>5. OwnerAfter(c)' = u
    <3>1. /\ ByCommunity(TransferKinds, c)' = ByCommunity(TransferKinds, c) \cup {last}
          /\ ByCommunity(TransferKinds, c) \subseteq 1..Len(logs) /\ Len(logs) \in Nat
      BY <1>1, <1>3, <1>6, <1>7, <1>16, <2>2, OneBy, ByType
    <3>2. IsFiniteSet(ByCommunity(TransferKinds, c))
      BY <2>2, ByType
    <3>3. PICK old : old = TransfersOf(c)
      OBVIOUS
    <3>4. old \subseteq 1..Len(logs) /\ IsFiniteSet(old)
      BY <3>1, <3>2, <3>3, FS_Subset DEF TransfersOf
    <3>5. TransfersOf(c)' = old \cup {last}
      BY <1>6, <1>17, <3>1, <3>3 DEF TransfersOf
    <3>6. Max(old \cup {last}) = last
      BY <1>16, <3>1, <3>4, NewLast
    <3> QED
      BY <1>6, <1>17, <2>1, <3>5, <3>6 DEF OwnersIn
  <2> QED
    BY <1>9, <2>3, <2>4, <2>5 DEF OwnersPending
<1>19. MembersPending'
  <2>1. last \in Of(UserKinds)' /\ logs'[last].previous # None
    BY <1>3, <1>6, <1>17 DEF Of
  <2>2. <<"community", c, u>> \in MembershipKeys'
    BY <1>6, <1>17, <2>1 DEF MembershipKeys
  <2> QED
    BY <1>1, <1>7, <1>8, <2>2, OwnerJoins DEF One, RowsPending
<1>20. RowsPending'
  BY <1>1, <1>3, <1>6, <1>7, <1>8, <1>18, <1>19, OneQuiet DEF RowsPending
<1> QED
  BY <1>3, <1>6, <1>7, <1>11, <1>12, <1>13, <1>14, <1>15, <1>20, OneStep

\* Two logs, of kinds that nothing else is pending on.
Two(d, e) ==
    /\ d \in Log /\ e \in Log /\ Extended /\ StoresType'
    /\ Len(logs') = Len(logs) + 2 /\ logs'[Len(logs) + 1] = d /\ logs'[Len(logs) + 2] = e

\* Emitting two well-formed logs does that.
LEMMA EmitTwo ==
    ASSUME TypeInv, NEW d \in Log, NEW e \in Log, Emit(<<d, e>>)
    PROVE  Two(d, e) /\ RowsType'
<1>1. logs \in Seq(Log) /\ history \in Seq(Log)
  BY DEF TypeInv, StoresType
<1>2. PICK len \in Nat : len = Len(logs)
  BY <1>1
<1>3. <<d, e>> \in Seq(Log) /\ Len(<<d, e>>) = 2 /\ <<d, e>>[1] = d /\ <<d, e>>[2] = e
  OBVIOUS
<1>4. PICK new \in Seq(Log) : new = <<d, e>> /\ Len(new) = 2 /\ new[1] = d /\ new[2] = e
  BY <1>3
<1>5. /\ logs' = logs \o new /\ logs' \in Seq(Log) /\ Len(logs') = len + 2
      /\ \A i \in 1..(len + 2) : logs'[i] = IF i <= len THEN logs[i] ELSE new[i - len]
  <2>1. logs' = logs \o new
    BY <1>4 DEF Emit
  <2>2. /\ logs \o new \in Seq(Log) /\ Len(logs \o new) = Len(logs) + Len(new)
        /\ \A i \in 1..(Len(logs) + Len(new)) :
              (logs \o new)[i] = IF i <= Len(logs) THEN logs[i] ELSE new[i - Len(logs)]
    BY <1>1, <1>4, ConcatProperties
  <2> QED
    BY ONLY <1>2, <1>4, <2>1, <2>2
<1>6. logs'[len + 1] = d /\ logs'[len + 2] = e /\ \A n \in 1..len : logs'[n] = logs[n]
  <2>1. logs'[len + 1] = new[1] /\ logs'[len + 2] = new[2]
    <3>1. /\ len + 1 \in 1..(len + 2) /\ len + 2 \in 1..(len + 2)
          /\ ~ (len + 1 <= len) /\ ~ (len + 2 <= len)
          /\ (len + 1) - len = 1 /\ (len + 2) - len = 2
      OBVIOUS
    <3> QED
      BY <1>5, <3>1
  <2> QED
    BY <1>4, <1>5, <2>1
<1>7. Extended
  BY <1>2, <1>5, <1>6 DEF Emit, Extended
<1>8. Len(logs') <= MaxLogs /\ Len(history') + Len(logs') <= MaxHistory
  <2>1. Len(logs') <= MaxLogs
    BY DEF Emit
  <2>2. history \o logs \o new = (history \o logs) \o new
    OBVIOUS
  <2>3. /\ history \o logs \in Seq(Log) /\ Len(history \o logs) = Len(history) + Len(logs)
        /\ Len(history) \in Nat /\ Len(logs) \in Nat
    BY <1>1, ConcatProperties
  <2>4. Len((history \o logs) \o new) = Len(history) + Len(logs) + 2
    <3>1. Len((history \o logs) \o new) = Len(history \o logs) + Len(new)
      BY <1>4, <2>3, ConcatProperties
    <3> QED
      BY <1>4, <2>3, <3>1
  <2>5. Len(history) + Len(logs) + 2 <= MaxHistory
    BY <1>4, <2>2, <2>4 DEF Emit
  <2> QED
    BY <1>2, <1>5, <2>1, <2>3, <2>5 DEF Emit
<1>9. StoresType'
  BY <1>5, <1>8 DEF Emit, stores, TypeInv, StoresType
<1>10. RowsType'
  BY DEF Emit, TypeInv, RowsType
<1> QED
  BY <1>2, <1>5, <1>6, <1>7, <1>9, <1>10 DEF Two

\* They are the only new ones.
LEMMA TwoNew ==
    ASSUME TypeInv, NEW d, NEW e, Two(d, e)
    PROVE  /\ (Len(logs) + 1)..Len(logs') = {Len(logs) + 1, Len(logs) + 2}
           /\ \A kinds : d.kind \notin kinds /\ e.kind \notin kinds => NoNew(kinds)
<1>1. PICK len \in Nat : len = Len(logs)
  BY DEF TypeInv, StoresType
<1>2. (Len(logs) + 1)..Len(logs') = {Len(logs) + 1, Len(logs) + 2}
  BY <1>1 DEF Two
<1> QED
  BY <1>2 DEF Two, NoNew

\* The last log of a community after them.
LEMMA TwoLast ==
    ASSUME TypeInv, NEW d, NEW e, Two(d, e), d.community = e.community, NEW kinds, NEW x
    PROVE  /\ e.kind \in kinds /\ e.community = x =>
                /\ ByCommunity(kinds, x)' # {}
                /\ logs'[Max(ByCommunity(kinds, x)')] = e
           /\ e.community # x =>
                /\ ByCommunity(kinds, x)' = ByCommunity(kinds, x)
                /\ ByCommunity(kinds, x) # {} =>
                     logs'[Max(ByCommunity(kinds, x))] = logs[Max(ByCommunity(kinds, x))]
<1>1. PICK len \in Nat : len = Len(logs)
  BY DEF TypeInv, StoresType
<1>2. PICK more \in Nat : more = len + 2
  OBVIOUS
<1>3. /\ DOMAIN logs = 1..len /\ DOMAIN logs' = 1..more /\ logs'[len + 1] = d /\ logs'[more] = e
      /\ \A n \in 1..len : logs'[n] = logs[n]
  BY <1>1, <1>2 DEF Two, Extended, TypeInv, StoresType
<1>4. 1..more = (1..len) \cup {len + 1, more} /\ len + 1 \notin 1..len /\ more \notin 1..len
  BY <1>2
<1>5. ByCommunity(kinds, x)' \subseteq 1..more
  BY <1>3 DEF ByCommunity, Of
<1>6. ASSUME e.kind \in kinds, e.community = x
      PROVE  ByCommunity(kinds, x)' # {} /\ logs'[Max(ByCommunity(kinds, x)')] = e
  <2>1. more \in ByCommunity(kinds, x)'
    BY <1>2, <1>3, <1>4, <1>6 DEF ByCommunity, Of
  <2>2. PICK all : all = ByCommunity(kinds, x)'
    OBVIOUS
  <2>3. Max(all) \in 1..more /\ more <= Max(all)
    BY <1>2, <1>5, <2>1, <2>2, GreatestPosition
  <2>4. Max(all) = more
    BY <1>2, <2>3
  <2> QED
    BY <1>3, <2>1, <2>2, <2>4
<1>7. ASSUME e.community # x
      PROVE  /\ ByCommunity(kinds, x)' = ByCommunity(kinds, x)
             /\ ByCommunity(kinds, x) # {} =>
                  logs'[Max(ByCommunity(kinds, x))] = logs[Max(ByCommunity(kinds, x))]
  <2>1. ASSUME NEW n PROVE n \in ByCommunity(kinds, x)' <=> n \in ByCommunity(kinds, x)
    <3>1. n \in ByCommunity(kinds, x)'
            <=> n \in 1..more /\ logs'[n].kind \in kinds /\ logs'[n].community = x
      BY <1>3 DEF ByCommunity, Of
    <3>2. n \in ByCommunity(kinds, x)
            <=> n \in 1..len /\ logs[n].kind \in kinds /\ logs[n].community = x
      BY <1>3 DEF ByCommunity, Of
    <3>3. CASE n \in 1..len
      BY <1>3, <1>4, <3>1, <3>2, <3>3
    <3>4. CASE n = len + 1
      BY <1>3, <1>4, <1>7, <3>1, <3>2, <3>4
    <3>5. CASE n = more
      BY <1>3, <1>4, <1>7, <3>1, <3>2, <3>5
    <3> QED
      BY <1>4, <3>1, <3>2, <3>3, <3>4, <3>5
  <2>2. ByCommunity(kinds, x)' = ByCommunity(kinds, x)
    BY <2>1
  <2>3. ByCommunity(kinds, x) \subseteq 1..len
    BY <1>3 DEF ByCommunity, Of
  <2>4. ByCommunity(kinds, x) # {} => Max(ByCommunity(kinds, x)) \in 1..len
    BY <2>3, GreatestPosition
  <2> QED
    BY <1>3, <2>2, <2>4
<1> QED
  BY <1>6, <1>7

\* A community is created: its constructor and the factory emit a log each.
LEMMA CreateCommunityStep ==
    ASSUME OpenInv, NEW c \in Communities, NEW u \in Users, CreateCommunity(c, u)
    PROVE  OpenInv' /\ Extended
<1>1. TypeInv /\ RowsPending /\ ContractsInv /\ LogsInv /\ Attributed
  BY DEF OpenInv
<1>2. PICK first : first = "OWNERSHIP_TRANSFERRED"
  OBVIOUS
<1>3. PICK second : second = "COMMUNITY_CREATED"
  OBVIOUS
<1>4. \A kind \in {first, second} :
         /\ kind \in LogKinds /\ kind \in OwnerKinds /\ kind \notin StatusKinds /\ kind \notin CreationKinds
         /\ kind # "ADMINSETRATIO" /\ kind \notin ListKinds /\ kind \notin FeeKinds
         /\ kind \notin EarnKinds \cup PayKinds /\ kind \notin StakeKinds \cup UnstakeKinds
         /\ kind \notin AccountOfOwner /\ kind \in UserKinds /\ kind # "TradeCurationCreated"
         /\ kind \notin PoolFactories
  BY <1>2, <1>3 DEF LogKinds, DynamicKinds, FactoryKinds, V14Kinds, OwnerKinds, StatusKinds, CreationKinds, PoolFactories,
         EarnKinds, PayKinds, FeeKinds, ListKinds, StakeKinds, UnstakeKinds, AccountOfOwner, AdminKinds,
         UserKinds
<1>5. /\ second \in FundKinds /\ first \notin FundKinds /\ second \in CommunityKinds
      /\ first \notin CommunityKinds /\ second \notin TransferKinds
  BY <1>2, <1>3 DEF FundKinds, CommunityKinds, TransferKinds
<1>6. /\ owner \in [Communities -> Users \cup {None}] /\ fund \in [Communities -> Users \cup {None}]
      /\ owner[c] = None /\ u # None
  BY <1>1, WalnutAssumption DEF TypeInv, ContractsType, CreateCommunity
<1>7. PICK d \in Log : d = LogOf(first, c, None, u, None, u)
  BY <1>4, LogOfType
<1>8. PICK e \in Log : e = LogOf(second, c, None, u, None, u)
  BY <1>4, LogOfType
<1>9. /\ d.kind = first /\ d.community = c /\ d.previous = None
      /\ e.kind = second /\ e.community = c /\ e.account = u /\ e.actor = u
      /\ Emit(<<d, e>>)
  BY <1>2, <1>3, <1>7, <1>8 DEF CreateCommunity, LogOf
<1>10. Two(d, e) /\ RowsType'
  BY <1>1, <1>9, EmitTwo
<1>11. Extended /\ StoresType'
  BY <1>10 DEF Two
<1>12. /\ home' = home /\ origin' = origin /\ closed' = closed /\ staked' = staked
       /\ fee' = fee /\ retained' = retained /\ listed' = listed
       /\ owner' = [owner EXCEPT ![c] = u] /\ fund' = [fund EXCEPT ![c] = u]
  BY DEF CreateCommunity, pools
<1>13. /\ owner' \in [Communities -> Users \cup {None}] /\ owner'[c] = u
       /\ fund' \in [Communities -> Users \cup {None}] /\ fund'[c] = u
       /\ \A x \in Communities \ {c} : owner'[x] = owner[x] /\ fund'[x] = fund[x]
  BY <1>6, <1>12
<1>14. TypeInv'
  BY <1>1, <1>10, <1>11, <1>12, <1>13 DEF TypeInv, ContractsType
<1>15. ContractsInv'
  BY <1>1, <1>12, ContractsStay
<1>16. Grown
  BY <1>6, <1>12, <1>13 DEF Grown
<1>17. PICK len \in Nat : len = Len(logs)
  BY <1>1 DEF TypeInv, StoresType
<1>18. /\ DOMAIN logs' = 1..(len + 2) /\ DOMAIN logs = 1..len /\ logs' \in Seq(Log) /\ logs \in Seq(Log)
       /\ logs'[len + 1] = d /\ logs'[len + 2] = e /\ \A n \in 1..len : logs'[n] = logs[n]
       /\ (Len(logs) + 1)..Len(logs') = {len + 1, len + 2}
  BY <1>1, <1>10, <1>17, TwoNew DEF Two, Extended, TypeInv, StoresType
<1>19. Fits(d)' /\ Fits(e)'
  BY <1>4, <1>6, <1>9, <1>13 DEF Fits
<1>20. \A n \in (Len(logs) + 1)..Len(logs') : logs'[n] \in {d, e}
  BY <1>18
<1>21. LogsInv'
  <2>1. \A n \in (Len(logs) + 1)..Len(logs') : \A f \in Log : f = logs'[n] => Fits(f)'
    BY <1>19, <1>20
  <2>2. \A m \in (Len(logs) + 1)..Len(logs') : logs'[m].kind \notin CreationKinds
    BY <1>4, <1>9, <1>20
  <2> QED
    BY <1>1, <1>11, <1>16, <2>1, <2>2, LogsLater
<1>22. Attributed'
  <2>1. Acts(d) /\ Acts(e)
    BY <1>2, <1>4, <1>9 DEF Acts
  <2>2. \A n \in (Len(logs) + 1)..Len(logs') : \A f \in Log : f = logs'[n] => Acts(f)
    BY <1>20, <2>1
  <2>3. NoNew(AccountOfOwner)
    BY <1>1, <1>4, <1>9, <1>10, TwoNew
  <2> QED
    BY <1>1, <1>11, <2>2, <2>3, AttributedLater DEF RowsPending
<1>23. /\ NoNew(FeeKinds) /\ NoNew(EarnKinds \cup PayKinds) /\ NoNew(StatusKinds)
       /\ NoNew(StakeKinds \cup UnstakeKinds) /\ NoNew(ListKinds)
  BY <1>1, <1>4, <1>9, <1>10, TwoNew
<1>24. FeesPending' /\ RevenuePending' /\ StatusPending' /\ StakesPending' /\ ListsPending'
  BY <1>1, <1>11, <1>12, <1>23, FeesQuiet, RevenueQuiet, StatusQuiet, StakesQuiet, ListsQuiet DEF RowsPending
<1>25. owners' = owners /\ db' = db /\ d.community = e.community
  BY <1>9, <1>11 DEF Extended, stores
<1>26. FundsPending'
  <2>1. RowsIn /\ RowsIn'
    BY RowsAre, PTL
  <2> SUFFICES ASSUME NEW x \in Communities PROVE FundAfter(x)' = fund'[x]
    BY DEF FundsPending
  <2>2. CASE x = c
    BY <1>1, <1>5, <1>9, <1>10, <1>13, <1>25, <2>1, <2>2, TwoLast DEF RowsIn
  <2>3. CASE x # c
    <3>1. FundAfter(x)' = FundAfter(x)
      BY <1>1, <1>9, <1>10, <1>25, <2>1, <2>3, TwoLast DEF RowsIn
    <3> QED
      BY <1>1, <1>13, <2>3, <3>1 DEF RowsPending, FundsPending
  <2> QED
    BY <2>2, <2>3
<1>27. OwnersPending'
  <2>1. EndIn' /\ EndIn /\ OwnersIn' /\ OwnersIn
    BY EndIs, OwnersAre, PTL
  <2>2. ASSUME NEW x \in Communities \ {c}
        PROVE  OwnerAt(Len(logs), x)' = owner'[x] /\ OwnerAfter(x)' = owner'[x]
    <3>1. OwnerAt(Len(logs), x)' = OwnerAt(Len(logs), x)
      BY <1>1, <1>9, <1>10, <1>18, <1>25, <2>1, <2>2, TwoLast DEF EndIn
    <3>2. /\ ByCommunity(TransferKinds, x)' = ByCommunity(TransferKinds, x)
          /\ ByCommunity(TransferKinds, x) \subseteq 1..len
      BY <1>1, <1>9, <1>10, <1>17, <1>18, <1>25, <2>2, TwoLast, ByType
    <3>3. TransfersOf(x)' = TransfersOf(x) /\ TransfersOf(x) \subseteq 1..len
      BY <1>18, <3>2 DEF TransfersOf
    <3>4. TransfersOf(x) # {} => Max(TransfersOf(x)) \in 1..len
      BY <3>3, GreatestPosition
    <3>5. /\ ByCommunity(CommunityKinds, x)' = ByCommunity(CommunityKinds, x)
          /\ ByCommunity(CommunityKinds, x) # {} =>
               logs'[Max(ByCommunity(CommunityKinds, x))] = logs[Max(ByCommunity(CommunityKinds, x))]
      BY <1>1, <1>9, <1>10, <1>25, <2>2, TwoLast
    <3>6. OwnerAfter(x)' = OwnerAfter(x)
      BY <1>18, <1>25, <2>1, <3>3, <3>4, <3>5 DEF OwnersIn
    <3>7. OwnerAt(Len(logs), x) = owner[x] /\ OwnerAfter(x) = owner[x]
      BY <1>1, <2>2 DEF RowsPending, OwnersPending
    <3> QED
      BY <1>13, <2>2, <3>1, <3>6, <3>7
  <2>3. OwnerAt(Len(logs), c)' = u
    BY <1>1, <1>4, <1>9, <1>10, <1>18, <1>25, <2>1, TwoLast DEF EndIn
  <2>4. TransfersOf(c)' = {}
    <3> SUFFICES ASSUME NEW n \in TransfersOf(c)' PROVE FALSE
      OBVIOUS
    <3>1. /\ n \in 1..(len + 2) /\ logs'[n].kind \in TransferKinds
          /\ logs'[n].community = c /\ logs'[n].previous # None
      BY <1>18 DEF TransfersOf, ByCommunity, Of
    <3>2. n # len + 1 /\ n # len + 2
      BY <1>5, <1>9, <1>18, <3>1
    <3>3. n \in 1..len /\ logs'[n] = logs[n] /\ logs[n].kind \in OwnerKinds
      BY <1>18, <3>1, <3>2 DEF TransferKinds, OwnerKinds
    <3>4. owner[c] # None
      BY <1>1, <1>18, <3>1, <3>3 DEF LogsInv, Fits
    <3> QED
      BY <1>6, <3>4
  <2>5. OwnerAfter(c)' = u
    <3>1. /\ ByCommunity(CommunityKinds, c)' # {}
          /\ logs'[Max(ByCommunity(CommunityKinds, c)')] = e
      BY <1>1, <1>5, <1>9, <1>10, <1>25, TwoLast
    <3> QED
      BY <1>9, <2>1, <2>4, <3>1 DEF OwnersIn
  <2> QED
    BY <1>13, <2>2, <2>3, <2>5 DEF OwnersPending
<1>28. MembersPending'
  <2>1. len + 2 \in Of(UserKinds)' /\ logs'[len + 2].kind # "OWNERSHIP_TRANSFERRED"
    BY <1>3, <1>4, <1>9, <1>18 DEF Of
  <2>2. <<"community", c, u>> \in MembershipKeys'
    BY <1>9, <1>18, <2>1 DEF MembershipKeys
  <2> QED
    BY <1>1, <1>11, <1>12, <2>2, OwnerJoins DEF RowsPending
<1> QED
  BY <1>11, <1>14, <1>15, <1>21, <1>22, <1>24, <1>26, <1>27, <1>28 DEF OpenInv, RowsPending

-----------------------------------------------------------------------------
(***************************************************************************)
(* Sorting: the merge of two writers' changes keeps every change, and      *)
(* those of one ordinal in their order.                                    *)
(***************************************************************************)
\* A sequence of the numbers of a set, ascending.
Ascending(order, S) ==
    /\ order \in Seq(S) /\ DOMAIN order = 1..Cardinality(S) /\ Cardinality(S) \in Nat
    /\ \A n \in S : \E i \in DOMAIN order : order[i] = n
    /\ \A i, j \in DOMAIN order : i <= j <=> order[i] <= order[j]

\* A set of numbers in order has each of them at one place.
LEMMA InOrderIs ==
    ASSUME NEW S, S \subseteq Nat, IsFiniteSet(S)
    PROVE  Ascending(InOrder(S), S)
<1>0. PICK order : order = InOrder(S)
  OBVIOUS
<1>1. PICK below : below = [n \in S |-> {m \in S : m <= n}]
  OBVIOUS
<1>2. \A n \in S : below[n] \subseteq S /\ n \in below[n]
  BY <1>1
<1>3. ASSUME NEW m \in S, NEW n \in S, m < n
      PROVE  below[m] \subseteq below[n] /\ n \notin below[m]
  <2>1. m \in Nat /\ n \in Nat /\ \A k \in S : k \in Nat
    OBVIOUS
  <2>2. /\ \A k : k \in below[m] <=> k \in S /\ k <= m
        /\ \A k : k \in below[n] <=> k \in S /\ k <= n
    BY <1>1
  <2>3. \A k \in S : k <= m => k <= n
    BY <1>3, <2>1
  <2>4. ~ (n <= m)
    BY <1>3, <2>1
  <2> QED
    BY <2>2, <2>3, <2>4
<1>4. \A m, n \in S : \/ m = n
                      \/ below[m] \subseteq below[n] /\ n \notin below[m]
                      \/ below[n] \subseteq below[m] /\ m \notin below[n]
  <2> SUFFICES ASSUME NEW m \in S, NEW n \in S, m # n
               PROVE  \/ below[m] \subseteq below[n] /\ n \notin below[m]
                      \/ below[n] \subseteq below[m] /\ m \notin below[n]
    OBVIOUS
  <2>1. m < n \/ n < m
    OBVIOUS
  <2> QED
    BY <1>3, <2>1
<1>5. /\ Cardinality(S) \in Nat
      /\ \A n \in S : Cardinality(below[n]) \in 1..Cardinality(S)
      /\ \A m, n \in S : Cardinality(below[m]) = Cardinality(below[n]) => m = n
      /\ \A i \in 1..Cardinality(S) : \E n \in S : Cardinality(below[n]) = i
      /\ \A m, n \in S : below[m] \subseteq below[n] <=> Cardinality(below[m]) <= Cardinality(below[n])
  BY <1>2, <1>4, Ranking
<1>6. \A m, n \in S : below[m] \subseteq below[n] <=> m <= n
  <2> SUFFICES ASSUME NEW m \in S, NEW n \in S
               PROVE  below[m] \subseteq below[n] <=> m <= n
    OBVIOUS
  <2>1. m <= n => below[m] \subseteq below[n]
    <3>1. m <= n => m = n \/ m < n
      OBVIOUS
    <3> QED
      BY <1>3, <3>1
  <2>2. below[m] \subseteq below[n] => m \in below[n]
    BY <1>2
  <2> QED
    BY <1>1, <2>1, <2>2
<1>7. PICK size \in Nat : size = Cardinality(S)
  BY <1>5
<1>8. order = [i \in 1..size |-> CHOOSE n \in S : Cardinality({m \in S : m <= n}) = i]
  BY <1>0, <1>7 DEF InOrder
<1>9. ASSUME NEW i \in 1..size PROVE order[i] \in S /\ Cardinality(below[order[i]]) = i
  <2>1. \E n \in S : Cardinality({m \in S : m <= n}) = i
    BY <1>1, <1>5, <1>7
  <2>2. order[i] = CHOOSE n \in S : Cardinality({m \in S : m <= n}) = i
    BY <1>8
  <2>3. order[i] \in S /\ Cardinality({m \in S : m <= order[i]}) = i
    BY <2>1, <2>2
  <2> QED
    BY <1>1, <2>3
<1>10. order \in Seq(S) /\ DOMAIN order = 1..size
  <2>1. order \in [1..size -> S]
    BY <1>8, <1>9
  <2> QED
    BY <2>1
<1>11. ASSUME NEW n \in S PROVE \E i \in 1..size : order[i] = n
  <2>1. Cardinality(below[n]) \in 1..size
    BY <1>5, <1>7
  <2> QED
    BY <1>5, <1>9, <2>1
<1>12. ASSUME NEW i \in 1..size, NEW j \in 1..size PROVE i <= j <=> order[i] <= order[j]
  <2>1. PICK m \in S : m = order[i] /\ Cardinality(below[m]) = i
    BY <1>9
  <2>2. PICK n \in S : n = order[j] /\ Cardinality(below[n]) = j
    BY <1>9
  <2>3. below[m] \subseteq below[n] <=> i <= j
    BY <1>5, <2>1, <2>2
  <2> QED
    BY <1>6, <2>1, <2>2, <2>3
<1> QED
  BY <1>0, <1>7, <1>10, <1>11, <1>12 DEF Ascending

\* The places at or before one of a sequence of changes.
PlacesTo(all, i) ==
    {j \in DOMAIN all : \/ all[j].ordinal < all[i].ordinal
                        \/ all[j].ordinal = all[i].ordinal /\ j <= i}

\* The place that each change of the merge comes from.
PlaceOf(all, n) == CHOOSE i \in DOMAIN all : Cardinality(PlacesTo(all, i)) = n

\* Every change comes from one place, and equal ordinals keep their order.
LEMMA PlacesAre ==
    ASSUME NEW len \in Nat, NEW all, DOMAIN all = 1..len,
           \A i \in 1..len : all[i].ordinal \in Int
    PROVE  /\ \A n \in 1..len : PlaceOf(all, n) \in 1..len
           /\ \A i \in 1..len : \E n \in 1..len : PlaceOf(all, n) = i
           /\ \A m, n \in 1..len : all[PlaceOf(all, m)].ordinal = all[PlaceOf(all, n)].ordinal =>
                 (m <= n <=> PlaceOf(all, m) <= PlaceOf(all, n))
<1>1. PICK ord : ord = [i \in 1..len |-> all[i].ordinal]
  OBVIOUS
<1>2. ord \in [1..len -> Int]
  BY <1>1
<1>3. PICK below : below = [i \in 1..len |-> {j \in 1..len : \/ ord[j] < ord[i]
                                                             \/ ord[j] = ord[i] /\ j <= i}]
  OBVIOUS
<1>4. \A i \in 1..len : PlacesTo(all, i) = below[i]
  <2> SUFFICES ASSUME NEW i \in 1..len PROVE PlacesTo(all, i) = below[i]
    OBVIOUS
  <2>1. below[i] = {j \in 1..len : \/ ord[j] < ord[i]
                                   \/ ord[j] = ord[i] /\ j <= i}
    BY <1>3
  <2>2. \A j \in 1..len : ord[j] = all[j].ordinal
    BY <1>1
  <2> QED
    BY <2>1, <2>2 DEF PlacesTo
<1>5. \A i \in 1..len : below[i] \subseteq 1..len /\ i \in below[i]
  BY <1>2, <1>3
<1>6. ASSUME NEW i \in 1..len, NEW j \in 1..len,
             ord[i] < ord[j] \/ (ord[i] = ord[j] /\ i < j)
      PROVE  below[i] \subseteq below[j] /\ j \notin below[i]
  <2>1. \A k \in 1..len : k \in below[i] <=> (ord[k] < ord[i] \/ (ord[k] = ord[i] /\ k <= i))
    BY <1>3
  <2>2. \A k \in 1..len : k \in below[j] <=> (ord[k] < ord[j] \/ (ord[k] = ord[j] /\ k <= j))
    BY <1>3
  <2>3. \A k \in 1..len : ord[k] \in Int
    BY <1>2
  <2>4. \A k \in 1..len : k \in below[i] => k \in below[j]
    BY <1>6, <2>1, <2>2, <2>3
  <2>5. j \notin below[i]
    BY <1>6, <2>1, <2>3
  <2> QED
    BY <1>5, <2>4, <2>5
<1>7. \A i, j \in 1..len : \/ i = j
                           \/ below[i] \subseteq below[j] /\ j \notin below[i]
                           \/ below[j] \subseteq below[i] /\ i \notin below[j]
  <2> SUFFICES ASSUME NEW i \in 1..len, NEW j \in 1..len, i # j
               PROVE  \/ below[i] \subseteq below[j] /\ j \notin below[i]
                      \/ below[j] \subseteq below[i] /\ i \notin below[j]
    OBVIOUS
  <2>1. ord[i] \in Int /\ ord[j] \in Int
    BY <1>2
  <2>2. \/ ord[i] < ord[j] \/ (ord[i] = ord[j] /\ i < j)
        \/ ord[j] < ord[i] \/ (ord[j] = ord[i] /\ j < i)
    BY <2>1
  <2> QED
    BY <1>6, <2>2
<1>8. IsFiniteSet(1..len) /\ Cardinality(1..len) = len
  BY FS_Interval
<1>9. /\ \A i \in 1..len : Cardinality(below[i]) \in 1..len
      /\ \A i, j \in 1..len : Cardinality(below[i]) = Cardinality(below[j]) => i = j
      /\ \A n \in 1..len : \E i \in 1..len : Cardinality(below[i]) = n
      /\ \A i, j \in 1..len : below[i] \subseteq below[j] <=> Cardinality(below[i]) <= Cardinality(below[j])
  <2>1. PICK S : S = 1..len
    OBVIOUS
  <2>2. /\ \A i \in S : Cardinality(below[i]) \in 1..Cardinality(S)
        /\ \A i, j \in S : Cardinality(below[i]) = Cardinality(below[j]) => i = j
        /\ \A n \in 1..Cardinality(S) : \E i \in S : Cardinality(below[i]) = n
        /\ \A i, j \in S : below[i] \subseteq below[j] <=> Cardinality(below[i]) <= Cardinality(below[j])
    <3>1. /\ IsFiniteSet(S)
          /\ \A i \in S : below[i] \subseteq S /\ i \in below[i]
          /\ \A i, j \in S : \/ i = j
                             \/ below[i] \subseteq below[j] /\ j \notin below[i]
                             \/ below[j] \subseteq below[i] /\ i \notin below[j]
      BY <1>5, <1>7, <1>8, <2>1
    <3> QED
      BY ONLY <3>1, Ranking
  <2> QED
    BY <1>8, <2>1, <2>2
<1>10. ASSUME NEW n \in 1..len
       PROVE  PlaceOf(all, n) \in 1..len /\ Cardinality(below[PlaceOf(all, n)]) = n
  <2>1. \E i \in 1..len : Cardinality(PlacesTo(all, i)) = n
    BY <1>4, <1>9
  <2>2. PlaceOf(all, n) = CHOOSE i \in 1..len : Cardinality(PlacesTo(all, i)) = n
    BY DEF PlaceOf
  <2>3. PlaceOf(all, n) \in 1..len /\ Cardinality(PlacesTo(all, PlaceOf(all, n))) = n
    BY <2>1, <2>2
  <2> QED
    BY <1>4, <2>3
<1>11. ASSUME NEW i \in 1..len PROVE \E n \in 1..len : PlaceOf(all, n) = i
  <2>1. PICK n \in 1..len : n = Cardinality(below[i])
    BY <1>9
  <2>2. PlaceOf(all, n) = i
    BY <1>9, <1>10, <2>1
  <2> QED
    BY <2>2
<1>12. ASSUME NEW m \in 1..len, NEW n \in 1..len,
              all[PlaceOf(all, m)].ordinal = all[PlaceOf(all, n)].ordinal
       PROVE  m <= n <=> PlaceOf(all, m) <= PlaceOf(all, n)
  <2>1. PICK i \in 1..len : i = PlaceOf(all, m)
    BY <1>10
  <2>2. PICK j \in 1..len : j = PlaceOf(all, n)
    BY <1>10
  <2>3. Cardinality(below[i]) = m /\ Cardinality(below[j]) = n
    BY <1>10, <2>1, <2>2
  <2>4. ord[i] = ord[j]
    BY <1>1, <1>12, <2>1, <2>2
  <2>5. m <= n <=> below[i] \subseteq below[j]
    BY <1>9, <2>3
  <2>6. i < j => ~ (below[j] \subseteq below[i])
    BY <1>5, <1>6, <2>4
  <2>7. i <= j => below[i] \subseteq below[j]
    BY <1>6, <2>4
  <2>8. j < i => ~ (below[i] \subseteq below[j])
    BY <1>5, <1>6, <2>4
  <2>9. below[i] \subseteq below[j] <=> i <= j
    BY <2>7, <2>8
  <2> QED
    BY <2>1, <2>2, <2>5, <2>9
<1> QED
  BY <1>10, <1>11, <1>12

Merged(all) == [n \in DOMAIN all |-> all[PlaceOf(all, n)]]

\* The merge of two sequences.
LEMMA MergeIs ==
    ASSUME NEW S, NEW a \in Seq(S), NEW b \in Seq(S)
    PROVE  MergeDatabaseChanges(<<a, b>>) = Merged(a \o b)
<1>0. PICK all : all = a \o b
  OBVIOUS
<1>1. PICK both : both = <<a, b>>
  OBVIOUS
<1>2. Len(both) = 2 /\ both[1] = a /\ both[2] = b
  BY <1>1
<1>3. FlattenSeq(both) = all
  <2> DEFINE Solves(g) == g = [i \in 1..Len(both) |-> IF i = 1 THEN both[i] ELSE g[i - 1] \o both[i]]
  <2>1. PICK f : f = [i \in 1..2 |-> IF i = 1 THEN a ELSE a \o b]
    OBVIOUS
  <2>2. f[1] = a /\ f[2] = a \o b
    BY <2>1
  <2>3. Solves(f)
    <3>1. \A i \in 1..2 : (IF i = 1 THEN a ELSE a \o b) = (IF i = 1 THEN both[i] ELSE f[i - 1] \o both[i])
      BY <1>2, <2>2
    <3> QED
      BY <1>2, <2>1, <3>1
  <2>4. PICK g : g = CHOOSE h : Solves(h)
    OBVIOUS
  <2>5. Solves(g)
    BY <2>3, <2>4
  <2>6. g = [i \in 1..2 |-> IF i = 1 THEN both[i] ELSE g[i - 1] \o both[i]]
    BY <1>2, <2>5
  <2>7. 1 \in 1..2 /\ 2 \in 1..2 /\ 2 - 1 = 1 /\ 2 # 1
    OBVIOUS
  <2>8. /\ g[1] = IF 1 = 1 THEN both[1] ELSE g[1 - 1] \o both[1]
        /\ g[2] = IF 2 = 1 THEN both[2] ELSE g[2 - 1] \o both[2]
    BY <2>6, <2>7, Zenon
  <2>9. FlattenSeq(both) = g[Len(both)]
    BY <1>2, <2>4 DEF FlattenSeq
  <2> QED
    BY <1>0, <1>2, <2>7, <2>8, <2>9
<1>4. MergeDatabaseChanges(both) =
         [n \in DOMAIN FlattenSeq(both) |-> FlattenSeq(both)[PlaceOf(FlattenSeq(both), n)]]
  BY DEF MergeDatabaseChanges, PlaceOf, PlacesTo
<1> QED
  BY <1>0, <1>1, <1>3, <1>4 DEF Merged

-----------------------------------------------------------------------------
(***************************************************************************)
(* The states of pools: the last of a pool's changes in the merge says     *)
(* whether a log of the block closed it.                                   *)
(***************************************************************************)
Change == [pool : Pools \cup {None}, status : {"OPENED", "CLOSED"}, ordinal : Int, log : Nat]

\* The ordinal of a row is an integer.
LEMMA OrdinalType ==
    ASSUME NEW touched, NEW row
    PROVE  RowOrdinal(touched, row) \in Int
<1>1. PICK rows : rows = RowOrder(touched)
  OBVIOUS
<1>2. PICK places : places = {i \in 1..Len(rows) : rows[i] = row}
  OBVIOUS
<1>3. SelectInSeq(rows, LAMBDA r : r = row) = IF places # {} THEN Min(places) ELSE 0
  BY <1>2 DEF SelectInSeq
<1>4. ASSUME places # {} PROVE Min(places) \in Nat
  <2>1. places \subseteq Nat
    BY <1>2
  <2>2. \E n \in places : \A m \in places : n <= m
    BY <1>4, <2>1, LeastNumber
  <2>3. Min(places) \in places
    BY <2>2 DEF Min
  <2> QED
    BY <2>1, <2>3
<1>5. SelectInSeq(rows, LAMBDA r : r = row) \in Int
  BY <1>3, <1>4
<1> QED
  BY <1>1, <1>5 DEF RowOrdinal

LegacyStatusKinds == PoolFactories \cup {"ADMINCLOSEPOOL"}

FitLegacy(a) ==
    /\ a \in Seq(Change)
    /\ \A i \in DOMAIN a :
          /\ a[i].log \in Of(LegacyStatusKinds) /\ a[i].pool = logs[a[i].log].pool
          /\ a[i].status = IF logs[a[i].log].kind = "ADMINCLOSEPOOL" THEN "CLOSED" ELSE "OPENED"
    /\ \A n \in Of(LegacyStatusKinds) : \E i \in DOMAIN a : a[i].log = n
    /\ \A i, j \in DOMAIN a : i <= j <=> a[i].log <= a[j].log
    /\ \A i, j \in DOMAIN a : a[i].pool = a[j].pool => a[i].ordinal = a[j].ordinal

FitV14(b) ==
    /\ b \in Seq(Change)
    /\ \A i \in DOMAIN b :
          /\ b[i].log \in Of({"TradeCurationCreated"}) /\ b[i].pool = logs[b[i].log].pool
          /\ b[i].status = CurationStatus(b[i].pool)
    /\ \A n \in Of({"TradeCurationCreated"}) : \E i \in DOMAIN b : b[i].log = n

\* The legacy writer has a change for each creation and close, in their order,
\* and those of a pool in one row.
LEMMA LegacyChanges ==
    ASSUME TypeInv, NEW earlier \in Nat
    PROVE  FitLegacy(LegacyStatusChanges(earlier))
<1>0. PICK a : a = LegacyStatusChanges(earlier)
  OBVIOUS
<1>1. logs \in Seq(Log)
  BY DEF TypeInv, StoresType
<1>2. PICK S : S = Of(LegacyStatusKinds)
  OBVIOUS
<1>3. S \subseteq 1..Len(logs) /\ IsFiniteSet(S) /\ \A n \in S : logs[n] \in Log
  BY <1>1, <1>2, OfType
<1>4. S \subseteq Nat
  BY <1>3
<1>5. PICK order : order = InOrder(S)
  OBVIOUS
<1>6. /\ order \in Seq(S) /\ DOMAIN order = 1..Cardinality(S) /\ Cardinality(S) \in Nat
      /\ \A n \in S : \E i \in DOMAIN order : order[i] = n
      /\ \A i, j \in DOMAIN order : i <= j <=> order[i] <= order[j]
  BY <1>3, <1>4, <1>5, InOrderIs DEF Ascending
<1>7. PICK rows : rows = LegacyRows
  OBVIOUS
<1>8. PICK ordinal : ordinal = [p \in Pools \cup {None} |-> earlier + RowOrdinal(rows, <<"pool", p>>)]
  OBVIOUS
<1>9. \A p \in Pools \cup {None} : ordinal[p] \in Int /\ ordinal[p] = earlier + RowOrdinal(rows, <<"pool", p>>)
  <2> SUFFICES ASSUME NEW p \in Pools \cup {None}
               PROVE  ordinal[p] \in Int /\ ordinal[p] = earlier + RowOrdinal(rows, <<"pool", p>>)
    OBVIOUS
  <2>1. RowOrdinal(rows, <<"pool", p>>) \in Int
    BY OrdinalType
  <2> QED
    BY <1>8, <2>1
<1>10. DOMAIN a = DOMAIN order /\ \A i \in DOMAIN order :
          a[i] = [pool |-> logs[order[i]].pool,
                  status |-> IF logs[order[i]].kind = "ADMINCLOSEPOOL" THEN "CLOSED" ELSE "OPENED",
                  ordinal |-> earlier + RowOrdinal(rows, <<"pool", logs[order[i]].pool>>),
                  log |-> order[i]]
  BY <1>0, <1>2, <1>5, <1>7 DEF LegacyStatusChanges, StatusChange, LegacyStatusKinds
<1>11. ASSUME NEW i \in DOMAIN order
       PROVE  /\ a[i] \in Change /\ a[i].log = order[i] /\ order[i] \in S
              /\ a[i].pool = logs[order[i]].pool
              /\ a[i].status = IF logs[order[i]].kind = "ADMINCLOSEPOOL" THEN "CLOSED" ELSE "OPENED"
              /\ a[i].ordinal = ordinal[a[i].pool]
  <2>1. order[i] \in S
    BY <1>6
  <2>2. order[i] \in Nat /\ logs[order[i]].pool \in Pools \cup {None}
    BY <1>3, <1>4, <2>1 DEF Log
  <2>3. ordinal[logs[order[i]].pool] \in Int
        /\ ordinal[logs[order[i]].pool] = earlier + RowOrdinal(rows, <<"pool", logs[order[i]].pool>>)
    BY <1>9, <2>2
  <2>4. a[i] = [pool |-> logs[order[i]].pool,
                status |-> IF logs[order[i]].kind = "ADMINCLOSEPOOL" THEN "CLOSED" ELSE "OPENED",
                ordinal |-> ordinal[logs[order[i]].pool],
                log |-> order[i]]
    BY <1>10, <2>3
  <2> QED
    BY <2>1, <2>2, <2>3, <2>4 DEF Change
<1>12. a \in Seq(Change)
  <2>1. a = [i \in 1..Cardinality(S) |-> a[i]]
    BY <1>0, <1>2, <1>5, <1>6 DEF LegacyStatusChanges, LegacyStatusKinds
  <2>2. PICK size \in Nat : size = Cardinality(S)
    BY <1>6
  <2>3. \A i \in 1..size : a[i] \in Change
    BY <1>6, <1>11, <2>2
  <2>4. a \in [1..size -> Change]
    BY <2>1, <2>2, <2>3
  <2> QED
    BY <2>4
<1>13. \A n \in S : \E i \in DOMAIN a : a[i].log = n
  BY <1>6, <1>10, <1>11
<1>14. \A i, j \in DOMAIN a : i <= j <=> a[i].log <= a[j].log
  BY <1>6, <1>10, <1>11
<1>15. \A i, j \in DOMAIN a : a[i].pool = a[j].pool => a[i].ordinal = a[j].ordinal
  <2>1. \A i \in DOMAIN a : a[i].ordinal = ordinal[a[i].pool]
    BY <1>10, <1>11
  <2> QED
    BY <2>1
<1>16. \A i \in DOMAIN a :
          /\ a[i].log \in S /\ a[i].pool = logs[a[i].log].pool
          /\ a[i].status = IF logs[a[i].log].kind = "ADMINCLOSEPOOL" THEN "CLOSED" ELSE "OPENED"
  BY <1>10, <1>11
<1> QED
  BY <1>0, <1>2, <1>12, <1>13, <1>14, <1>15, <1>16 DEF FitLegacy

\* The V14 writer has one for each pool that it creates.
LEMMA V14Changes ==
    ASSUME TypeInv
    PROVE  FitV14(V14StatusChanges)
<1>0. PICK b : b = V14StatusChanges
  OBVIOUS
<1>1. logs \in Seq(Log)
  BY DEF TypeInv, StoresType
<1>2. PICK S : S = Of({"TradeCurationCreated"})
  OBVIOUS
<1>3. S \subseteq 1..Len(logs) /\ IsFiniteSet(S) /\ \A n \in S : logs[n] \in Log
  BY <1>1, <1>2, OfType
<1>4. S \subseteq Nat
  BY <1>3
<1>5. PICK order : order = InOrder(S)
  OBVIOUS
<1>6. /\ order \in Seq(S) /\ DOMAIN order = 1..Cardinality(S) /\ Cardinality(S) \in Nat
      /\ \A n \in S : \E i \in DOMAIN order : order[i] = n
  BY <1>3, <1>4, <1>5, InOrderIs DEF Ascending
<1>7. b = [i \in 1..Cardinality(S) |->
              [pool |-> logs[order[i]].pool, status |-> CurationStatus(logs[order[i]].pool),
               ordinal |-> order[i], log |-> order[i]]]
  BY <1>0, <1>2, <1>5, <1>6 DEF V14StatusChanges, StatusChange
<1>8. ASSUME NEW i \in 1..Cardinality(S)
      PROVE  /\ b[i] \in Change /\ b[i].log = order[i] /\ order[i] \in S
             /\ b[i].pool = logs[order[i]].pool /\ b[i].status = CurationStatus(logs[order[i]].pool)
  <2>1. order[i] \in S
    BY <1>6
  <2>2. order[i] \in Nat /\ logs[order[i]].pool \in Pools \cup {None}
    BY <1>3, <1>4, <2>1 DEF Log
  <2>3. CurationStatus(logs[order[i]].pool) \in {"OPENED", "CLOSED"}
    BY DEF CurationStatus
  <2>4. b[i] = [pool |-> logs[order[i]].pool, status |-> CurationStatus(logs[order[i]].pool),
                ordinal |-> order[i], log |-> order[i]]
    BY <1>7
  <2> QED
    BY <2>1, <2>2, <2>3, <2>4 DEF Change
<1>9. b \in Seq(Change)
  BY <1>6, <1>7, <1>8
<1>10. \A n \in S : \E i \in DOMAIN b : b[i].log = n
  BY <1>6, <1>7, <1>8
<1>11. \A i \in DOMAIN b :
          b[i].log \in S /\ b[i].pool = logs[b[i].log].pool /\ b[i].status = CurationStatus(b[i].pool)
  BY <1>7, <1>8
<1> QED
  BY <1>0, <1>2, <1>9, <1>10, <1>11 DEF FitV14

\* What the sink leaves a pool's row with is the pending state.
LEMMA StatusAfterIs ==
    ASSUME TypeInv, LogsInv, NEW earlier \in Nat, NEW p \in Pools
    PROVE  StatusAfter(p, earlier) = PendingStatus(p)
<1>1. PICK a : a = LegacyStatusChanges(earlier)
  OBVIOUS
<1>2. PICK b : b = V14StatusChanges
  OBVIOUS
<1>3. PICK legacy : legacy = PoolFactories \cup {"ADMINCLOSEPOOL"} /\ legacy = LegacyStatusKinds
  BY DEF LegacyStatusKinds
<1>4. PICK curation : curation = {"TradeCurationCreated"}
  OBVIOUS
<1>5. /\ a \in Seq(Change)
      /\ \A i \in DOMAIN a :
            /\ a[i].log \in Of(legacy) /\ a[i].pool = logs[a[i].log].pool
            /\ a[i].status = IF logs[a[i].log].kind = "ADMINCLOSEPOOL" THEN "CLOSED" ELSE "OPENED"
      /\ \A n \in Of(legacy) : \E i \in DOMAIN a : a[i].log = n
      /\ \A i, j \in DOMAIN a : i <= j <=> a[i].log <= a[j].log
      /\ \A i, j \in DOMAIN a : a[i].pool = a[j].pool => a[i].ordinal = a[j].ordinal
  <2>1. FitLegacy(a)
    BY <1>1, LegacyChanges
  <2> QED
    BY <1>3, <2>1 DEF FitLegacy
<1>6. /\ b \in Seq(Change)
      /\ \A i \in DOMAIN b :
            /\ b[i].log \in Of(curation) /\ b[i].pool = logs[b[i].log].pool
            /\ b[i].status = CurationStatus(b[i].pool)
      /\ \A n \in Of(curation) : \E i \in DOMAIN b : b[i].log = n
  <2>1. FitV14(b)
    BY <1>2, V14Changes
  <2> QED
    BY <1>4, <2>1 DEF FitV14
<1>7. PICK all : all = a \o b
  OBVIOUS
<1>8. PICK la \in Nat : la = Len(a)
  BY <1>5
<1>9. PICK lb \in Nat : lb = Len(b)
  BY <1>6
<1>10. PICK len \in Nat : len = la + lb
  OBVIOUS
<1>11. /\ all \in Seq(Change) /\ DOMAIN all = 1..len /\ DOMAIN a = 1..la /\ DOMAIN b = 1..lb
       /\ \A i \in 1..len : all[i] = IF i <= la THEN a[i] ELSE b[i - la]
  <2>1. /\ all \in Seq(Change) /\ Len(all) = Len(a) + Len(b)
        /\ \A i \in 1..(Len(a) + Len(b)) : all[i] = IF i <= Len(a) THEN a[i] ELSE b[i - Len(a)]
    BY <1>5, <1>6, <1>7, ConcatProperties
  <2> QED
    BY <1>5, <1>6, <1>8, <1>9, <1>10, <2>1
<1>12. \A i \in 1..la : i \in 1..len /\ all[i] = a[i]
  BY <1>10, <1>11
<1>13. \A i \in 1..lb : la + i \in 1..len /\ all[la + i] = b[i]
  <2> SUFFICES ASSUME NEW i \in 1..lb PROVE la + i \in 1..len /\ all[la + i] = b[i]
    OBVIOUS
  <2>1. la + i \in 1..len /\ ~ (la + i <= la) /\ (la + i) - la = i
    BY <1>10
  <2> QED
    BY <1>11, <2>1
<1>14. \A i \in 1..len : \/ i \in 1..la /\ all[i] = a[i]
                         \/ \E j \in 1..lb : all[i] = b[j]
  <2> SUFFICES ASSUME NEW i \in 1..len PROVE \/ i \in 1..la /\ all[i] = a[i]
                                             \/ \E j \in 1..lb : all[i] = b[j]
    OBVIOUS
  <2>1. CASE i <= la
    BY <1>11, <2>1
  <2>2. CASE ~ (i <= la)
    <3>1. i - la \in 1..lb
      BY <1>10, <2>2
    <3> QED
      BY <1>11, <2>2, <3>1
  <2> QED
    BY <2>1, <2>2
<1>15. /\ \A n \in 1..len : PlaceOf(all, n) \in 1..len
       /\ \A i \in 1..len : \E n \in 1..len : PlaceOf(all, n) = i
       /\ \A m, n \in 1..len : all[PlaceOf(all, m)].ordinal = all[PlaceOf(all, n)].ordinal =>
             (m <= n <=> PlaceOf(all, m) <= PlaceOf(all, n))
  <2>1. \A i \in 1..len : all[i].ordinal \in Int
    <3>1. \A c \in Change : c.ordinal \in Int
      BY DEF Change
    <3>2. \A i \in 1..len : all[i] \in Change
      BY <1>11
    <3> QED
      BY <3>1, <3>2
  <2> QED
    BY <1>11, <2>1, PlacesAre
<1>16. PICK merged : merged = StatusChanges(earlier)
  OBVIOUS
<1>17. merged = [n \in 1..len |-> all[PlaceOf(all, n)]]
  <2>1. merged = MergeDatabaseChanges(<<a, b>>)
    BY <1>1, <1>2, <1>16 DEF StatusChanges
  <2>2. MergeDatabaseChanges(<<a, b>>) = Merged(a \o b)
    <3>1. a \in Seq(Change) /\ b \in Seq(Change)
      BY <1>5, <1>6
    <3> QED
      BY ONLY <3>1, MergeIs
  <2> QED
    BY <1>7, <1>11, <2>1, <2>2 DEF Merged
<1>18. PICK own : own = {n \in 1..len : merged[n].pool = p}
  OBVIOUS
<1>19. StatusAfter(p, earlier) = IF own = {} THEN db.status[p] ELSE merged[Max(own)].status
  BY <1>16, <1>17, <1>18 DEF StatusAfter
<1>20. \A n \in own : n \in 1..len /\ PlaceOf(all, n) \in 1..len /\ all[PlaceOf(all, n)].pool = p
  BY <1>15, <1>17, <1>18
<1>21. \A i \in 1..len : all[i].pool = p => \E n \in own : PlaceOf(all, n) = i
  BY <1>15, <1>17, <1>18
<1>22. /\ \A n \in Of(legacy) : logs[n].pool = p => \E i \in 1..len : all[i].pool = p /\ all[i].log = n
       /\ \A n \in Of(curation) : logs[n].pool = p => \E i \in 1..len : all[i].pool = p /\ all[i].log = n
  <2>1. ASSUME NEW n \in Of(legacy), logs[n].pool = p
        PROVE  \E i \in 1..len : all[i].pool = p /\ all[i].log = n
    <3>1. PICK i \in 1..la : a[i].log = n /\ a[i].pool = p
      BY <1>5, <1>11, <2>1
    <3> QED
      BY <1>12, <3>1
  <2>2. ASSUME NEW n \in Of(curation), logs[n].pool = p
        PROVE  \E i \in 1..len : all[i].pool = p /\ all[i].log = n
    <3>1. PICK i \in 1..lb : b[i].log = n /\ b[i].pool = p
      BY <1>6, <1>11, <2>2
    <3> QED
      BY <1>13, <3>1
  <2> QED
    BY <2>1, <2>2
<1>23. /\ ClosedNow(p) <=> \E n \in Of(legacy) : logs[n].kind = "ADMINCLOSEPOOL" /\ logs[n].pool = p
       /\ CreatedNow(p) <=> \/ \E n \in Of(legacy) : logs[n].kind # "ADMINCLOSEPOOL" /\ logs[n].pool = p
                            \/ \E n \in Of(curation) : logs[n].pool = p
  <2>1. ClosedNow(p) <=> \E n \in Of(legacy) : logs[n].kind = "ADMINCLOSEPOOL" /\ logs[n].pool = p
    BY <1>3 DEF ClosedNow, Of
  <2>2. "ADMINCLOSEPOOL" \notin PoolFactories
    BY DEF PoolFactories
  <2>3. \A n : n \in Of(CreationKinds)
                 <=> \/ n \in Of(legacy) /\ logs[n].kind # "ADMINCLOSEPOOL"
                     \/ n \in Of(curation)
    BY <1>3, <1>4, <2>2 DEF Of, CreationKinds
  <2> QED
    BY <2>1, <2>3 DEF CreatedNow
<1>24. CASE own = {}
  <2>1. ~ ClosedNow(p) /\ ~ CreatedNow(p)
    BY <1>21, <1>22, <1>23, <1>24
  <2> QED
    BY <1>19, <1>24, <2>1 DEF PendingStatus
<1>25. CASE own # {}
  <2>1. PICK last : last = Max(own)
    OBVIOUS
  <2>2. last \in own /\ \A n \in own : n <= last
    BY <1>18, <1>25, <2>1, GreatestPosition
  <2>3. PICK top \in 1..len : top = PlaceOf(all, last)
    BY <1>20, <2>2
  <2>4. all[top].pool = p /\ StatusAfter(p, earlier) = all[top].status
    BY <1>17, <1>19, <1>20, <1>25, <2>1, <2>2, <2>3
  <2>5. \A n \in Of(legacy) : logs[n].kind # "ADMINCLOSEPOOL" => logs[n].pool \in LegacyPools
    BY <1>3 DEF Of, LogsInv, Fits
  <2>6. \A n \in Of(curation) : logs[n].pool \in CurationPools
    BY <1>4 DEF Of, LogsInv, Fits
  <2>7. CASE p \in CurationPools
    <3>1. p \notin LegacyPools
      BY <2>7, WalnutAssumption
    <3>2. CASE top \in 1..la /\ all[top] = a[top]
      <4>1. /\ a[top].log \in Of(legacy) /\ logs[a[top].log].pool = p
            /\ logs[a[top].log].kind = "ADMINCLOSEPOOL"
        BY <1>5, <1>11, <2>4, <2>5, <3>1, <3>2
      <4>2. ClosedNow(p) /\ all[top].status = "CLOSED"
        BY <1>5, <1>11, <1>23, <3>2, <4>1
      <4> QED
        BY <2>4, <4>2 DEF PendingStatus
    <3>3. CASE \E j \in 1..lb : all[top] = b[j]
      <4>1. PICK j \in 1..lb : all[top] = b[j]
        BY <3>3
      <4>2. b[j].log \in Of(curation) /\ logs[b[j].log].pool = p /\ b[j].status = CurationStatus(p)
        BY <1>6, <1>11, <2>4, <4>1
      <4>3. CreatedNow(p)
        BY <1>23, <4>2
      <4>4. CurationStatus(p) = IF ClosedNow(p) THEN "CLOSED" ELSE "OPENED"
        BY DEF CurationStatus, ClosedNow
      <4> QED
        BY <2>4, <4>1, <4>2, <4>3, <4>4 DEF PendingStatus
    <3> QED
      BY <1>14, <3>2, <3>3
  <2>8. CASE p \in LegacyPools
    <3>1. p \notin CurationPools
      BY <2>8, WalnutAssumption
    <3>2. \A i \in 1..len : all[i].pool = p => i \in 1..la /\ all[i] = a[i]
      <4> SUFFICES ASSUME NEW i \in 1..len, all[i].pool = p, NEW j \in 1..lb, all[i] = b[j]
                   PROVE  FALSE
        BY <1>14
      <4>1. b[j].log \in Of(curation) /\ logs[b[j].log].pool = p
        BY <1>6, <1>11
      <4> QED
        BY <2>6, <3>1, <4>1
    <3>3. top \in 1..la /\ all[top] = a[top] /\ a[top].pool = p
      BY <2>4, <3>2
    <3>4. ASSUME NEW i \in 1..la, a[i].pool = p PROVE i <= top
      <4>1. PICK n \in own : PlaceOf(all, n) = i
        BY <1>12, <1>21, <3>4
      <4>2. n <= last /\ n \in 1..len /\ last \in 1..len
        BY <1>20, <2>2
      <4>3. all[i].ordinal = all[top].ordinal
        BY <1>5, <1>11, <1>12, <3>3, <3>4
      <4>4. n <= last <=> PlaceOf(all, n) <= PlaceOf(all, last)
        BY <1>15, <2>3, <4>1, <4>2, <4>3
      <4> QED
        BY <2>3, <4>1, <4>2, <4>4
    <3>5. PICK m \in Of(legacy) : m = a[top].log
      BY <1>5, <1>11, <3>3
    <3>6. /\ logs[m].pool = p
          /\ all[top].status = IF logs[m].kind = "ADMINCLOSEPOOL" THEN "CLOSED" ELSE "OPENED"
      BY <1>5, <1>11, <3>3, <3>5
    <3>7. CASE logs[m].kind = "ADMINCLOSEPOOL"
      <4>1. ClosedNow(p)
        BY <1>23, <3>6, <3>7
      <4> QED
        BY <2>4, <3>6, <3>7, <4>1 DEF PendingStatus
    <3>8. CASE logs[m].kind # "ADMINCLOSEPOOL"
      <4>1. CreatedNow(p)
        BY <1>23, <3>6, <3>8
      <4>2. ASSUME ClosedNow(p) PROVE FALSE
        <5>1. PICK n \in Of(legacy) : logs[n].kind = "ADMINCLOSEPOOL" /\ logs[n].pool = p
          BY <1>23, <4>2
        <5>2. PICK i \in 1..la : a[i].log = n /\ a[i].pool = p
          BY <1>5, <1>11, <5>1
        <5>3. i <= top
          BY <3>4, <5>2
        <5>4. n <= m
          BY <1>5, <1>11, <3>3, <3>5, <5>2, <5>3
        <5>5. logs[m].kind \in CreationKinds /\ m \in DOMAIN logs /\ n \in DOMAIN logs
          BY <1>3, <3>8 DEF Of, CreationKinds
        <5>6. m < n
          BY <3>6, <5>1, <5>5 DEF LogsInv
        <5>7. m \in Nat /\ n \in Nat
          BY <5>5 DEF TypeInv, StoresType
        <5> QED
          BY <5>4, <5>6, <5>7
      <4> QED
        BY <2>4, <3>6, <3>8, <4>1, <4>2 DEF PendingStatus
    <3> QED
      BY <3>7, <3>8
  <2> QED
    BY <2>7, <2>8 DEF Pools
<1> QED
  BY <1>24, <1>25

-----------------------------------------------------------------------------
(***************************************************************************)
(* The block ends: the rows become what was pending, and nothing is.       *)
(***************************************************************************)
\* The membership keys of a block are finitely many.
LEMMA KeysFinite ==
    ASSUME TypeInv
    PROVE  IsFiniteSet(MembershipKeys)
<1>1. \A kinds : IsFiniteSet(Of(kinds))
  BY OfType DEF TypeInv, StoresType
<1>2. PICK S1 : S1 = {m \in Of(UserKinds) :
                        logs[m].kind = "OWNERSHIP_TRANSFERRED" => logs[m].previous # None}
  OBVIOUS
<1>3. PICK S2 : S2 = Of({"SOCIALCLAIM"} \cup StakeKinds)
  OBVIOUS
<1>4. PICK S3 : S3 = Of(StakeKinds)
  OBVIOUS
<1>5. IsFiniteSet(S1) /\ IsFiniteSet(S2) /\ IsFiniteSet(S3)
  <2>1. S1 \subseteq Of(UserKinds)
    BY <1>2
  <2> QED
    BY <1>1, <1>3, <1>4, <2>1, FS_Subset
<1>6. PICK T1 : T1 = {<<"community", logs[n].community, logs[n].account>> : n \in S1}
  OBVIOUS
<1>7. PICK T2 : T2 = {<<"pool", logs[n].pool, logs[n].account>> : n \in S2}
  OBVIOUS
<1>8. PICK T3 : T3 = {<<"staker", logs[n].pool, logs[n].account>> : n \in S3}
  OBVIOUS
<1>9. IsFiniteSet(T1)
  <2>1. PICK f : f = [n \in S1 |-> <<"community", logs[n].community, logs[n].account>>]
    OBVIOUS
  <2>2. T1 = {f[n] : n \in S1}
    BY <1>6, <2>1
  <2> QED
    BY <1>5, <2>2, FiniteImage
<1>10. IsFiniteSet(T2)
  <2>1. PICK f : f = [n \in S2 |-> <<"pool", logs[n].pool, logs[n].account>>]
    OBVIOUS
  <2>2. T2 = {f[n] : n \in S2}
    BY <1>7, <2>1
  <2> QED
    BY <1>5, <2>2, FiniteImage
<1>11. IsFiniteSet(T3)
  <2>1. PICK f : f = [n \in S3 |-> <<"staker", logs[n].pool, logs[n].account>>]
    OBVIOUS
  <2>2. T3 = {f[n] : n \in S3}
    BY <1>8, <2>1
  <2> QED
    BY <1>5, <2>2, FiniteImage
<1>12. MembershipKeys = (T1 \cup T2) \cup T3
  BY <1>2, <1>3, <1>4, <1>6, <1>7, <1>8 DEF MembershipKeys
<1> QED
  BY <1>9, <1>10, <1>11, <1>12, FS_Union

\* What ends a block changes.
LEMMA EndRows ==
    ASSUME NEW earlier, EndBlock(earlier)
    PROVE  /\ db'.owner = [c \in Communities |-> OwnerAfter(c)]
           /\ db'.dao_fund = [c \in Communities |-> FundAfter(c)]
           /\ db'.fee_ratio = [c \in Communities |-> FeeAfter(c)]
           /\ db'.retained_revenue = [c \in Communities |->
                 db.retained_revenue[c] + Count("POOL_UPDATED", c) - Count("ADMINWITHDRAWNREVENUE", c)]
           /\ db'.active_pool_count = [c \in Communities |->
                 IF Lists(c) = {} THEN db.active_pool_count[c] ELSE Len(logs[Max(Lists(c))].pools)]
           /\ db'.pool_index = [p \in Pools |-> ListedIndex(p)]
           /\ db'.status = [p \in Pools |-> StatusAfter(p, earlier)]
           /\ db'.total_amount = [p \in Pools |->
                 db.total_amount[p] + PoolCount(StakeKinds, p) - PoolCount(UnstakeKinds, p)]
           /\ db'.members = db.members \cup MembershipDeltas
BY DEF EndBlock, PoolCount

\* The logs of an empty block.
LEMMA NoLogs ==
    ASSUME logs' = <<>>
    PROVE  /\ logs' \in Seq(Log) /\ Len(logs') = 0
           /\ \A kinds : Of(kinds)' = {}
           /\ \A kinds, x : ByCommunity(kinds, x)' = {} /\ ByPool(kinds, x)' = {}
<1>1. logs' \in Seq(Log) /\ Len(logs') = 0 /\ DOMAIN logs' = {}
  OBVIOUS
<1>2. \A kinds : Of(kinds)' = {}
  BY <1>1 DEF Of
<1> QED
  BY <1>1, <1>2 DEF ByCommunity, ByPool

\* Types stay.
LEMMA EndTypes ==
    ASSUME OpenInv, NEW earlier, EndBlock(earlier)
    PROVE  TypeInv' /\ owners' = owner /\ db'.members = Members
<1>1. TypeInv /\ RowsPending
  BY DEF OpenInv
<1>2. ContractsType'
  BY <1>1 DEF EndBlock, contracts, pools, dao, TypeInv, ContractsType
<1>3. logs' = <<>> /\ history' = history \o logs /\ block' = block + 1
      /\ operations' = operations + Cardinality(LegacyOperations)
      /\ memberships' = memberships \cup MembershipKeys
      /\ owners' = [c \in Communities |-> OwnerAt(Len(logs), c)]
  BY DEF EndBlock
<1>4. /\ logs \in Seq(Log) /\ history \in Seq(Log) /\ Len(history) + Len(logs) <= MaxHistory
      /\ operations \in Nat /\ block \in Nat /\ block >= FirstBlock /\ FirstBlock \in Nat
      /\ memberships = db.members /\ IsFiniteSet(memberships) /\ MaxLogs \in Nat
      /\ owner \in [Communities -> Users \cup {None}]
  BY <1>1, WalnutAssumption DEF TypeInv, StoresType, ContractsType
<1>5. owners' = owner
  BY <1>1, <1>3, <1>4 DEF RowsPending, OwnersPending
<1>6. db'.members = db.members \cup (MembershipKeys \ memberships)
  BY EndRows DEF MembershipDeltas
<1>7. db'.members = Members /\ memberships' = db'.members
  BY <1>3, <1>4, <1>6 DEF Members
<1>8. IsFiniteSet(memberships')
  BY <1>1, <1>3, <1>4, KeysFinite, FS_Union
<1>9. operations' \in Nat
  <2>1. LegacyOperations \subseteq Of(FactoryKinds \cup DynamicKinds)
    BY DEF LegacyOperations, Operations
  <2>2. IsFiniteSet(LegacyOperations)
    BY <1>4, <2>1, OfType, FS_Subset
  <2>3. Cardinality(LegacyOperations) \in Nat
    BY <2>2, FS_CardinalityType
  <2> QED
    BY <1>3, <1>4, <2>3
<1>10. /\ logs' \in Seq(Log) /\ Len(logs') <= MaxLogs
       /\ history' \in Seq(Log) /\ Len(history') + Len(logs') <= MaxHistory
  <2>1. history' \in Seq(Log) /\ Len(history') = Len(history) + Len(logs)
    BY <1>3, <1>4, ConcatProperties
  <2>2. logs' \in Seq(Log) /\ Len(logs') = 0
    BY <1>3
  <2> QED
    BY <1>4, <2>1, <2>2
<1>11. block' \in Nat /\ block' >= FirstBlock
  BY <1>3, <1>4
<1>12. StoresType'
  BY <1>4, <1>5, <1>7, <1>8, <1>9, <1>10, <1>11 DEF StoresType
<1>13. RowsType'
  <2>1. db'.owner \in [Communities -> Users \cup {None}]
    BY <1>1, <1>4, EndRows DEF RowsPending, OwnersPending
  <2>2. db'.dao_fund \in [Communities -> Users \cup {None}]
    BY <1>1, EndRows DEF RowsPending, FundsPending, TypeInv, ContractsType
  <2>3. db'.fee_ratio \in [Communities -> {0, 1}]
    BY <1>1, EndRows DEF RowsPending, FeesPending, TypeInv, ContractsType
  <2>4. db'.retained_revenue \in [Communities -> Int]
    <3>1. \A c \in Communities :
             db.retained_revenue[c] + Count("POOL_UPDATED", c) - Count("ADMINWITHDRAWNREVENUE", c) \in Int
      BY <1>1 DEF RowsPending, RevenuePending, TypeInv, ContractsType
    <3> QED
      BY <3>1, EndRows
  <2>5. db'.total_amount \in [Pools -> Int]
    <3>1. ASSUME NEW p \in Pools
          PROVE  db.total_amount[p] + PoolCount(StakeKinds, p) - PoolCount(UnstakeKinds, p) \in Int
      <4>1. PICK in \in Nat : in = Cardinality(ByPool(StakeKinds, p))
        BY <1>4, ByType
      <4>2. PICK out \in Nat : out = Cardinality(ByPool(UnstakeKinds, p))
        BY <1>4, ByType
      <4>3. PoolCount(StakeKinds, p) = in /\ PoolCount(UnstakeKinds, p) = out
        BY <4>1, <4>2, RowsAre DEF RowsIn
      <4>4. db.total_amount[p] \in Int
        BY <1>1 DEF TypeInv, RowsType
      <4> QED
        BY <4>3, <4>4
    <3> QED
      BY <3>1, EndRows
  <2> QED
    BY <2>1, <2>2, <2>3, <2>4, <2>5 DEF RowsType
<1> QED
  BY <1>2, <1>5, <1>7, <1>12, <1>13 DEF TypeInv

\* The places of a list of pools in the committed rows.
LEMMA ListedIndexIs ==
    ASSUME TypeInv, ContractsInv, LogsInv, ListsPending, NEW c \in Communities,
           NEW i \in DOMAIN listed[c]
    PROVE  ListedIndex(listed[c][i]) = i
<1>1. PICK p \in Pools : p = listed[c][i]
  BY DEF TypeInv, ContractsType
<1>2. PICK lists : lists = {n \in Of({"ADMINSETRATIO"}) : p \in Range(logs[n].pools)}
  OBVIOUS
<1>3. home[p] = c /\ Injective(listed[c]) /\ listed[c] \in Seq(Pools)
  BY <1>1 DEF ContractsInv, TypeInv, ContractsType
<1>4. ASSUME NEW n \in lists PROVE n \in Lists(c)
  <2>1. n \in DOMAIN logs /\ logs[n].kind = "ADMINSETRATIO" /\ p \in Range(logs[n].pools)
    BY <1>2 DEF Of
  <2>2. PICK j \in DOMAIN logs[n].pools : logs[n].pools[j] = p
    BY <2>1 DEF Range
  <2>3. home[logs[n].pools[j]] = logs[n].community
    BY <2>1, <2>2 DEF LogsInv, Fits
  <2> QED
    BY <1>2, <1>3, <2>2, <2>3 DEF Lists
<1>5. ListedIndex(p) = IF lists = {} THEN db.pool_index[p]
                       ELSE CHOOSE j \in DOMAIN logs[Max(lists)].pools : logs[Max(lists)].pools[j] = p
  BY <1>2 DEF ListedIndex
<1>6. CASE Lists(c) = {}
  <2>1. lists = {}
    BY <1>4, <1>6
  <2>2. db.pool_index[p] = i
    BY <1>1, <1>6 DEF ListsPending
  <2> QED
    BY <1>1, <1>5, <2>1, <2>2
<1>7. CASE Lists(c) # {}
  <2>1. PICK last : last = Max(Lists(c))
    OBVIOUS
  <2>2. Lists(c) \subseteq 1..Len(logs) /\ Len(logs) \in Nat
    BY OfType DEF Lists, TypeInv, StoresType
  <2>3. last \in Lists(c) /\ \A n \in Lists(c) : n <= last
    BY <1>7, <2>1, <2>2, GreatestPosition
  <2>4. logs[last].pools = listed[c]
    BY <1>7, <2>1 DEF ListsPending
  <2>5. last \in lists
    <3>1. p \in Range(logs[last].pools)
      BY <1>1, <2>4 DEF Range
    <3> QED
      BY <1>2, <2>3, <3>1 DEF Lists
  <2>6. Max(lists) \in lists /\ \A n \in lists : n <= Max(lists)
    <3>1. lists \subseteq 1..Len(logs) /\ lists # {}
      BY <1>4, <2>2, <2>5
    <3> QED
      BY <2>2, <3>1, GreatestPosition
  <2>7. Max(lists) = last
    BY <1>4, <2>2, <2>3, <2>5, <2>6
  <2>8. ListedIndex(p) = CHOOSE j \in DOMAIN listed[c] : listed[c][j] = p
    BY <1>5, <2>4, <2>5, <2>7
  <2>9. \A j \in DOMAIN listed[c] : listed[c][j] = p <=> j = i
    BY <1>1, <1>3 DEF Injective
  <2> QED
    BY <1>1, <2>8, <2>9
<1> QED
  BY <1>6, <1>7

\* The open invariant at the end of a block.
LEMMA EndOpen ==
    ASSUME OpenInv, NEW earlier \in Nat, EndBlock(earlier)
    PROVE  OpenInv'
<1>1. TypeInv /\ RowsPending /\ ContractsInv /\ LogsInv
  BY DEF OpenInv
<1>2. TypeInv' /\ owners' = owner /\ db'.members = Members
  BY EndTypes
<1>3. /\ owner' = owner /\ home' = home /\ origin' = origin /\ closed' = closed /\ staked' = staked
      /\ fund' = fund /\ fee' = fee /\ retained' = retained /\ listed' = listed /\ logs' = <<>>
  BY DEF EndBlock, contracts, pools, dao
<1>4. ContractsInv'
  BY <1>1, <1>3, ContractsStay
<1>5. /\ logs' \in Seq(Log) /\ Len(logs') = 0
      /\ \A kinds : Of(kinds)' = {}
      /\ \A kinds, x : ByCommunity(kinds, x)' = {} /\ ByPool(kinds, x)' = {}
  BY <1>3, NoLogs
<1>6. LogsInv'
  <2>1. DOMAIN logs' = {}
    BY <1>3
  <2> QED
    BY <2>1 DEF LogsInv
<1>7. Attributed'
  <2>1. WithOperation' = {}
    BY <1>5 DEF WithOperation, LegacyOperations, Operations
  <2> QED
    BY <2>1 DEF Attributed
<1>8. RowsIn' /\ OwnersIn' /\ EndIn'
  BY RowsAre, OwnersAre, EndIs, PTL
<1>9. Cardinality({}) = 0
  BY FS_EmptySet
<1>10. OwnersPending'
  <2>1. \A c \in Communities : db'.owner[c] = owner[c]
    BY <1>1, EndRows DEF RowsPending, OwnersPending
  <2>2. \A c : TransfersOf(c)' = {}
    BY <1>5 DEF TransfersOf
  <2>3. \A c \in Communities : OwnerAfter(c)' = owner[c]
    BY <1>5, <1>8, <2>1, <2>2 DEF OwnersIn
  <2>4. \A c \in Communities : OwnerAt(Len(logs), c)' = owner[c]
    BY <1>2, <1>5, <1>8 DEF EndIn
  <2> QED
    BY <1>3, <2>3, <2>4 DEF OwnersPending
<1>11. FundsPending'
  <2>1. \A c \in Communities : db'.dao_fund[c] = fund[c]
    BY <1>1, EndRows DEF RowsPending, FundsPending
  <2> QED
    BY <1>3, <1>5, <1>8, <2>1 DEF FundsPending, RowsIn
<1>12. FeesPending'
  <2>1. \A c \in Communities : db'.fee_ratio[c] = fee[c]
    BY <1>1, EndRows DEF RowsPending, FeesPending
  <2> QED
    BY <1>3, <1>5, <1>8, <2>1 DEF FeesPending, RowsIn
<1>13. RevenuePending'
  <2>1. \A c \in Communities : db'.retained_revenue[c] = retained[c] /\ retained[c] \in Nat
    BY <1>1, EndRows DEF RowsPending, RevenuePending, TypeInv, ContractsType
  <2>2. \A c : Count("POOL_UPDATED", c)' = 0 /\ Count("ADMINWITHDRAWNREVENUE", c)' = 0
    BY <1>5, <1>8, <1>9 DEF RowsIn
  <2> QED
    BY <1>3, <2>1, <2>2 DEF RevenuePending
<1>14. StatusPending'
  <2>1. ASSUME NEW p \in Pools PROVE db'.status[p] = PendingStatus(p)
    <3>1. StatusAfter(p, earlier) = PendingStatus(p)
      BY <1>1, StatusAfterIs
    <3>2. db'.status = [q \in Pools |-> StatusAfter(q, earlier)]
      BY EndRows
    <3> QED
      BY <3>1, <3>2
  <2>2. \A p : ~ ClosedNow(p)' /\ ~ CreatedNow(p)'
    BY <1>5, <1>8 DEF RowsIn
  <2>3. \A p \in Pools : PendingStatus(p)' = PendingStatus(p)
    BY <2>1, <2>2 DEF PendingStatus
  <2> QED
    BY <1>1, <1>3, <2>3 DEF RowsPending, StatusPending
<1>15. StakesPending'
  <2>1. \A p \in Pools : db'.total_amount[p] = StakedIn(p) /\ db'.total_amount[p] \in Int
    BY <1>1, <1>2, EndRows DEF RowsPending, StakesPending, TypeInv, RowsType
  <2>2. \A p : PoolCount(StakeKinds, p)' = 0 /\ PoolCount(UnstakeKinds, p)' = 0
    BY <1>5, <1>8, <1>9 DEF RowsIn
  <2>3. \A p : StakedIn(p)' = StakedIn(p)
    BY <1>3 DEF StakedIn
  <2> QED
    BY <2>1, <2>2, <2>3 DEF StakesPending
<1>16. ListsPending'
  <2>1. \A c : Lists(c)' = {}
    BY <1>5, <1>8 DEF RowsIn
  <2>2. ASSUME NEW c \in Communities PROVE db'.active_pool_count[c] = Len(listed[c])
    <3>1. db'.active_pool_count = [d \in Communities |->
             IF Lists(d) = {} THEN db.active_pool_count[d] ELSE Len(logs[Max(Lists(d))].pools)]
      BY EndRows
    <3>2. db'.active_pool_count[c] =
             IF Lists(c) = {} THEN db.active_pool_count[c] ELSE Len(logs[Max(Lists(c))].pools)
      BY <3>1
    <3>3. CASE Lists(c) = {}
      BY <1>1, <3>2, <3>3 DEF RowsPending, ListsPending
    <3>4. CASE Lists(c) # {}
      BY <1>1, <3>2, <3>4 DEF RowsPending, ListsPending
    <3> QED
      BY <3>3, <3>4
  <2>3. ASSUME NEW c \in Communities, NEW i \in DOMAIN listed[c]
        PROVE  db'.pool_index[listed[c][i]] = i
    <3>1. listed[c][i] \in Pools
      BY <1>1 DEF TypeInv, ContractsType
    <3>2. ListedIndex(listed[c][i]) = i
      BY <1>1, ListedIndexIs DEF RowsPending
    <3> QED
      BY <3>1, <3>2, EndRows
  <2> QED
    BY <1>3, <2>1, <2>2, <2>3 DEF ListsPending
<1>17. MembersPending'
  <2>1. Members' = Members
    <3>1. MembershipKeys' = {}
      BY <1>5 DEF MembershipKeys
    <3> QED
      BY <1>2, <3>1 DEF Members
  <2> QED
    BY <1>1, <1>3, <2>1 DEF RowsPending, MembersPending
<1> QED
  BY <1>2, <1>4, <1>6, <1>7, <1>10, <1>11, <1>12, <1>13, <1>14, <1>15, <1>16, <1>17
     DEF OpenInv, RowsPending

-----------------------------------------------------------------------------
(***************************************************************************)
(* The rows that the end of a block adds.                                  *)
(***************************************************************************)
UpTo(S, n) == {m \in S : m <= n}

\* The places of some logs number them.
LEMMA NumberedUpTo ==
    ASSUME NEW len \in Nat, NEW S, S \subseteq 1..len
    PROVE  /\ IsFiniteSet(S) /\ Cardinality(S) \in Nat /\ Cardinality(S) <= len
           /\ \A n \in S : Cardinality(UpTo(S, n)) \in 1..Cardinality(S)
           /\ \A m, n \in S : Cardinality(UpTo(S, m)) = Cardinality(UpTo(S, n)) => m = n
<1>1. IsFiniteSet(1..len) /\ Cardinality(1..len) = len
  BY FS_Interval
<1>2. IsFiniteSet(S) /\ Cardinality(S) <= len /\ Cardinality(S) \in Nat
  BY <1>1, FS_Subset, FS_CardinalityType
<1>3. PICK below : below = [n \in S |-> UpTo(S, n)]
  OBVIOUS
<1>4. \A n \in S : below[n] = UpTo(S, n)
  BY <1>3
<1>5. \A n \in S : below[n] \subseteq S /\ n \in below[n]
  BY <1>4 DEF UpTo
<1>6. \A i, j \in S : \/ i = j
                      \/ below[i] \subseteq below[j] /\ j \notin below[i]
                      \/ below[j] \subseteq below[i] /\ i \notin below[j]
  <2> SUFFICES ASSUME NEW i \in S, NEW j \in S, i < j
               PROVE  below[i] \subseteq below[j] /\ j \notin below[i]
    OBVIOUS
  <2>1. \A k \in S : k \in Int
    OBVIOUS
  <2>2. below[i] = {k \in S : k <= i} /\ below[j] = {k \in S : k <= j}
    BY <1>4 DEF UpTo
  <2>3. i \in Int /\ j \in Int /\ i < j
    BY <2>1
  <2>4. \A k \in below[i] : k \in below[j]
    <3> SUFFICES ASSUME NEW k \in below[i] PROVE k \in below[j]
      OBVIOUS
    <3>1. k \in S /\ k <= i /\ k \in Int
      BY <2>1, <2>2
    <3>2. k <= j
      BY <2>3, <3>1
    <3> QED
      BY <2>2, <3>1, <3>2
  <2>5. j \notin below[i]
    BY <2>2, <2>3
  <2> QED
    BY <2>4, <2>5
<1>7. /\ \A n \in S : Cardinality(below[n]) \in 1..Cardinality(S)
      /\ \A m, n \in S : Cardinality(below[m]) = Cardinality(below[n]) => m = n
  BY <1>2, <1>5, <1>6, Ranking
<1> QED
  BY <1>2, <1>4, <1>7

FactoryOperations == Operations(FactoryKinds)
DynamicOperations == Operations(DynamicKinds)
BlockLogs == 1..Len(logs)

\* What operations there are in a block.
LEMMA BlockOperations ==
    ASSUME logs \in Seq(Log)
    PROVE  /\ Len(logs) \in Nat
           /\ FactoryOperations \subseteq BlockLogs /\ DynamicOperations \subseteq BlockLogs
           /\ FactoryOperations \cap DynamicOperations = {}
           /\ LegacyOperations = FactoryOperations \cup DynamicOperations
           /\ WithOperation \subseteq BlockLogs
           /\ \A n \in FactoryOperations : logs[n].kind \in FactoryKinds
           /\ \A n \in DynamicOperations : logs[n].kind \notin FactoryKinds
           /\ \A n \in LegacyOperations : logs[n].kind \notin V14Kinds
           /\ \A n \in WithOperation \ LegacyOperations : logs[n].kind \in V14Kinds
           /\ LegacyOperations \subseteq WithOperation
<1>1. Len(logs) \in Nat /\ DOMAIN logs = BlockLogs
  BY DEF BlockLogs
<1>2. \A kinds : \A n : n \in Of(kinds) <=> n \in BlockLogs /\ logs[n].kind \in kinds
  BY <1>1 DEF Of
<1>3. PICK skipped : skipped = {"OWNERSHIP_TRANSFERRED", "POOL_UPDATED"} \cup V14Kinds
  OBVIOUS
<1>4. \A kinds : \A n : n \in Operations(kinds) <=>
                           n \in BlockLogs /\ logs[n].kind \in kinds /\ logs[n].kind \notin skipped
  BY <1>2, <1>3 DEF Operations
<1>5. V14Kinds \subseteq skipped
  BY <1>3
<1>6. \A x \in DynamicKinds : x \notin FactoryKinds
  BY DEF DynamicKinds, FactoryKinds, PoolFactories, StakeKinds, UnstakeKinds, AdminKinds
<1>7. FactoryOperations \subseteq BlockLogs /\ \A n \in FactoryOperations : logs[n].kind \in FactoryKinds
  BY <1>4 DEF FactoryOperations
<1>8. DynamicOperations \subseteq BlockLogs /\ \A n \in DynamicOperations : logs[n].kind \notin FactoryKinds
  BY <1>4, <1>6 DEF DynamicOperations
<1>9. PICK legacy : legacy = FactoryKinds \cup DynamicKinds
  OBVIOUS
<1>10. LegacyOperations = Operations(legacy)
  BY <1>9 DEF LegacyOperations
<1>11. \A n : n \in LegacyOperations <=>
                 n \in BlockLogs /\ logs[n].kind \in legacy /\ logs[n].kind \notin skipped
  BY <1>4, <1>10
<1>12. LegacyOperations = FactoryOperations \cup DynamicOperations
  BY <1>4, <1>9, <1>11 DEF FactoryOperations, DynamicOperations
<1>121. FactoryOperations \cap DynamicOperations = {}
  BY <1>7, <1>8
<1>122. \A n \in LegacyOperations : logs[n].kind \notin V14Kinds
  BY <1>5, <1>11
<1>123. LegacyOperations \subseteq WithOperation
  BY DEF WithOperation
<1>13. WithOperation \subseteq BlockLogs
  BY <1>2, <1>11 DEF WithOperation
<1>14. \A n \in WithOperation \ LegacyOperations : logs[n].kind \in V14Kinds
  BY <1>2 DEF WithOperation
<1> QED
  BY <1>1, <1>7, <1>8, <1>12, <1>121, <1>122, <1>123, <1>13, <1>14

\* The legacy operations of a block get numbers of their own above those of
\* the earlier ones.
LEMMA OperationsNumbered ==
    ASSUME TypeInv
    PROVE  /\ IsFiniteSet(LegacyOperations) /\ Cardinality(LegacyOperations) \in Nat
           /\ Cardinality(LegacyOperations) <= Len(logs)
           /\ \A n \in LegacyOperations :
                 /\ OperationIndex(n) \in Nat /\ operations < OperationIndex(n)
                 /\ OperationIndex(n) <= operations + Cardinality(LegacyOperations)
           /\ \A m, n \in LegacyOperations : OperationIndex(m) = OperationIndex(n) => m = n
<1>1. logs \in Seq(Log) /\ operations \in Nat
  BY DEF TypeInv, StoresType
<1>2. PICK F : F = FactoryOperations
  OBVIOUS
<1>3. PICK D : D = DynamicOperations
  OBVIOUS
<1>4. PICK len \in Nat : len = Len(logs)
  BY <1>1, BlockOperations
<1>5. /\ F \subseteq 1..len /\ D \subseteq 1..len /\ F \cap D = {} /\ LegacyOperations = F \cup D
      /\ \A n \in F : logs[n].kind \in FactoryKinds
      /\ \A n \in D : logs[n].kind \notin FactoryKinds
  <2>1. BlockLogs = 1..len
    BY <1>4 DEF BlockLogs
  <2> QED
    BY <1>1, <1>2, <1>3, <2>1, BlockOperations
<1>6. /\ IsFiniteSet(F) /\ Cardinality(F) \in Nat
      /\ \A n \in F : Cardinality(UpTo(F, n)) \in 1..Cardinality(F)
      /\ \A m, n \in F : Cardinality(UpTo(F, m)) = Cardinality(UpTo(F, n)) => m = n
  BY <1>5, NumberedUpTo
<1>7. /\ IsFiniteSet(D) /\ Cardinality(D) \in Nat
      /\ \A n \in D : Cardinality(UpTo(D, n)) \in 1..Cardinality(D)
      /\ \A m, n \in D : Cardinality(UpTo(D, m)) = Cardinality(UpTo(D, n)) => m = n
  BY <1>5, NumberedUpTo
<1>8. /\ IsFiniteSet(F \cup D) /\ Cardinality(F \cup D) = Cardinality(F) + Cardinality(D)
      /\ Cardinality(F \cup D) <= len
  <2>1. F \cup D \subseteq 1..len
    BY <1>5
  <2>2. Cardinality(F \cup D) <= len
    BY <2>1, NumberedUpTo
  <2>3. IsFiniteSet(F \cup D) /\ Cardinality(F \cup D) = Cardinality(F) + Cardinality(D) - Cardinality({})
    BY <1>5, <1>6, <1>7, FS_Union
  <2> QED
    BY <1>6, <1>7, <2>2, <2>3, FS_EmptySet
<1>9. \A n \in F : OperationIndex(n) = operations + Cardinality(UpTo(F, n))
  BY <1>2, <1>5 DEF OperationIndex, FactoryOperations, UpTo
<1>10. \A n \in D : OperationIndex(n) = operations + Cardinality(F) + Cardinality(UpTo(D, n))
  BY <1>2, <1>3, <1>5 DEF OperationIndex, FactoryOperations, DynamicOperations, UpTo
<1>11. PICK f \in Nat : f = Cardinality(F)
  BY <1>6
<1>12. PICK d \in Nat : d = Cardinality(D)
  BY <1>7
<1>13. \A n \in F : OperationIndex(n) \in (operations + 1)..(operations + f)
  BY <1>1, <1>6, <1>9, <1>11
<1>14. \A n \in D : OperationIndex(n) \in (operations + f + 1)..(operations + f + d)
  BY <1>1, <1>7, <1>10, <1>11, <1>12
<1>15. \A m, n \in F : OperationIndex(m) = OperationIndex(n) => m = n
  <2> SUFFICES ASSUME NEW m \in F, NEW n \in F, OperationIndex(m) = OperationIndex(n) PROVE m = n
    OBVIOUS
  <2>1. PICK i \in Nat : i = Cardinality(UpTo(F, m))
    BY <1>6
  <2>2. PICK j \in Nat : j = Cardinality(UpTo(F, n))
    BY <1>6
  <2>3. operations + i = operations + j
    BY <1>9, <2>1, <2>2
  <2> QED
    BY <1>1, <1>6, <2>1, <2>2, <2>3
<1>16. \A m, n \in D : OperationIndex(m) = OperationIndex(n) => m = n
  <2> SUFFICES ASSUME NEW m \in D, NEW n \in D, OperationIndex(m) = OperationIndex(n) PROVE m = n
    OBVIOUS
  <2>1. PICK i \in Nat : i = Cardinality(UpTo(D, m))
    BY <1>7
  <2>2. PICK j \in Nat : j = Cardinality(UpTo(D, n))
    BY <1>7
  <2>3. operations + f + i = operations + f + j
    BY <1>10, <1>11, <2>1, <2>2
  <2> QED
    BY <1>1, <1>7, <2>1, <2>2, <2>3
<1>17. \A m \in F, n \in D : OperationIndex(m) # OperationIndex(n)
  BY <1>1, <1>13, <1>14
<1>18. \A n \in F \cup D :
          /\ OperationIndex(n) \in Nat /\ operations < OperationIndex(n)
          /\ OperationIndex(n) <= operations + (f + d)
  BY <1>1, <1>13, <1>14
<1>19. Cardinality(LegacyOperations) = f + d
  BY <1>5, <1>8, <1>11, <1>12
<1>20. \A m, n \in F \cup D : OperationIndex(m) = OperationIndex(n) => m = n
  BY <1>15, <1>16, <1>17
<1>21. IsFiniteSet(LegacyOperations) /\ Cardinality(LegacyOperations) <= Len(logs)
  BY <1>4, <1>5, <1>8
<1>22. f + d \in Nat
  OBVIOUS
<1>23. \A n \in LegacyOperations :
          /\ OperationIndex(n) \in Nat /\ operations < OperationIndex(n)
          /\ OperationIndex(n) <= operations + Cardinality(LegacyOperations)
  BY <1>5, <1>18, <1>19
<1> QED
  BY <1>5, <1>19, <1>20, <1>21, <1>22, <1>23

\* The chain's history goes on with the logs of the block.
LEMMA EndHistory ==
    ASSUME TypeInv, NEW earlier, EndBlock(earlier)
    PROVE  /\ Len(history) \in Nat /\ Len(logs) \in Nat
           /\ Len(history') = Len(history) + Len(logs)
           /\ \A i \in 1..Len(history) : history'[i] = history[i]
           /\ \A n \in 1..Len(logs) : history'[Len(history) + n] = logs[n]
<1>1. PICK h : h = history
  OBVIOUS
<1>2. PICK b : b = logs
  OBVIOUS
<1>3. h \in Seq(Log) /\ b \in Seq(Log) /\ history' = h \o b
  BY <1>1, <1>2 DEF EndBlock, TypeInv, StoresType
<1>4. Len(h) \in Nat /\ Len(b) \in Nat
  BY <1>3
<1>5. /\ Len(history') = Len(h) + Len(b)
      /\ \A i \in 1..Len(h) + Len(b) : history'[i] = IF i <= Len(h) THEN h[i] ELSE b[i - Len(h)]
  BY <1>3, ConcatProperties
<1>6. PICK x \in Nat : x = Len(h)
  BY <1>4
<1>7. PICK y \in Nat : y = Len(b)
  BY <1>4
<1>8. \A i \in 1..x : history'[i] = h[i]
  BY <1>5, <1>6, <1>7
<1>9. ASSUME NEW n \in 1..y PROVE history'[x + n] = b[n]
  <2>1. x + n \in 1..x + y /\ ~ (x + n <= x) /\ (x + n) - x = n
    OBVIOUS
  <2> QED
    BY <1>5, <1>6, <1>7, <2>1
<1> QED
  BY <1>1, <1>2, <1>4, <1>5, <1>6, <1>7, <1>8, <1>9

RowsOf(N) == {OperationRow(n) : n \in N}

\* An operation row has its log, its actor and its number.
LEMMA RowIs ==
    ASSUME OpenInv, NEW earlier, EndBlock(earlier), NEW n \in WithOperation
    PROVE  /\ n \in 1..Len(logs) /\ OperationRow(n).log = Len(history) + n
           /\ history'[OperationRow(n).log] = logs[n]
           /\ OperationRow(n).account = OperationAccount(n) /\ OperationAccount(n) = logs[n].actor
           /\ logs[n].kind \in V14Kinds => OperationRow(n).entity_index = AdditiveIndex(n)
           /\ logs[n].kind \notin V14Kinds =>
                 n \in LegacyOperations /\ OperationRow(n).entity_index = OperationIndex(n)
<1>1. TypeInv /\ logs \in Seq(Log) /\ Attributed
  BY DEF OpenInv, TypeInv, StoresType
<1>2. n \in 1..Len(logs)
  BY <1>1, BlockOperations DEF BlockLogs
<1>3. OperationRow(n).log = Len(history) + n /\ OperationRow(n).account = OperationAccount(n)
  BY DEF OperationRow
<1>4. history'[Len(history) + n] = logs[n]
  BY <1>1, <1>2, EndHistory
<1>5. /\ logs[n].kind \in V14Kinds => OperationRow(n).entity_index = AdditiveIndex(n)
      /\ logs[n].kind \notin V14Kinds => OperationRow(n).entity_index = OperationIndex(n)
  BY DEF OperationRow
<1>6. logs[n].kind \notin V14Kinds => n \in LegacyOperations
  BY <1>1, BlockOperations
<1> QED
  BY <1>1, <1>2, <1>3, <1>4, <1>5, <1>6 DEF Attributed

\* The additive indexes of a block lie between those of the blocks around it.
LEMMA AdditiveIs ==
    ASSUME TypeInv
    PROVE  \A n \in 1..Len(logs) :
              /\ AdditiveIndex(n) \in Nat
              /\ block * IndexRoom < AdditiveIndex(n) /\ AdditiveIndex(n) < (block + 1) * IndexRoom
              /\ FirstBlock * IndexRoom <= block * IndexRoom
              /\ \A m \in 1..Len(logs) : AdditiveIndex(m) = AdditiveIndex(n) => m = n
<1>1. PICK room \in Nat : room = IndexRoom
  BY SMT DEF IndexRoom
<1>2. PICK len \in Nat : len = Len(logs)
  BY DEF TypeInv, StoresType
<1>3. len < room
  BY <1>1, <1>2, WalnutAssumption DEF TypeInv, StoresType
<1>4. block \in Nat /\ FirstBlock \in Nat /\ FirstBlock <= block
  BY WalnutAssumption DEF TypeInv, StoresType
<1>5. PICK start \in Nat : start = block * room
  BY <1>4
<1>6. (block + 1) * room = start + room /\ FirstBlock * room <= start
  BY <1>4, <1>5
<1>7. \A n : AdditiveIndex(n) = start + n
  BY <1>1, <1>5 DEF AdditiveIndex
<1>8. \A m, n \in 1..len : start + n \in Nat /\ start < start + n /\ start + n < start + room
                           /\ (start + m = start + n => m = n)
  BY <1>3
<1> QED
  BY <1>1, <1>2, <1>5, <1>6, <1>7, <1>8

\* The rows that a block adds to some of the old ones.
LEMMA RowsAdded ==
    ASSUME OpenInv, OperationsPlaced, NEW earlier, EndBlock(earlier),
           NEW old, old \subseteq db.operations, NEW new, new \subseteq WithOperation
    PROVE  /\ IsFiniteSet(old) /\ IsFiniteSet(new) /\ IsFiniteSet(old \cup RowsOf(new))
           /\ Cardinality(old) \in Nat /\ Cardinality(new) \in Nat
           /\ Cardinality(old \cup RowsOf(new)) = Cardinality(old) + Cardinality(new)
<1>1. TypeInv /\ logs \in Seq(Log)
  BY DEF OpenInv, TypeInv, StoresType
<1>2. PICK len \in Nat : len = Len(logs)
  BY <1>1, BlockOperations
<1>3. PICK was \in Nat : was = Len(history)
  BY <1>1, EndHistory
<1>4. IsFiniteSet(old) /\ Cardinality(old) \in Nat
  BY FS_Subset, FS_CardinalityType DEF OperationsPlaced
<1>5. new \subseteq 1..len
  BY <1>1, <1>2, BlockOperations DEF BlockLogs
<1>6. IsFiniteSet(new) /\ Cardinality(new) \in Nat
  BY <1>5, NumberedUpTo
<1>7. PICK f : f = [n \in new |-> OperationRow(n)]
  OBVIOUS
<1>8. \A n \in new : f[n].log = was + n
  BY <1>3, <1>7 DEF OperationRow
<1>9. RowsOf(new) = {f[n] : n \in new}
  BY <1>7 DEF RowsOf
<1>10. \A m, n \in new : f[m] = f[n] => m = n
  <2> SUFFICES ASSUME NEW m \in new, NEW n \in new, f[m] = f[n] PROVE m = n
    OBVIOUS
  <2>1. was + m = was + n
    BY <1>8
  <2>2. m \in Nat /\ n \in Nat
    BY <1>5
  <2> QED
    BY <2>1, <2>2
<1>11. PICK added : added = RowsOf(new)
  OBVIOUS
<1>12. IsFiniteSet(added) /\ Cardinality(added) = Cardinality(new)
  BY <1>6, <1>9, <1>10, <1>11, FiniteImage
<1>13. old \cap added = {}
  <2> SUFFICES ASSUME NEW r \in old, r \in added PROVE FALSE
    OBVIOUS
  <2>1. r.log \in 1..was
    BY <1>3 DEF OperationsPlaced
  <2>2. PICK n \in new : r = f[n]
    BY <1>9, <1>11
  <2>3. r.log = was + n /\ n \in 1..len
    BY <1>5, <1>8, <2>2
  <2> QED
    BY <2>1, <2>3
<1>14. /\ IsFiniteSet(old \cup added)
       /\ Cardinality(old \cup added) = Cardinality(old) + Cardinality(added) - Cardinality({})
  BY <1>4, <1>12, <1>13, FS_Union
<1>15. Cardinality(old \cup added) = Cardinality(old) + Cardinality(new)
  BY <1>4, <1>6, <1>12, <1>14, FS_EmptySet
<1> QED
  BY <1>4, <1>6, <1>11, <1>14, <1>15

\* The operations of the committed rows after the block.
LEMMA OperationsEnd ==
    ASSUME OpenInv, OperationsPlaced, NEW earlier, EndBlock(earlier)
    PROVE  /\ db'.operations = db.operations \cup RowsOf(WithOperation)
           /\ operations' = operations + Cardinality(LegacyOperations)
           /\ block' = block + 1
           /\ \A r \in db.operations : history'[r.log] = history[r.log]
           /\ LegacyRowsOf' = LegacyRowsOf \cup RowsOf(LegacyOperations)
<1>1. TypeInv /\ logs \in Seq(Log)
  BY DEF OpenInv, TypeInv, StoresType
<1>2. /\ db'.operations = db.operations \cup RowsOf(WithOperation)
      /\ operations' = operations + Cardinality(LegacyOperations) /\ block' = block + 1
  BY DEF EndBlock, RowsOf
<1>3. \A r \in db.operations : history'[r.log] = history[r.log]
  BY <1>1, EndHistory DEF OperationsPlaced
<1>4. \A n \in WithOperation : history'[OperationRow(n).log] = logs[n]
  BY RowIs
<1>5. /\ LegacyOperations \subseteq WithOperation
      /\ \A n \in WithOperation : logs[n].kind \notin V14Kinds <=> n \in LegacyOperations
  BY <1>1, BlockOperations
<1>6. LegacyRowsOf' = {r \in db'.operations : history'[r.log].kind \notin V14Kinds}
  BY DEF LegacyRowsOf
<1>7. ASSUME NEW r PROVE r \in LegacyRowsOf' <=> r \in LegacyRowsOf \cup RowsOf(LegacyOperations)
  <2>1. r \in LegacyRowsOf' <=> r \in db.operations \cup RowsOf(WithOperation) /\ history'[r.log].kind \notin V14Kinds
    BY <1>2, <1>6
  <2>2. r \in LegacyRowsOf <=> r \in db.operations /\ history[r.log].kind \notin V14Kinds
    BY DEF LegacyRowsOf
  <2>3. r \in db.operations => (history'[r.log].kind \notin V14Kinds <=> history[r.log].kind \notin V14Kinds)
    BY <1>3
  <2>4. \A n \in WithOperation : history'[OperationRow(n).log].kind \notin V14Kinds <=> n \in LegacyOperations
    BY <1>4, <1>5
  <2>5. r \in RowsOf(WithOperation) /\ history'[r.log].kind \notin V14Kinds => r \in RowsOf(LegacyOperations)
    BY <2>4 DEF RowsOf
  <2>6. r \in RowsOf(LegacyOperations) => r \in RowsOf(WithOperation) /\ history'[r.log].kind \notin V14Kinds
    BY <1>5, <2>4 DEF RowsOf
  <2> QED
    BY <2>1, <2>2, <2>3, <2>5, <2>6
<1> QED
  BY <1>2, <1>3, <1>7

\* The rows are placed.
LEMMA EndPlaced ==
    ASSUME OpenInv, OperationsPlaced, NEW earlier, EndBlock(earlier)
    PROVE  OperationsPlaced'
<1>1. TypeInv /\ logs \in Seq(Log) /\ history \in Seq(Log) /\ operations \in Nat
      /\ block \in Nat /\ FirstBlock \in Nat
  BY WalnutAssumption DEF OpenInv, TypeInv, StoresType
<1>2. PICK len \in Nat : len = Len(logs)
  BY <1>1, BlockOperations
<1>3. PICK was \in Nat : was = Len(history)
  BY <1>1, EndHistory
<1>4. Len(history') = was + len
  BY <1>1, <1>2, <1>3, EndHistory
<1>5. PICK more \in Nat : more = Cardinality(LegacyOperations) /\ more <= len
  BY <1>1, <1>2, OperationsNumbered
<1>6. /\ db'.operations = db.operations \cup RowsOf(WithOperation)
      /\ operations' = operations + more /\ block' = block + 1
      /\ \A r \in db.operations : history'[r.log] = history[r.log]
      /\ LegacyRowsOf' = LegacyRowsOf \cup RowsOf(LegacyOperations)
  BY <1>5, OperationsEnd
<1>7. IsFiniteSet(db'.operations)
  BY <1>6, RowsAdded
<1>8. Cardinality(LegacyRowsOf') = operations'
  <2>1. LegacyRowsOf \subseteq db.operations /\ LegacyOperations \subseteq WithOperation
    BY <1>1, BlockOperations DEF LegacyRowsOf
  <2>2. Cardinality(LegacyRowsOf) = operations
    BY DEF OperationsPlaced
  <2> QED
    BY <1>5, <1>6, <2>1, <2>2, RowsAdded
<1>9. operations' <= Len(history')
  BY <1>1, <1>3, <1>4, <1>5, <1>6 DEF OperationsPlaced
<1>10. PICK first \in Nat : first = FirstBlock * IndexRoom
  <2>1. IndexRoom \in Nat
    BY SMT DEF IndexRoom
  <2> QED
    BY <1>1, <2>1
<1>11. PICK from \in Nat : from = block * IndexRoom
  <2>1. IndexRoom \in Nat
    BY SMT DEF IndexRoom
  <2> QED
    BY <1>1, <2>1
<1>12. PICK to \in Nat : to = block' * IndexRoom /\ from <= to
  <2>1. PICK room \in Nat : room = IndexRoom
    BY SMT DEF IndexRoom
  <2>2. block' * room = from + room
    BY <1>1, <1>6, <1>11, <2>1
  <2> QED
    BY <2>1, <2>2
<1>13. ASSUME NEW r \in db'.operations
       PROVE  /\ r.log \in 1..(was + len) /\ r.entity_index \in Nat
              /\ history'[r.log].kind \in V14Kinds => first < r.entity_index /\ r.entity_index < to
              /\ history'[r.log].kind \notin V14Kinds => r.entity_index \in 1..operations'
  <2>1. CASE r \in db.operations
    <3>1. /\ r.log \in 1..was /\ r.entity_index \in Nat
          /\ history[r.log].kind \in V14Kinds => first < r.entity_index /\ r.entity_index < from
          /\ history[r.log].kind \notin V14Kinds => r.entity_index \in 1..operations
      BY <1>3, <1>10, <1>11, <2>1 DEF OperationsPlaced
    <3>2. history'[r.log] = history[r.log]
      BY <1>6, <2>1
    <3> QED
      BY <1>1, <1>6, <1>12, <3>1, <3>2
  <2>2. CASE r \in RowsOf(WithOperation)
    <3>1. PICK n \in WithOperation : r = OperationRow(n)
      BY <2>2 DEF RowsOf
    <3>2. /\ n \in 1..len /\ r.log = was + n /\ history'[r.log] = logs[n]
          /\ logs[n].kind \in V14Kinds => r.entity_index = AdditiveIndex(n)
          /\ logs[n].kind \notin V14Kinds =>
                n \in LegacyOperations /\ r.entity_index = OperationIndex(n)
      BY <1>2, <1>3, <3>1, RowIs
    <3>3. CASE logs[n].kind \in V14Kinds
      <4>1. AdditiveIndex(n) \in Nat /\ from < AdditiveIndex(n) /\ AdditiveIndex(n) < to /\ first <= from
        BY <1>1, <1>2, <1>6, <1>10, <1>11, <1>12, <3>2, AdditiveIs
      <4> QED
        BY <3>2, <3>3, <4>1
    <3>4. CASE logs[n].kind \notin V14Kinds
      <4>1. /\ OperationIndex(n) \in Nat /\ operations < OperationIndex(n)
            /\ OperationIndex(n) <= operations + more
        BY <1>1, <1>5, <3>2, <3>4, OperationsNumbered
      <4> QED
        BY <1>1, <1>6, <3>2, <3>4, <4>1
    <3> QED
      BY <3>3, <3>4
  <2> QED
    BY <1>6, <2>1, <2>2
<1> QED
  BY <1>4, <1>7, <1>8, <1>9, <1>10, <1>12, <1>13 DEF OperationsPlaced

\* The additive indexes are above the counted ones.
LEMMA EndFollow ==
    ASSUME OpenInv, OperationsPlaced, OperationsFollow, NEW earlier, EndBlock(earlier)
    PROVE  OperationsFollow'
<1>1. TypeInv /\ TypeInv' /\ OperationsPlaced'
  BY EndTypes, EndPlaced DEF OpenInv
<1>2. /\ db'.operations = db.operations \cup RowsOf(WithOperation)
      /\ \A r \in db.operations : history'[r.log] = history[r.log]
  BY OperationsEnd
<1>3. \A n \in WithOperation :
         /\ history'[OperationRow(n).log] = logs[n]
         /\ OperationRow(n).account = logs[n].actor
  BY RowIs
<1>4. ASSUME NEW r \in db'.operations PROVE r.account = history'[r.log].actor
  <2>1. CASE r \in db.operations
    BY <1>2, <2>1 DEF OperationsFollow
  <2>2. CASE r \in RowsOf(WithOperation)
    BY <1>3, <2>2 DEF RowsOf
  <2> QED
    BY <1>2, <2>1, <2>2
<1>5. PICK first \in Nat : first = FirstBlock * IndexRoom /\ operations' <= first
  <2>1. PICK room \in Nat : room = IndexRoom
    BY SMT DEF IndexRoom
  <2>2. FirstBlock \in Nat /\ MaxHistory \in Nat /\ MaxHistory <= FirstBlock * room
    BY <2>1, WalnutAssumption
  <2>3. operations' \in Nat /\ operations' <= Len(history') /\ Len(history') <= MaxHistory /\ Len(history') \in Nat
    <3>1. PICK h \in Nat : h = Len(history')
      BY <1>1 DEF TypeInv, StoresType
    <3>2. PICK b \in Nat : b = Len(logs')
      BY <1>1 DEF TypeInv, StoresType
    <3>3. h + b <= MaxHistory /\ operations' \in Nat /\ operations' <= h
      BY <1>1, <3>1, <3>2 DEF TypeInv, StoresType, OperationsPlaced
    <3> QED
      BY <2>2, <3>1, <3>3
  <2>4. PICK first \in Nat : first = FirstBlock * room
    BY <2>2
  <2> QED
    BY <2>1, <2>2, <2>3, <2>4
<1>6. PICK was \in Nat : was = operations
  BY <1>1 DEF TypeInv, StoresType
<1>7. PICK from \in Nat : from = block * IndexRoom
  <2>1. IndexRoom \in Nat
    BY SMT DEF IndexRoom
  <2> QED
    BY <1>1, <2>1 DEF TypeInv, StoresType
<1>8. ASSUME NEW r \in db'.operations, NEW s \in db'.operations,
             history'[r.log].kind \in V14Kinds, history'[s.log].kind \notin V14Kinds
      PROVE  r.entity_index # s.entity_index
  <2>1. first < r.entity_index /\ r.entity_index \in Nat
    BY <1>1, <1>5, <1>8 DEF OperationsPlaced
  <2>2. s.entity_index \in 1..operations'
    BY <1>1, <1>8 DEF OperationsPlaced
  <2>3. operations' \in Nat
    BY <1>1 DEF TypeInv, StoresType
  <2> QED
    BY <1>5, <2>1, <2>2, <2>3
<1>9. ASSUME NEW r \in db.operations, NEW s \in RowsOf(WithOperation),
             history'[r.log].kind \in V14Kinds <=> history'[s.log].kind \in V14Kinds
      PROVE  r.entity_index # s.entity_index
  <2>1. PICK n \in WithOperation : s = OperationRow(n)
    BY DEF RowsOf
  <2>2. /\ n \in 1..Len(logs) /\ history'[s.log] = logs[n]
        /\ logs[n].kind \in V14Kinds => s.entity_index = AdditiveIndex(n)
        /\ logs[n].kind \notin V14Kinds =>
              n \in LegacyOperations /\ s.entity_index = OperationIndex(n)
    BY <2>1, RowIs
  <2>3. /\ history[r.log].kind \in V14Kinds => r.entity_index < from
        /\ history[r.log].kind \notin V14Kinds => r.entity_index \in 1..was
        /\ r.entity_index \in Nat
    BY <1>6, <1>7 DEF OperationsPlaced
  <2>4. history'[r.log] = history[r.log]
    BY <1>2
  <2>5. CASE logs[n].kind \in V14Kinds
    <3>1. from < AdditiveIndex(n) /\ AdditiveIndex(n) \in Nat
      BY <1>1, <1>7, <2>2, AdditiveIs
    <3>2. r.entity_index < from
      BY <1>9, <2>2, <2>3, <2>4, <2>5
    <3> QED
      BY <2>2, <2>3, <2>5, <3>1, <3>2
  <2>6. CASE logs[n].kind \notin V14Kinds
    <3>1. was < OperationIndex(n) /\ OperationIndex(n) \in Nat
      BY <1>1, <1>6, <2>2, <2>6, OperationsNumbered
    <3>2. r.entity_index \in 1..was
      BY <1>9, <2>2, <2>3, <2>4, <2>6
    <3> QED
      BY <2>2, <2>6, <3>1, <3>2
  <2> QED
    BY <2>5, <2>6
<1>10. ASSUME NEW r \in RowsOf(WithOperation), NEW s \in RowsOf(WithOperation),
              history'[r.log].kind \in V14Kinds <=> history'[s.log].kind \in V14Kinds,
              r.entity_index = s.entity_index
       PROVE  r = s
  <2>1. PICK m \in WithOperation : r = OperationRow(m)
    BY DEF RowsOf
  <2>2. PICK n \in WithOperation : s = OperationRow(n)
    BY DEF RowsOf
  <2>3. /\ m \in 1..Len(logs) /\ history'[r.log] = logs[m]
        /\ logs[m].kind \in V14Kinds => r.entity_index = AdditiveIndex(m)
        /\ logs[m].kind \notin V14Kinds => m \in LegacyOperations /\ r.entity_index = OperationIndex(m)
    BY <2>1, RowIs
  <2>4. /\ n \in 1..Len(logs) /\ history'[s.log] = logs[n]
        /\ logs[n].kind \in V14Kinds => s.entity_index = AdditiveIndex(n)
        /\ logs[n].kind \notin V14Kinds => n \in LegacyOperations /\ s.entity_index = OperationIndex(n)
    BY <2>2, RowIs
  <2>5. CASE logs[n].kind \in V14Kinds
    <3>1. AdditiveIndex(m) = AdditiveIndex(n)
      BY <1>10, <2>3, <2>4, <2>5
    <3> QED
      BY <1>1, <2>1, <2>2, <2>3, <2>4, <3>1, AdditiveIs
  <2>6. CASE logs[n].kind \notin V14Kinds
    <3>1. OperationIndex(m) = OperationIndex(n) /\ m \in LegacyOperations /\ n \in LegacyOperations
      BY <1>10, <2>3, <2>4, <2>6
    <3> QED
      BY <1>1, <2>1, <2>2, <3>1, OperationsNumbered
  <2> QED
    BY <2>5, <2>6
<1>11. \A r, s \in db'.operations : r # s => r.entity_index # s.entity_index
  <2> SUFFICES ASSUME NEW r \in db'.operations, NEW s \in db'.operations, r.entity_index = s.entity_index
               PROVE  r = s
    OBVIOUS
  <2>1. history'[r.log].kind \in V14Kinds <=> history'[s.log].kind \in V14Kinds
    BY <1>8
  <2>2. CASE r \in db.operations /\ s \in db.operations
    BY <2>2 DEF OperationsFollow
  <2>3. CASE r \in db.operations /\ s \in RowsOf(WithOperation)
    BY <1>9, <2>1, <2>3
  <2>4. CASE r \in RowsOf(WithOperation) /\ s \in db.operations
    BY <1>9, <2>1, <2>4
  <2>5. CASE r \in RowsOf(WithOperation) /\ s \in RowsOf(WithOperation)
    BY <1>10, <2>1, <2>5
  <2> QED
    BY <1>2, <2>2, <2>3, <2>4, <2>5
<1>12. PICK legacy : legacy = {r \in db'.operations : history'[r.log].kind \notin V14Kinds}
  OBVIOUS
<1>13. {r.entity_index : r \in legacy} = 1..Cardinality(legacy)
  <2>1. legacy = LegacyRowsOf' /\ legacy \subseteq db'.operations
    BY <1>12 DEF LegacyRowsOf
  <2>2. PICK k \in Nat : k = operations'
    BY <1>1 DEF TypeInv, StoresType
  <2>3. Cardinality(legacy) = k /\ IsFiniteSet(legacy)
    BY <1>1, <2>1, <2>2, FS_Subset DEF OperationsPlaced
  <2>4. PICK f : f = [r \in legacy |-> r.entity_index]
    OBVIOUS
  <2>5. PICK taken : taken = {r.entity_index : r \in legacy}
    OBVIOUS
  <2>6. taken = {f[r] : r \in legacy}
    BY <2>4, <2>5
  <2>7. \A r, s \in legacy : f[r] = f[s] => r = s
    BY <1>11, <2>1, <2>4
  <2>8. Cardinality(taken) = k
    BY <2>3, <2>6, <2>7, FiniteImage
  <2>9. taken \subseteq 1..k
    BY <1>1, <1>12, <2>2, <2>5 DEF OperationsPlaced
  <2>10. IsFiniteSet(1..k) /\ Cardinality(1..k) = k
    BY FS_Interval
  <2>11. taken = 1..k
    BY <2>8, <2>9, <2>10, FS_Subset
  <2> QED
    BY <2>3, <2>5, <2>11
<1> QED
  BY <1>4, <1>11, <1>12, <1>13 DEF OperationsFollow

\* The members that a block adds to some of the old ones.
LEMMA MembersAdded ==
    ASSUME TypeInv, NEW old, old \subseteq db.members, NEW new, new \subseteq MembershipDeltas
    PROVE  /\ IsFiniteSet(old \cup new)
           /\ Cardinality(old) \in Nat /\ Cardinality(new) \in Nat
           /\ Cardinality(old \cup new) = Cardinality(old) + Cardinality(new)
<1>1. IsFiniteSet(db.members) /\ memberships = db.members
  BY DEF TypeInv, StoresType
<1>2. IsFiniteSet(MembershipKeys)
  BY KeysFinite
<1>3. new \subseteq MembershipKeys /\ old \cap new = {}
  BY <1>1 DEF MembershipDeltas
<1>4. IsFiniteSet(old) /\ IsFiniteSet(new)
  BY <1>1, <1>2, <1>3, FS_Subset
<1>5. Cardinality(old) \in Nat /\ Cardinality(new) \in Nat
  BY <1>4, FS_CardinalityType
<1>6. /\ IsFiniteSet(old \cup new)
      /\ Cardinality(old \cup new) = Cardinality(old) + Cardinality(new) - Cardinality({})
  BY <1>3, <1>4, FS_Union
<1> QED
  BY <1>5, <1>6, FS_EmptySet

\* The counts after the block.
LEMMA EndCounts ==
    ASSUME NEW earlier, EndBlock(earlier)
    PROVE  /\ db'.users_count = [c \in Communities |-> db.users_count[c] +
                 Cardinality({k \in MembershipDeltas : k[1] = "community" /\ k[2] = c})]
           /\ db'.stakers_count = [p \in Pools |-> db.stakers_count[p] +
                 Cardinality({k \in MembershipDeltas : k[1] = "staker" /\ k[2] = p})]
           /\ db'.operation_count = [c \in Communities |-> db.operation_count[c] +
                 Cardinality({n \in WithOperation : logs[n].community = c})]
           /\ db'.walnut_operation_count = [u \in Users |-> db.walnut_operation_count[u] +
                 Cardinality({n \in WithOperation : OperationAccount(n) = u})]
           /\ db'.distributed_c_token = [c \in Communities |->
                 db.distributed_c_token[c] + Count("HARVEST", c)]
           /\ db'.members = db.members \cup MembershipDeltas
BY DEF EndBlock

\* The counts are those of the rows after the block, too.
LEMMA EndCounted ==
    ASSUME OpenInv, OperationsPlaced, CountsAreRowCounts, NEW earlier, EndBlock(earlier)
    PROVE  CountsAreRowCounts'
<1>1. TypeInv /\ logs \in Seq(Log)
  BY DEF OpenInv, TypeInv, StoresType
<1>2. /\ db'.operations = db.operations \cup RowsOf(WithOperation)
      /\ \A r \in db.operations : history'[r.log] = history[r.log]
  BY OperationsEnd
<1>3. \A n \in WithOperation : /\ history'[OperationRow(n).log] = logs[n]
                               /\ OperationRow(n).account = OperationAccount(n)
  BY RowIs
<1>4. db'.members = db.members \cup MembershipDeltas
  BY EndCounts
<1>5. ASSUME NEW c \in Communities
      PROVE  db'.users_count[c] = Cardinality({k \in db'.members : k[1] = "community" /\ k[2] = c})
  <2>1. PICK old : old = {k \in db.members : k[1] = "community" /\ k[2] = c}
    OBVIOUS
  <2>2. PICK new : new = {k \in MembershipDeltas : k[1] = "community" /\ k[2] = c}
    OBVIOUS
  <2>3. {k \in db'.members : k[1] = "community" /\ k[2] = c} = old \cup new
    BY <1>4, <2>1, <2>2
  <2>4. old \subseteq db.members /\ new \subseteq MembershipDeltas
    BY <2>1, <2>2
  <2>5. Cardinality(old \cup new) = Cardinality(old) + Cardinality(new)
    BY <1>1, <2>4, MembersAdded
  <2>6. db.users_count[c] = Cardinality(old)
    BY <2>1 DEF CountsAreRowCounts
  <2>7. db'.users_count[c] = db.users_count[c] + Cardinality(new)
    BY <2>2, EndCounts
  <2> QED
    BY <2>3, <2>5, <2>6, <2>7
<1>6. ASSUME NEW p \in Pools
      PROVE  db'.stakers_count[p] = Cardinality({k \in db'.members : k[1] = "staker" /\ k[2] = p})
  <2>1. PICK old : old = {k \in db.members : k[1] = "staker" /\ k[2] = p}
    OBVIOUS
  <2>2. PICK new : new = {k \in MembershipDeltas : k[1] = "staker" /\ k[2] = p}
    OBVIOUS
  <2>3. {k \in db'.members : k[1] = "staker" /\ k[2] = p} = old \cup new
    BY <1>4, <2>1, <2>2
  <2>4. old \subseteq db.members /\ new \subseteq MembershipDeltas
    BY <2>1, <2>2
  <2>5. Cardinality(old \cup new) = Cardinality(old) + Cardinality(new)
    BY <1>1, <2>4, MembersAdded
  <2>6. db.stakers_count[p] = Cardinality(old)
    BY <2>1 DEF CountsAreRowCounts
  <2>7. db'.stakers_count[p] = db.stakers_count[p] + Cardinality(new)
    BY <2>2, EndCounts
  <2> QED
    BY <2>3, <2>5, <2>6, <2>7
<1>7. ASSUME NEW c \in Communities
      PROVE  db'.operation_count[c] = Cardinality({r \in db'.operations : history'[r.log].community = c})
  <2>1. PICK old : old = {r \in db.operations : history[r.log].community = c}
    OBVIOUS
  <2>2. PICK new : new = {n \in WithOperation : logs[n].community = c}
    OBVIOUS
  <2>3. {r \in db'.operations : history'[r.log].community = c} = old \cup RowsOf(new)
    BY <1>2, <1>3, <2>1, <2>2 DEF RowsOf
  <2>4. old \subseteq db.operations /\ new \subseteq WithOperation
    BY <2>1, <2>2
  <2>5. Cardinality(old \cup RowsOf(new)) = Cardinality(old) + Cardinality(new)
    BY <2>4, RowsAdded
  <2>6. db.operation_count[c] = Cardinality(old)
    BY <2>1 DEF CountsAreRowCounts
  <2>7. db'.operation_count[c] = db.operation_count[c] + Cardinality(new)
    BY <2>2, EndCounts
  <2> QED
    BY <2>3, <2>5, <2>6, <2>7
<1>8. ASSUME NEW c \in Communities
      PROVE  db'.distributed_c_token[c] =
                Cardinality({r \in db'.operations : history'[r.log].community = c
                                                 /\ history'[r.log].kind = "HARVEST"})
  <2>1. PICK old : old = {r \in db.operations : history[r.log].community = c /\ history[r.log].kind = "HARVEST"}
    OBVIOUS
  <2>2. PICK new : new = {n \in WithOperation : logs[n].community = c /\ logs[n].kind = "HARVEST"}
    OBVIOUS
  <2>3. {r \in db'.operations : history'[r.log].community = c /\ history'[r.log].kind = "HARVEST"}
           = old \cup RowsOf(new)
    BY <1>2, <1>3, <2>1, <2>2 DEF RowsOf
  <2>4. old \subseteq db.operations /\ new \subseteq WithOperation
    BY <2>1, <2>2
  <2>5. Cardinality(old \cup RowsOf(new)) = Cardinality(old) + Cardinality(new)
    BY <2>4, RowsAdded
  <2>6. db.distributed_c_token[c] = Cardinality(old)
    BY <2>1 DEF CountsAreRowCounts
  <2>7. Count("HARVEST", c) = Cardinality(new)
    <3>1. PICK harvest : harvest = {n \in Of({"HARVEST"}) : logs[n].community = c}
      OBVIOUS
    <3>2. \A n \in Of({"HARVEST"}) : n \in WithOperation
      <4> SUFFICES ASSUME NEW n \in Of({"HARVEST"}) PROVE n \in WithOperation
        OBVIOUS
      <4>1. n \in 1..Len(logs) /\ logs[n].kind = "HARVEST"
        BY <1>1 DEF Of
      <4>2. WithOperation = {m \in 1..Len(logs) : logs[m].kind \notin {"OWNERSHIP_TRANSFERRED", "POOL_UPDATED"}}
        BY <1>1, OperationsAreSo DEF OperationsAre
      <4> QED
        BY <4>1, <4>2
    <3>3. \A n \in WithOperation : logs[n].kind = "HARVEST" => n \in Of({"HARVEST"})
      <4> SUFFICES ASSUME NEW n \in WithOperation, logs[n].kind = "HARVEST" PROVE n \in Of({"HARVEST"})
        OBVIOUS
      <4>1. n \in DOMAIN logs
        BY <1>1, BlockOperations DEF BlockLogs
      <4> QED
        BY <4>1 DEF Of
    <3>4. harvest = new
      <4>1. \A n \in Of({"HARVEST"}) : logs[n].kind = "HARVEST"
        BY DEF Of
      <4> QED
        BY <2>2, <3>1, <3>2, <3>3, <4>1
    <3> QED
      BY <3>1, <3>4 DEF Count
  <2>8. db'.distributed_c_token[c] = db.distributed_c_token[c] + Count("HARVEST", c)
    BY EndCounts
  <2> QED
    BY <2>3, <2>5, <2>6, <2>7, <2>8
<1>9. ASSUME NEW u \in Users
      PROVE  db'.walnut_operation_count[u] = Cardinality({r \in db'.operations : r.account = u})
  <2>1. PICK old : old = {r \in db.operations : r.account = u}
    OBVIOUS
  <2>2. PICK new : new = {n \in WithOperation : OperationAccount(n) = u}
    OBVIOUS
  <2>3. {r \in db'.operations : r.account = u} = old \cup RowsOf(new)
    BY <1>2, <1>3, <2>1, <2>2 DEF RowsOf
  <2>4. old \subseteq db.operations /\ new \subseteq WithOperation
    BY <2>1, <2>2
  <2>5. Cardinality(old \cup RowsOf(new)) = Cardinality(old) + Cardinality(new)
    BY <2>4, RowsAdded
  <2>6. db.walnut_operation_count[u] = Cardinality(old)
    BY <2>1 DEF CountsAreRowCounts
  <2>7. db'.walnut_operation_count[u] = db.walnut_operation_count[u] + Cardinality(new)
    BY <2>2, EndCounts
  <2> QED
    BY <2>3, <2>5, <2>6, <2>7
<1> QED
  BY <1>5, <1>6, <1>7, <1>8, <1>9 DEF CountsAreRowCounts

-----------------------------------------------------------------------------
(***************************************************************************)
(* The theorems.                                                           *)
(***************************************************************************)
\* A block's end keeps the invariant.
LEMMA EndStep ==
    ASSUME IInv, NEW earlier \in EarlierRows, EndBlock(earlier)
    PROVE  IInv'
<1>1. earlier \in Nat
  BY WalnutAssumption
<1>2. OpenInv /\ OperationsPlaced /\ OperationsFollow /\ CountsAreRowCounts
  BY DEF IInv, RowsInv
<1>3. OpenInv'
  BY <1>1, <1>2, EndOpen
<1>4. OperationsPlaced' /\ OperationsFollow' /\ CountsAreRowCounts'
  BY <1>2, EndPlaced, EndFollow, EndCounted
<1> QED
  BY <1>3, <1>4 DEF IInv, RowsInv

\* The logs of an empty block, now.
LEMMA NoLogsYet ==
    ASSUME logs = <<>>
    PROVE  /\ logs \in Seq(Log) /\ Len(logs) = 0 /\ DOMAIN logs = {}
           /\ \A kinds : Of(kinds) = {}
           /\ \A kinds, x : ByCommunity(kinds, x) = {} /\ ByPool(kinds, x) = {}
           /\ \A c : TransfersOf(c) = {}
<1>1. logs \in Seq(Log) /\ Len(logs) = 0 /\ DOMAIN logs = {}
  OBVIOUS
<1>2. \A kinds : Of(kinds) = {}
  BY <1>1 DEF Of
<1> QED
  BY <1>1, <1>2 DEF ByCommunity, ByPool, TransfersOf

\* The initial states.
LEMMA InitOpen == Init => OpenInv
<1> SUFFICES ASSUME Init PROVE OpenInv
  OBVIOUS
<1>1. /\ owner = [c \in Communities |-> None] /\ home = [p \in Pools |-> None]
      /\ origin = [p \in Pools |-> None] /\ fund = [c \in Communities |-> None]
      /\ fee = [c \in Communities |-> 0] /\ retained = [c \in Communities |-> 0]
      /\ listed = [c \in Communities |-> <<>>] /\ closed = {}
      /\ staked = [k \in Pools \X Users |-> 0]
      /\ logs = <<>> /\ history = <<>> /\ owners = [c \in Communities |-> None]
      /\ memberships = {} /\ operations = 0 /\ block = FirstBlock
  BY DEF Init
<1>2. /\ db.owner = [c \in Communities |-> None] /\ db.dao_fund = [c \in Communities |-> None]
      /\ db.fee_ratio = [c \in Communities |-> 0] /\ db.retained_revenue = [c \in Communities |-> 0]
      /\ db.active_pool_count = [c \in Communities |-> 0] /\ db.status = [p \in Pools |-> None]
      /\ db.pool_index = [p \in Pools |-> 0] /\ db.total_amount = [p \in Pools |-> 0]
      /\ db.members = {}
  BY DEF Init
<1>3. /\ logs \in Seq(Log) /\ Len(logs) = 0 /\ DOMAIN logs = {}
      /\ \A kinds : Of(kinds) = {}
      /\ \A kinds, x : ByCommunity(kinds, x) = {} /\ ByPool(kinds, x) = {}
      /\ \A c : TransfersOf(c) = {}
  BY <1>1, NoLogsYet
<1>4. RowsIn /\ OwnersIn /\ EndIn
  BY RowsAre, OwnersAre, EndIs
<1>5. IsFiniteSet({}) /\ Cardinality({}) = 0
  BY FS_EmptySet
<1>6. ContractsType
  <2>1. <<>> \in Seq(Pools)
    OBVIOUS
  <2> QED
    BY <1>1, <2>1 DEF ContractsType
<1>7. StoresType
  <2>1. history \in Seq(Log) /\ Len(history) = 0
    BY <1>1
  <2>2. MaxLogs \in Nat /\ MaxHistory \in Nat /\ FirstBlock \in Nat
    BY WalnutAssumption
  <2> QED
    BY <1>1, <1>2, <1>3, <1>5, <2>1, <2>2 DEF StoresType
<1>8. RowsType
  BY <1>2 DEF RowsType
<1>9. ContractsInv
  <2>1. \A c \in Communities : listed[c] = <<>> /\ DOMAIN listed[c] = {}
    BY <1>1
  <2> QED
    BY <1>1, <2>1 DEF ContractsInv, Injective
<1>10. LogsInv
  BY <1>3 DEF LogsInv
<1>11. Attributed
  <2>1. WithOperation = {}
    BY <1>3 DEF WithOperation, LegacyOperations, Operations
  <2> QED
    BY <2>1 DEF Attributed
<1>12. OwnersPending
  BY <1>1, <1>2, <1>3, <1>4 DEF OwnersPending, OwnersIn, EndIn
<1>13. FundsPending /\ FeesPending
  <2>1. FundsPending
    BY <1>1, <1>2, <1>3, <1>4 DEF FundsPending, RowsIn
  <2>2. FeesPending
    BY <1>1, <1>2, <1>3, <1>4 DEF FeesPending, RowsIn
  <2> QED
    BY <2>1, <2>2
<1>14. RevenuePending
  <2>1. \A c : Count("POOL_UPDATED", c) = 0 /\ Count("ADMINWITHDRAWNREVENUE", c) = 0
    BY <1>3, <1>4, <1>5 DEF RowsIn
  <2>2. \A c \in Communities : db.retained_revenue[c] = 0 /\ retained[c] = 0
    BY <1>1, <1>2
  <2> QED
    BY <2>1, <2>2 DEF RevenuePending
<1>15. StatusPending
  <2>1. \A p : ~ ClosedNow(p) /\ ~ CreatedNow(p)
    BY <1>3, <1>4 DEF RowsIn
  <2> QED
    BY <1>1, <1>2, <2>1 DEF StatusPending, PendingStatus
<1>16. StakesPending
  <2> SUFFICES ASSUME NEW p \in Pools
               PROVE  db.total_amount[p] + PoolCount(StakeKinds, p) - PoolCount(UnstakeKinds, p) = StakedIn(p)
    BY DEF StakesPending
  <2>1. PoolCount(StakeKinds, p) = 0 /\ PoolCount(UnstakeKinds, p) = 0 /\ db.total_amount[p] = 0
    BY <1>2, <1>3, <1>4, <1>5 DEF RowsIn
  <2>2. PICK f : f = [u \in Users |-> staked[<<p, u>>]]
    OBVIOUS
  <2>3. IsFiniteSet(Users) /\ \A u \in Users : f[u] = 0
    <3>1. IsFiniteSet(Users)
      BY WalnutAssumption, FS_Subset
    <3> QED
      BY <1>1, <2>2, <3>1
  <2>4. StakedIn(p) = 0
    BY <2>2, <2>3, SumZero DEF StakedIn
  <2> QED
    BY <2>1, <2>4
<1>17. ListsPending
  <2>1. \A c \in Communities : listed[c] = <<>> /\ DOMAIN listed[c] = {} /\ Len(listed[c]) = 0
    BY <1>1
  <2>2. \A c : Lists(c) = {}
    BY <1>3, <1>4 DEF RowsIn
  <2> QED
    BY <1>2, <2>1, <2>2 DEF ListsPending
<1>18. MembersPending
  BY <1>1 DEF MembersPending
<1> QED
  BY <1>6, <1>7, <1>8, <1>9, <1>10, <1>11, <1>12, <1>13, <1>14, <1>15, <1>16, <1>17, <1>18
     DEF OpenInv, TypeInv, RowsPending

\* There are no rows at first.
LEMMA InitRows == Init => RowsInv
<1> SUFFICES ASSUME Init PROVE RowsInv
  OBVIOUS
<1>1. /\ db.operations = {} /\ db.members = {} /\ operations = 0 /\ history = <<>>
      /\ db.users_count = [c \in Communities |-> 0] /\ db.operation_count = [c \in Communities |-> 0]
      /\ db.distributed_c_token = [c \in Communities |-> 0]
      /\ db.stakers_count = [p \in Pools |-> 0]
      /\ db.walnut_operation_count = [u \in Users |-> 0]
  BY DEF Init
<1>2. IsFiniteSet({}) /\ Cardinality({}) = 0
  BY FS_EmptySet
<1>3. LegacyRowsOf = {} /\ Len(history) = 0
  BY <1>1 DEF LegacyRowsOf
<1>4. OperationsPlaced
  BY <1>1, <1>2, <1>3 DEF OperationsPlaced
<1>5. OperationsFollow
  <2>1. PICK legacy : legacy = {r \in db.operations : history[r.log].kind \notin V14Kinds}
    OBVIOUS
  <2>2. legacy = {} /\ Cardinality(legacy) = 0
    BY <1>1, <1>2, <2>1
  <2>3. {r.entity_index : r \in legacy} = 1..Cardinality(legacy)
    BY <2>2
  <2> QED
    BY <1>1, <2>1, <2>3 DEF OperationsFollow
<1>6. CountsAreRowCounts
  <2>1. \A c : {k \in db.members : k[1] = "community" /\ k[2] = c} = {}
    BY <1>1
  <2>2. \A c : {r \in db.operations : history[r.log].community = c} = {}
    BY <1>1
  <2>3. \A c : {r \in db.operations : history[r.log].community = c /\ history[r.log].kind = "HARVEST"} = {}
    BY <1>1
  <2>4. \A p : {k \in db.members : k[1] = "staker" /\ k[2] = p} = {}
    BY <1>1
  <2>5. \A u : {r \in db.operations : r.account = u} = {}
    BY <1>1
  <2> QED
    BY <1>1, <1>2, <2>1, <2>2, <2>3, <2>4, <2>5 DEF CountsAreRowCounts
<1> QED
  BY <1>4, <1>5, <1>6 DEF RowsInv

\* Steps of the contracts keep the invariant.
LEMMA ContractStep ==
    ASSUME OpenInv, Next
    PROVE  (OpenInv' /\ Extended) \/ \E earlier \in EarlierRows : EndBlock(earlier)
<1>1. ASSUME NEW c \in Communities, NEW u \in Users,
             CreateCommunity(c, u) \/ TransferOwnership(c, u) \/ SetFund(c, u)
      PROVE  OpenInv' /\ Extended
  BY <1>1, CreateCommunityStep, TransferOwnershipStep, SetFundStep
<1>2. ASSUME NEW c \in Communities, NEW p \in LegacyPools, NEW kind \in PoolFactories,
             CreatePool(kind, c, p)
      PROVE  OpenInv' /\ Extended
  <2>1. p \in Pools /\ kind \in CreationKinds
    BY DEF Pools, CreationKinds
  <2>2. kind # "TradeCurationCreated"
    BY DEF PoolFactories
  <2> QED
    BY <1>2, <2>1, <2>2, CreatePoolStep
<1>3. ASSUME NEW c \in Communities, NEW p \in CurationPools, CreatePool("TradeCurationCreated", c, p)
      PROVE  OpenInv' /\ Extended
  <2>1. PICK kind : kind = "TradeCurationCreated"
    OBVIOUS
  <2>2. p \in Pools /\ kind \in CreationKinds /\ kind \notin PoolFactories
    BY <2>1 DEF Pools, CreationKinds, PoolFactories
  <2>3. CreatePool(kind, c, p)
    BY <1>3, <2>1
  <2> QED
    BY <2>2, <2>3, CreatePoolStep
<1>4. ASSUME NEW p \in Pools, ClosePool(p) PROVE OpenInv' /\ Extended
  BY <1>4, ClosePoolStep
<1>5. ASSUME NEW c \in Communities, SetRatios(c) \/ SetFee(c) \/ Earn(c) \/ PayRevenue(c)
      PROVE  OpenInv' /\ Extended
  BY <1>5, SetRatiosStep, SetFeeStep, EarnStep, PayRevenueStep
<1>6. ASSUME NEW p \in LegacyPools, NEW u \in Users, Deposit(p, u) \/ Withdraw(p, u)
      PROVE  OpenInv' /\ Extended
  <2>1. p \in Pools
    BY DEF Pools
  <2> QED
    BY <1>6, <2>1, DepositStep, WithdrawStep
<1>7. ASSUME NEW p \in Pools, NEW u \in Users,
             NEW kind \in {"REDEEM", "SOCIALCLAIM", "HARVEST", "TradeClaimed"}, Claim(kind, p, u)
      PROVE  OpenInv' /\ Extended
  BY <1>7, ClaimStep
<1> QED
  BY <1>1, <1>2, <1>3, <1>4, <1>5, <1>6, <1>7 DEF Next

\* Every step keeps the invariant.
LEMMA NextStep == IInv /\ [Next]_vars => IInv'
<1> SUFFICES ASSUME IInv, [Next]_vars PROVE IInv'
  OBVIOUS
<1>1. OpenInv /\ RowsInv
  BY DEF IInv
<1>2. CASE OpenInv' /\ Extended
  BY <1>1, <1>2, RowsStay DEF IInv
<1>3. CASE \E earlier \in EarlierRows : EndBlock(earlier)
  BY <1>3, EndStep
<1>4. CASE UNCHANGED vars
  <2>1. /\ owner' = owner /\ home' = home /\ origin' = origin /\ closed' = closed /\ staked' = staked
        /\ fund' = fund /\ fee' = fee /\ retained' = retained /\ listed' = listed
        /\ logs' = logs /\ history' = history /\ owners' = owners /\ memberships' = memberships
        /\ operations' = operations /\ block' = block /\ db' = db
    BY <1>4 DEF vars, contracts, pools, dao, stores
  <2>2. ContractsType' /\ StoresType' /\ RowsType'
    BY <1>1, <2>1 DEF OpenInv, TypeInv, ContractsType, StoresType, RowsType
  <2>3. ContractsInv'
    BY <1>1, <2>1 DEF OpenInv, ContractsInv
  <2>4. LogsInv'
    BY <1>1, <2>1 DEF OpenInv, LogsInv, Fits
  <2>5. Attributed'
    BY <1>1, <2>1 DEF OpenInv, Attributed, WithOperation, LegacyOperations, Operations, Of,
       OperationAccount, OwnerAt
  <2>6. OwnersPending'
    <3>1. RowsPending
      BY <1>1 DEF OpenInv
    <3>2. \A c \in Communities : OwnerAt(Len(logs), c)' = OwnerAt(Len(logs), c)
      BY <2>1 DEF OwnerAt, Of
    <3>3. \A c \in Communities : OwnerAfter(c)' = OwnerAfter(c)
      BY <2>1 DEF OwnerAfter, Of
    <3> QED
      BY <2>1, <3>1, <3>2, <3>3 DEF RowsPending, OwnersPending
  <2>7. FundsPending' /\ FeesPending'
    BY <1>1, <2>1 DEF OpenInv, RowsPending, FundsPending, FeesPending, FundAfter, FeeAfter, Of
  <2>8. RevenuePending' /\ StakesPending'
    BY <1>1, <2>1 DEF OpenInv, RowsPending, RevenuePending, StakesPending, Count, PoolCount, StakedIn, Of
  <2>9. StatusPending'
    BY <1>1, <2>1 DEF OpenInv, RowsPending, StatusPending, PendingStatus, ClosedNow, CreatedNow, Of
  <2>10. ListsPending'
    BY <1>1, <2>1 DEF OpenInv, RowsPending, ListsPending, Lists, Of
  <2>11. MembersPending'
    BY <1>1, <2>1 DEF OpenInv, RowsPending, MembersPending, Members, MembershipKeys, Of
  <2>12. OpenInv'
    BY <2>2, <2>3, <2>4, <2>5, <2>6, <2>7, <2>8, <2>9, <2>10, <2>11 DEF OpenInv, TypeInv, RowsPending
  <2>13. Extended
    BY <1>1, <2>1, <1>4 DEF Extended, vars, OpenInv, TypeInv, StoresType
  <2> QED
    BY <1>1, <2>12, <2>13, RowsStay DEF IInv
<1> QED
  BY <1>1, <1>2, <1>3, <1>4, ContractStep

(***************************************************************************)
(* The invariant holds in every reachable state.                           *)
(***************************************************************************)
THEOREM Invariance == Spec => []IInv
<1>1. Init => IInv
  BY InitOpen, InitRows DEF IInv
<1> QED
  BY <1>1, NextStep, PTL DEF Spec

\* When the block is empty, what is pending is what the rows say.
LEMMA NothingPending == OpenInv => RowsFollowContracts
<1> SUFFICES ASSUME OpenInv, logs = <<>> PROVE RowsFollowContracts
  BY DEF RowsFollowContracts
<1>1. /\ ContractsType /\ RowsType /\ RowsPending
  BY DEF OpenInv, TypeInv
<1>2. /\ \A kinds : Of(kinds) = {}
      /\ \A kinds, x : ByCommunity(kinds, x) = {} /\ ByPool(kinds, x) = {}
      /\ \A c : TransfersOf(c) = {}
  BY NoLogsYet
<1>3. RowsIn /\ OwnersIn /\ EndIn
  BY RowsAre, OwnersAre, EndIs
<1>4. Cardinality({}) = 0
  BY FS_EmptySet
<1>5. db.owner = owner
  <2>1. \A c \in Communities : db.owner[c] = owner[c]
    BY <1>1, <1>2, <1>3 DEF OwnersIn, RowsPending, OwnersPending
  <2> QED
    BY <1>1, <2>1 DEF ContractsType, RowsType
<1>6. db.dao_fund = fund
  <2>1. \A c \in Communities : db.dao_fund[c] = fund[c]
    BY <1>1, <1>2, <1>3 DEF RowsIn, RowsPending, FundsPending
  <2> QED
    BY <1>1, <2>1 DEF ContractsType, RowsType
<1>7. db.fee_ratio = fee
  <2>1. \A c \in Communities : db.fee_ratio[c] = fee[c]
    BY <1>1, <1>2, <1>3 DEF RowsIn, RowsPending, FeesPending
  <2> QED
    BY <1>1, <2>1 DEF ContractsType, RowsType
<1>8. db.retained_revenue = retained
  <2>1. \A c : Count("POOL_UPDATED", c) = 0 /\ Count("ADMINWITHDRAWNREVENUE", c) = 0
    BY <1>2, <1>3, <1>4 DEF RowsIn
  <2>2. \A c \in Communities : db.retained_revenue[c] = retained[c]
    BY <1>1, <2>1 DEF RowsPending, RevenuePending, RowsType
  <2> QED
    BY <1>1, <2>2 DEF ContractsType, RowsType
<1>9. \A p \in Pools : db.status[p] = IF home[p] = None THEN None
                                      ELSE IF p \in closed THEN "CLOSED" ELSE "OPENED"
  <2>1. \A p : ~ ClosedNow(p) /\ ~ CreatedNow(p)
    BY <1>2, <1>3 DEF RowsIn
  <2> QED
    BY <1>1, <2>1 DEF RowsPending, StatusPending, PendingStatus
<1>10. \A p \in Pools : db.total_amount[p] = SumFunctionOnSet([u \in Users |-> staked[<<p, u>>]], Users)
  <2>1. \A p : PoolCount(StakeKinds, p) = 0 /\ PoolCount(UnstakeKinds, p) = 0
    BY <1>2, <1>3, <1>4 DEF RowsIn
  <2>2. \A p \in Pools : db.total_amount[p] = StakedIn(p)
    BY <1>1, <2>1 DEF RowsPending, StakesPending, RowsType
  <2> QED
    BY <2>2 DEF StakedIn
<1>11. \A c \in Communities : /\ db.active_pool_count[c] = Len(listed[c])
                              /\ \A i \in DOMAIN listed[c] : db.pool_index[listed[c][i]] = i
  <2>1. \A c : Lists(c) = {}
    BY <1>2, <1>3 DEF RowsIn
  <2> QED
    BY <1>1, <2>1 DEF RowsPending, ListsPending
<1>12. Members = db.members
  <2>1. MembershipKeys = {}
    BY <1>2 DEF MembershipKeys
  <2> QED
    BY <2>1 DEF Members
<1>13. /\ \A c \in Communities : owner[c] # None => <<"community", c, owner[c]>> \in db.members
       /\ \A p \in Pools, u \in Users : staked[<<p, u>>] > 0 =>
             {<<"staker", p, u>>, <<"pool", p, u>>, <<"community", home[p], u>>} \subseteq db.members
  BY <1>1, <1>12 DEF RowsPending, MembersPending
<1> QED
  BY <1>5, <1>6, <1>7, <1>8, <1>9, <1>10, <1>11, <1>13 DEF RowsFollowContracts

(***************************************************************************)
(* Between blocks the rows of communities and pools say what the contracts *)
(* say, whichever writer wrote them: owner, fund, fee, revenue, status,    *)
(* stakes, lists of ratios and members (legacy_db_out, the V14 writer and  *)
(* v14_continuation_db_out).                                               *)
(***************************************************************************)
THEOREM RowsAlwaysFollowContracts == Spec => []RowsFollowContracts
<1>1. IInv => RowsFollowContracts
  BY NothingPending DEF IInv
<1> QED
  BY <1>1, Invariance, PTL

(***************************************************************************)
(* Every operation row is attributed to who acted, no two rows share an    *)
(* entity_index, and those of the legacy writer (next_operation_index) are *)
(* numbered without gaps.                                                  *)
(***************************************************************************)
THEOREM OperationsAlwaysFollow == Spec => []OperationsFollow
<1>1. IInv => OperationsFollow
  BY DEF IInv, RowsInv
<1> QED
  BY <1>1, Invariance, PTL

(***************************************************************************)
(* The counts on communities, pools and accounts are the numbers of member *)
(* and operation rows, whichever writer added them.                        *)
(***************************************************************************)
THEOREM CountsAlwaysRowCounts == Spec => []CountsAreRowCounts
<1>1. IInv => CountsAreRowCounts
  BY DEF IInv, RowsInv
<1> QED
  BY <1>1, Invariance, PTL
=============================================================================

---------------------------- MODULE NutboxMining ----------------------------
(***************************************************************************)
(* Nutbox mining: the community that creates pools through our factory,    *)
(* and the two kinds of pool, which share the factory's event map, the     *)
(* store of known pools, the writer and the community's count of pools.    *)
(***************************************************************************)
EXTENDS Integers, Sequences, FiniteSets

CONSTANTS
    Tokens, Batches, NoOne, NoToken, MaxLevel,  \* NftMining
    Baskets, Factories, MaxAmount,              \* TvlMining
    Members,        \* owners of NFTs and holders of baskets
    MaxBlockLogs,   \* bound on the logs of one block
    MaxHistory      \* bound on the logs of a behaviour

ASSUME MiningAssumption ==
    /\ IsFiniteSet(Tokens) /\ IsFiniteSet(Batches) /\ IsFiniteSet(Baskets) /\ IsFiniteSet(Members)
    /\ NoOne \notin Members
    /\ NoToken \notin Tokens \cup Batches
    /\ "absent" \notin Factories
    /\ MaxLevel \in Nat /\ MaxAmount \in Nat

VARIABLES
    pool, open, nfts, nftLogs, nftKnown, nftRows,
    parent, stakes, children, positions, tvlLogs, tvlParents, found, tvlRows,
    length,         \* logs of the finished blocks
    pools_count     \* walnut_communities.pools_count

nftVars == <<pool, open, nfts, nftLogs, nftKnown, nftRows>>
tvlVars == <<parent, stakes, children, positions, tvlLogs, tvlParents, found, tvlRows>>
miningVars == <<nftVars, tvlVars, length, pools_count>>

Nft == INSTANCE NftMining WITH logs <- nftLogs, known <- nftKnown, rows <- nftRows,
                               Accounts <- Members, MaxLogs <- MaxBlockLogs
Tvl == INSTANCE TvlMining WITH logs <- tvlLogs, parents <- tvlParents, rows <- tvlRows,
                               Holders <- Members, MaxLogs <- MaxBlockLogs

Pending == Len(nftLogs) + Len(tvlLogs)

\* The bounds of one block and of the behaviour hold for both kinds together.
Bounded ==
    /\ Pending' <= MaxBlockLogs
    /\ length + Pending' <= MaxHistory
    /\ UNCHANGED <<length, pools_count>>

NftStep == Nft!ContractStep /\ UNCHANGED tvlVars /\ Bounded

TvlStep == Tvl!ContractStep /\ UNCHANGED nftVars /\ Bounded

\* Every event of the factory is one more pool of its community, whatever
\* its kind.
CreatedPools == Cardinality(Nft!FactoryEvents) + Cardinality(Tvl!FactoryEvents)

EndMiningBlock ==
    /\ Pending > 0
    /\ Nft!EndBlock
    /\ Tvl!EndBlock
    /\ pools_count' = pools_count + CreatedPools
    /\ length' = length + Pending

MiningInit == Nft!Init /\ Tvl!Init /\ length = 0 /\ pools_count = 0

MiningNext == NftStep \/ TvlStep \/ EndMiningBlock

MiningSpec == MiningInit /\ [][MiningNext]_miningVars

-----------------------------------------------------------------------------
\* After any mints, level-ups, transfers and burns, in any order of a block,
\* every account's mining weight is that of the NFTs it owns, and the pool's
\* that of all of them.
WeightsAgree == Nft!WeightsAgree

\* The rows of NFTs and batches follow the contract, also for a pool whose
\* first batch came before it in the block.
NftRowsFollow == Nft!NftRowsFollow

\* The community counts its pools of both kinds once each, and the parent
\* pool's mining total is the sum of the stakes of exactly its own baskets.  A
\* child pool's total is what its holders have staked, also when parent,
\* child and first deposit are of one block.
PoolTotalsFollow ==
    /\ Pending = 0 =>
         pools_count = (IF pool = "created" THEN 1 ELSE 0) + (IF parent THEN 1 ELSE 0)
    /\ Tvl!MiningIsTheSumOfStakes
    /\ Tvl!ChildTotalsFollow
=============================================================================

----------------------------- MODULE NftMining -----------------------------
(***************************************************************************)
(* The NFT half of Nutbox mining: a pool created by the factory, its       *)
(* batches, its NFTs and the mining weight their owners hold.              *)
(*                                                                         *)
(* The writer never knows an NFT's weight or owner: it adds and subtracts  *)
(* what each log says to the rows of the pool, of the NFT, of its batch    *)
(* and of the accounts on both sides.  Rows agree with the contract only   *)
(* if no log is missed or applied twice: from the pool's first block,      *)
(* whatever the order of the logs of one mint, and never for another       *)
(* contract's events.                                                      *)
(***************************************************************************)
EXTENDS Integers, Sequences, FiniteSets, Functions

CONSTANTS
    Tokens,         \* NFT ids
    Batches,        \* batch ids
    Accounts,       \* owners
    NoOne,          \* the zero address
    NoToken,        \* no referrer
    MaxLevel,       \* bound on levels
    MaxLogs         \* bound on the logs of one block

VARIABLES
    pool,       \* "absent", then "created"
    open,       \* batches: "absent", "active", "paused" or "closed"
    nfts,       \* the NFTs as the contract has them
    logs,       \* the logs of the current block
    known,      \* store_nutbox_mining_parent_contracts has the pool
    rows        \* the tables

vars == <<pool, open, nfts, logs, known, rows>>

Unminted == [owner |-> NoOne, level |-> 0, batch |-> NoToken, referrer |-> NoToken]
Minted(t) == nfts[t].batch # NoToken

\* The mining weight of an NFT of some level.
Weight(level) == level + 1

-----------------------------------------------------------------------------
(***************************************************************************)
(* The contracts.                                                          *)
(***************************************************************************)
EmitAll(new) ==
    /\ Len(logs) + Len(new) <= MaxLogs
    /\ logs' = logs \o new
    /\ UNCHANGED <<known, rows>>

Moved(t, from, to) ==
    [kind |-> "NFT_MINING_WEIGHT_MOVED", own |-> TRUE, token |-> t,
     from |-> from, to |-> to, weight |-> Weight(nfts[t].level)]

CreatePool ==
    /\ pool = "absent"
    /\ EmitAll(<<[kind |-> "NFT_MINING_CREATED", own |-> FALSE]>>)
    /\ pool' = "created"
    /\ UNCHANGED <<open, nfts>>

\* The pool emits its first batch in the call that creates it, so its
\* log comes before the factory's.
CreatePoolWithBatch(b) ==
    /\ pool = "absent"
    /\ EmitAll(<<[kind |-> "NFT_BATCH_CREATED", own |-> TRUE, batch |-> b],
                 [kind |-> "NFT_MINING_CREATED", own |-> FALSE]>>)
    /\ pool' = "created"
    /\ open' = [open EXCEPT ![b] = "active"]
    /\ UNCHANGED nfts

CreateBatch(b) ==
    /\ pool = "created"
    /\ open[b] = "absent"
    /\ \A c \in Batches : open[c] \in {"absent", "closed"}
    /\ EmitAll(<<[kind |-> "NFT_BATCH_CREATED", own |-> TRUE, batch |-> b]>>)
    /\ open' = [open EXCEPT ![b] = "active"]
    /\ UNCHANGED <<pool, nfts>>

PauseBatch(b) ==
    /\ open[b] \in {"active", "paused"}
    /\ LET flag == open[b] = "active" IN
       /\ EmitAll(<<[kind |-> "NFT_BATCH_PAUSED_SET", own |-> TRUE, batch |-> b, flag |-> flag]>>)
       /\ open' = [open EXCEPT ![b] = IF flag THEN "paused" ELSE "active"]
    /\ UNCHANGED <<pool, nfts>>

CloseBatch(b) ==
    /\ open[b] \in {"active", "paused"}
    /\ EmitAll(<<[kind |-> "NFT_BATCH_CLOSED", own |-> TRUE, batch |-> b]>>)
    /\ open' = [open EXCEPT ![b] = "closed"]
    /\ UNCHANGED <<pool, nfts>>

\* A mint moves the first weight from the zero address; the order of the
\* two logs is the contract's.
Mint(t, who, b, ref) ==
    /\ open[b] = "active" /\ ~Minted(t)
    /\ ref # NoToken => Minted(ref)
    /\ LET mint == [kind |-> "NFT_MINTED", own |-> TRUE, token |-> t, batch |-> b,
                    referrer |-> ref]
           move == Moved(t, NoOne, who)
           referral == IF ref = NoToken THEN <<>>
                       ELSE <<[kind |-> "NFT_REFERRAL_RECORDED", own |-> TRUE,
                               token |-> ref, child |-> t]>>
       IN \/ EmitAll(<<mint, move>> \o referral)
          \/ EmitAll(<<move, mint>> \o referral)
    /\ nfts' = [nfts EXCEPT ![t] = [owner |-> who, level |-> 0, batch |-> b, referrer |-> ref]]
    /\ UNCHANGED <<pool, open>>

LevelUp(t) ==
    /\ nfts[t].owner # NoOne /\ nfts[t].level < MaxLevel
    /\ EmitAll(<<[kind |-> "NFT_LEVEL_UP", own |-> TRUE, token |-> t,
                  account |-> nfts[t].owner, level |-> nfts[t].level + 1,
                  previous |-> Weight(nfts[t].level),
                  weight |-> Weight(nfts[t].level + 1)]>>)
    /\ nfts' = [nfts EXCEPT ![t].level = @ + 1]
    /\ UNCHANGED <<pool, open>>

\* A transfer, also to oneself, or a burn.
Transfer(t, to) ==
    /\ nfts[t].owner # NoOne
    /\ EmitAll(<<Moved(t, nfts[t].owner, to)>>)
    /\ nfts' = [nfts EXCEPT ![t].owner = to]
    /\ UNCHANGED <<pool, open>>

\* A contract that is no pool of the factory emits the same event.
ForeignMove(t, to) ==
    /\ EmitAll(<<[Moved(t, NoOne, to) EXCEPT !.own = FALSE]>>)
    /\ UNCHANGED <<pool, open, nfts>>

-----------------------------------------------------------------------------
(***************************************************************************)
(* The maps: the factory's events, then the events of known pools; a pool  *)
(* is known from its creation, and anywhere in the block that creates it.  *)
(***************************************************************************)
FactoryEvents == {n \in DOMAIN logs : logs[n].kind = "NFT_MINING_CREATED"}

KnownAt(i) == known \/ \E j \in 1..i : logs[j].kind = "NFT_MINING_CREATED"

IsPoolInStore(i) == logs[i].own /\ KnownAt(i)

IsPool(i) == logs[i].own /\ (KnownAt(i) \/ FactoryEvents # {})

ParentEvents == {n \in DOMAIN logs : IsPool(n)}

-----------------------------------------------------------------------------
(***************************************************************************)
(* The writer: what one event adds to or sets in each table.               *)
(***************************************************************************)
MintedRow(r, e) ==
    [r EXCEPT !.nfts[e.token].batch = e.batch,
              !.nfts[e.token].referrer = e.referrer,
              !.batches[e.batch].minted = @ + 1,
              !.pool.supply = @ + 1]

ReferralOfTheChild(r, e) ==
    [r EXCEPT !.nfts[e.child].referrals = @ + 1,
              !.nfts[e.child].referrer = e.token]

ReferralRow(r, e) ==
    [r EXCEPT !.nfts[e.token].referrals = @ + 1,
              !.nfts[e.child].referrer = e.token]

LevelUpPool(r, e) ==
    [r EXCEPT !.nfts[e.token].level = e.level,
              !.nfts[e.token].weight = e.weight,
              !.pool.weight = @ + (e.weight - e.previous)]

LevelUpRow(r, e) ==
    [r EXCEPT !.nfts[e.token].level = e.level,
              !.nfts[e.token].weight = e.weight,
              !.pool.weight = @ + (e.weight - e.previous),
              !.accounts[e.account].weight = @ + (e.weight - e.previous)]

Credit(r, who, count, weight) ==
    IF who = NoOne THEN r
    ELSE [r EXCEPT !.accounts[who].count = @ + count,
                   !.accounts[who].weight = @ + weight]

MovedKeepsBurned(r, e) ==
    LET row == [r EXCEPT
                  !.nfts[e.token].owner = e.to,
                  !.nfts[e.token].weight = e.weight,
                  !.pool.weight = @ + (IF e.from = NoOne THEN e.weight ELSE 0)]
    IN Credit(Credit(row, e.from, -1, -e.weight), e.to, 1, e.weight)

MovedRow(r, e) ==
    LET row == [r EXCEPT
                  !.nfts[e.token].owner = e.to,
                  !.nfts[e.token].weight = e.weight,
                  !.pool.weight = @ + (IF e.from = NoOne THEN e.weight ELSE 0)
                                    - (IF e.to = NoOne THEN e.weight ELSE 0)]
    IN Credit(Credit(row, e.from, -1, -e.weight), e.to, 1, e.weight)

BatchCreatedRow(r, e) ==
    [r EXCEPT !.batches[e.batch].active = TRUE, !.batches[e.batch].paused = FALSE,
              !.pool.current = e.batch]

WriteEvent(r, e) ==
    CASE e.kind = "NFT_BATCH_CREATED"       -> BatchCreatedRow(r, e)
      [] e.kind = "NFT_BATCH_CLOSED"        -> [r EXCEPT !.batches[e.batch].active = FALSE]
      [] e.kind = "NFT_BATCH_PAUSED_SET"    -> [r EXCEPT !.batches[e.batch].paused = e.flag]
      [] e.kind = "NFT_MINTED"              -> MintedRow(r, e)
      [] e.kind = "NFT_REFERRAL_RECORDED"   -> ReferralRow(r, e)
      [] e.kind = "NFT_LEVEL_UP"            -> LevelUpRow(r, e)
      [] e.kind = "NFT_MINING_WEIGHT_MOVED" -> MovedRow(r, e)

\* The factory's events first, then the pool's in the order of their logs.
FactoryRows == [rows EXCEPT !.pool.created = @ \/ FactoryEvents # {}]

RowsAfter ==
    LET after[n \in 0..Len(logs)] ==
          IF n = 0 THEN FactoryRows
          ELSE IF n \in ParentEvents THEN WriteEvent(after[n - 1], logs[n])
          ELSE after[n - 1]
    IN  after[Len(logs)]

EndBlock ==
    /\ known' = (known \/ FactoryEvents # {})
    /\ rows' = RowsAfter
    /\ logs' = <<>>
    /\ UNCHANGED <<pool, open, nfts>>

Init ==
    /\ pool = "absent"
    /\ open = [b \in Batches |-> "absent"]
    /\ nfts = [t \in Tokens |-> Unminted]
    /\ logs = <<>>
    /\ known = FALSE
    /\ rows = [pool     |-> [created |-> FALSE, current |-> NoToken, supply |-> 0, weight |-> 0],
               batches  |-> [b \in Batches |-> [active |-> FALSE, paused |-> FALSE, minted |-> 0]],
               nfts     |-> [t \in Tokens |-> [owner |-> NoOne, weight |-> 0, level |-> 0,
                                               batch |-> NoToken, referrer |-> NoToken,
                                               referrals |-> 0]],
               accounts |-> [a \in Accounts |-> [count |-> 0, weight |-> 0]]]

ContractStep ==
    \/ CreatePool
    \/ \E b \in Batches : \/ CreatePoolWithBatch(b) \/ CreateBatch(b)
                          \/ PauseBatch(b) \/ CloseBatch(b)
    \/ \E t \in Tokens : \/ \E who \in Accounts, b \in Batches, ref \in Tokens \cup {NoToken} :
                              Mint(t, who, b, ref)
                         \/ LevelUp(t)
                         \/ \E to \in Accounts \cup {NoOne} : Transfer(t, to)
                         \/ \E to \in Accounts : ForeignMove(t, to)

-----------------------------------------------------------------------------
Finished == logs = <<>>
Owned(S) == {t \in Tokens : nfts[t].owner \in S}
SumOfWeights(S) == SumFunctionOnSet([t \in Tokens |-> Weight(nfts[t].level)], S)

\* The weight rows agree at three levels: every account's row is the weight
\* of the NFTs it owns and their number, and the pool's row the weight of
\* all that are owned, after any mints, level-ups, transfers and burns.
WeightsAgree ==
    Finished =>
        /\ rows.pool.weight = SumOfWeights(Owned(Accounts))
        /\ \A a \in Accounts :
             /\ rows.accounts[a].weight = SumOfWeights(Owned({a}))
             /\ rows.accounts[a].count = Cardinality(Owned({a}))

\* An NFT's row has its owner, level, batch and referrer, the weight it is
\* counted with and the mints that named it; a batch's row counts the mints
\* of that batch and says whether it is open, the pool's row all mints, also
\* when the batch came before the pool.
NftRowsFollow ==
    Finished =>
        /\ \A t \in Tokens :
             /\ rows.nfts[t].owner = nfts[t].owner
             /\ rows.nfts[t].level = nfts[t].level
             /\ rows.nfts[t].batch = nfts[t].batch
             /\ rows.nfts[t].referrer = nfts[t].referrer
             /\ Minted(t) => rows.nfts[t].weight = Weight(nfts[t].level)
             /\ rows.nfts[t].referrals =
                  Cardinality({c \in Tokens : nfts[c].referrer = t})
        /\ rows.pool.created = (pool = "created")
        /\ rows.pool.supply = Cardinality({t \in Tokens : Minted(t)})
        /\ \A b \in Batches :
             /\ rows.batches[b].minted = Cardinality({t \in Tokens : nfts[t].batch = b})
             /\ rows.batches[b].active = (open[b] \in {"active", "paused"})
             /\ open[b] = "paused" => rows.batches[b].paused
             /\ open[b] = "active" => ~rows.batches[b].paused
=============================================================================

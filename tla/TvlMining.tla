----------------------------- MODULE TvlMining -----------------------------
(***************************************************************************)
(* The Basket half of Nutbox mining: a parent pool in which baskets are    *)
(* staked by their creators, and a child pool per basket in which holders  *)
(* deposit, ask to withdraw and redeem.                                    *)
(*                                                                         *)
(* Discovery goes through three layers that may all happen in one block:   *)
(* the factory announces the parent pool, the parent announces a child     *)
(* pool, and the child emits its holders' events.  The writer only adds    *)
(* differences, so its totals are right only if each layer sees everything *)
(* the layer before it found, and nothing else.                            *)
(***************************************************************************)
EXTENDS Integers, Sequences, FiniteSets, Functions

CONSTANTS
    Baskets,        \* baskets that may be staked; one child pool each
    Holders,        \* accounts that deposit
    Factories,      \* "ours", and others whose children are not followed
    MaxAmount,      \* bound on stakes and deposits
    MaxLogs         \* bound on the logs of one block

VARIABLES
    parent,     \* the factory's parent pool: created or not
    stakes,     \* per basket, its staked amount, 0 before the stake
    children,   \* child pools: "absent", else the parent's factory
    positions,  \* per basket and holder, [staked, requested, redeemed, claimed]
    logs,       \* the logs of the current block
    parents,    \* store_nutbox_mining_parent_contracts
    found,      \* store_nutbox_mining_child_contracts
    rows        \* the tables

vars == <<parent, stakes, children, positions, logs, parents, found, rows>>

Empty == [staked |-> 0, requested |-> 0, redeemed |-> 0, claimed |-> 0]

-----------------------------------------------------------------------------
(***************************************************************************)
(* The contracts.                                                          *)
(***************************************************************************)
Emit(new) ==
    /\ Len(logs) + Len(new) <= MaxLogs
    /\ logs' = logs \o new
    /\ UNCHANGED <<parents, found, rows>>

CreateParent ==
    /\ ~parent
    /\ Emit(<<[kind |-> "BASKET_TVL_MINING_CREATED"]>>)
    /\ parent' = TRUE
    /\ UNCHANGED <<stakes, children, positions>>

\* A stake deploys the basket's child pool.  A parent pool of another
\* factory emits the same events.
Stake(f, b, amount) ==
    /\ f = "ours" => parent
    /\ children[b] = "absent"
    /\ Emit(<<[kind |-> "BASKET_STAKE_CREATED", factory |-> f, basket |-> b, amount |-> amount],
              [kind |-> "BASKET_CHILD_POOL_CREATED", factory |-> f, basket |-> b]>>)
    /\ children' = [children EXCEPT ![b] = f]
    /\ stakes' = [stakes EXCEPT ![b] = amount]
    /\ UNCHANGED <<parent, positions>>

UpdateStake(b, amount) ==
    /\ children[b] # "absent"
    /\ Emit(<<[kind |-> "BASKET_STAKE_UPDATED", factory |-> children[b], basket |-> b,
               previous |-> stakes[b], amount |-> amount]>>)
    /\ stakes' = [stakes EXCEPT ![b] = amount]
    /\ UNCHANGED <<parent, children, positions>>

ChildLog(kind, b, who, amount) ==
    [kind |-> kind, basket |-> b, account |-> who, amount |-> amount]

Deposit(b, who, amount) ==
    /\ children[b] # "absent"
    /\ positions[b][who].staked + amount <= MaxAmount
    /\ Emit(<<ChildLog("BASKET_CHILD_DEPOSITED", b, who, amount)>>)
    /\ positions' = [positions EXCEPT ![b][who].staked = @ + amount]
    /\ UNCHANGED <<parent, stakes, children>>

RequestWithdraw(b, who, amount) ==
    /\ amount <= positions[b][who].staked
    /\ Emit(<<ChildLog("BASKET_CHILD_WITHDRAW_REQUESTED", b, who, amount)>>)
    /\ positions' = [positions EXCEPT ![b][who].staked = @ - amount,
                                      ![b][who].requested = @ + amount]
    /\ UNCHANGED <<parent, stakes, children>>

Redeem(b, who, amount) ==
    /\ positions[b][who].redeemed + amount <= positions[b][who].requested
    /\ Emit(<<ChildLog("BASKET_CHILD_REDEEMED", b, who, amount)>>)
    /\ positions' = [positions EXCEPT ![b][who].redeemed = @ + amount]
    /\ UNCHANGED <<parent, stakes, children>>

\* A holder is paid a reward; how much is the contract's business.
Claim(b, who) ==
    /\ children[b] # "absent" /\ positions[b][who].claimed = 0
    /\ Emit(<<ChildLog("BASKET_CHILD_REWARDS_CLAIMED", b, who, 1)>>)
    /\ positions' = [positions EXCEPT ![b][who].claimed = 1]
    /\ UNCHANGED <<parent, stakes, children>>

-----------------------------------------------------------------------------
(***************************************************************************)
(* The three maps.                                                         *)
(***************************************************************************)
FactoryEvents == {n \in DOMAIN logs : logs[n].kind = "BASKET_TVL_MINING_CREATED"}

ParentKinds == {"BASKET_STAKE_CREATED", "BASKET_CHILD_POOL_CREATED", "BASKET_STAKE_UPDATED"}
IsAnyParentLog(log) == log.kind \in ParentKinds

IsParentLog(log) ==
    /\ log.kind \in ParentKinds
    /\ log.factory = "ours"
    /\ parents \/ FactoryEvents # {}

ParentEvents == {n \in DOMAIN logs : IsParentLog(logs[n])}

ChildKinds == {"BASKET_CHILD_DEPOSITED", "BASKET_CHILD_WITHDRAW_REQUESTED",
               "BASKET_CHILD_REDEEMED", "BASKET_CHILD_REWARDS_CLAIMED"}
NewChildren ==
    {logs[n].basket : n \in {m \in ParentEvents : logs[m].kind = "BASKET_CHILD_POOL_CREATED"}}

IsOldChildLog(log) == log.kind \in ChildKinds /\ log.basket \in found

IsChildLog(log) == log.kind \in ChildKinds /\ log.basket \in found \cup NewChildren

ChildEvents == {n \in DOMAIN logs : IsChildLog(logs[n])}

-----------------------------------------------------------------------------
(***************************************************************************)
(* The writer: factory events first, then the parent's, then the child's.  *)
(***************************************************************************)
StakeAddedRow(r, e) ==
    [r EXCEPT !.stakes[e.basket] = e.amount,
              !.pool.mining = @ + e.amount]

StakeUpdatedRow(r, e) ==
    [r EXCEPT !.stakes[e.basket] = e.amount,
              !.pool.mining = @ + (e.amount - e.previous)]

ParentRow(r, e) ==
    CASE e.kind = "BASKET_STAKE_CREATED" ->
           [r EXCEPT !.stakes[e.basket] = e.amount,
                     !.pool.baskets = @ + 1,
                     !.pool.mining = @ + e.amount]
      [] e.kind = "BASKET_CHILD_POOL_CREATED" ->
           [r EXCEPT !.children[e.basket].created = TRUE]
      [] e.kind = "BASKET_STAKE_UPDATED" -> StakeUpdatedRow(r, e)

\* A withdrawal request ends the stake; redeeming later does not.
WithdrawKeepsTotal(r, e) ==
    [r EXCEPT !.positions[e.basket][e.account].staked = @ - e.amount,
              !.positions[e.basket][e.account].requested = @ + e.amount]

WithdrawRow(r, e) ==
    [r EXCEPT !.children[e.basket].staked = @ - e.amount,
              !.positions[e.basket][e.account].staked = @ - e.amount,
              !.positions[e.basket][e.account].requested = @ + e.amount]

ChildRow(r, e) ==
    CASE e.kind = "BASKET_CHILD_DEPOSITED" ->
           [r EXCEPT !.children[e.basket].staked = @ + e.amount,
                     !.positions[e.basket][e.account].staked = @ + e.amount]
      [] e.kind = "BASKET_CHILD_WITHDRAW_REQUESTED" -> WithdrawRow(r, e)
      [] e.kind = "BASKET_CHILD_REDEEMED" ->
           [r EXCEPT !.positions[e.basket][e.account].redeemed = @ + e.amount]
      [] e.kind = "BASKET_CHILD_REWARDS_CLAIMED" ->
           [r EXCEPT !.children[e.basket].claimed = @ + e.amount,
                     !.positions[e.basket][e.account].claimed = @ + e.amount]

FactoryRows == [rows EXCEPT !.pool.created = @ \/ FactoryEvents # {}]

ParentRows ==
    LET after[n \in 0..Len(logs)] ==
          IF n = 0 THEN FactoryRows
          ELSE IF n \in ParentEvents THEN ParentRow(after[n - 1], logs[n])
          ELSE after[n - 1]
    IN  after[Len(logs)]

RowsAfter ==
    LET after[n \in 0..Len(logs)] ==
          IF n = 0 THEN ParentRows
          ELSE IF n \in ChildEvents THEN ChildRow(after[n - 1], logs[n])
          ELSE after[n - 1]
    IN  after[Len(logs)]

EndBlock ==
    /\ parents' = (parents \/ FactoryEvents # {})
    /\ found' = found \cup NewChildren
    /\ rows' = RowsAfter
    /\ logs' = <<>>
    /\ UNCHANGED <<parent, stakes, children, positions>>

Init ==
    /\ parent = FALSE
    /\ stakes = [b \in Baskets |-> 0]
    /\ children = [b \in Baskets |-> "absent"]
    /\ positions = [b \in Baskets |-> [h \in Holders |-> Empty]]
    /\ logs = <<>>
    /\ parents = FALSE /\ found = {}
    /\ rows = [pool      |-> [created |-> FALSE, baskets |-> 0, mining |-> 0],
               stakes    |-> [b \in Baskets |-> 0],
               children  |-> [b \in Baskets |-> [created |-> FALSE, staked |-> 0, claimed |-> 0]],
               positions |-> [b \in Baskets |-> [h \in Holders |-> Empty]]]

ContractStep ==
    \/ CreateParent
    \/ \E b \in Baskets :
         \/ \E f \in Factories, amount \in 1..MaxAmount : Stake(f, b, amount)
         \/ \E amount \in 0..MaxAmount : UpdateStake(b, amount)
         \/ \E who \in Holders, amount \in 1..MaxAmount :
              Deposit(b, who, amount) \/ RequestWithdraw(b, who, amount) \/ Redeem(b, who, amount)
         \/ \E who \in Holders : Claim(b, who)

-----------------------------------------------------------------------------
Finished == logs = <<>>
Ours == {b \in Baskets : children[b] = "ours"}

\* The parent's total is the sum of its stakes as they stand, and it counts
\* exactly the baskets staked in it, never another factory's.
MiningIsTheSumOfStakes ==
    Finished =>
        /\ rows.pool.created = parent
        /\ rows.pool.mining = SumFunctionOnSet(stakes, Ours)
        /\ rows.pool.baskets = Cardinality(Ours)
        /\ \A b \in Ours : rows.stakes[b] = stakes[b]

\* Every child pool has its row from the block that created it, its total is
\* what its holders have staked now (and have been paid), and each holder's row is the position;
\* a child of another factory's parent has nothing.
ChildTotalsFollow ==
    Finished => \A b \in Baskets :
        /\ rows.children[b].created = (b \in Ours)
        /\ rows.positions[b] = IF b \in Ours THEN positions[b]
                               ELSE [h \in Holders |-> Empty]
        /\ rows.children[b].staked =
             SumFunctionOnSet([h \in Holders |-> rows.positions[b][h].staked], Holders)
        /\ rows.children[b].claimed =
             SumFunctionOnSet([h \in Holders |-> rows.positions[b][h].claimed], Holders)
=============================================================================

---------------------------- MODULE IPShareLedger ----------------------------
(***************************************************************************)
(* IPShare: the event map, the counter and balance stores, and the part of *)
(* legacy_db_out that writes accounts, holders, stakers, the summary and   *)
(* the event rows.  Within a block the stores apply their operations in    *)
(* log order, one delta per operation; at the end of the block the writer  *)
(* turns the block's events, grouped by kind, and the deltas into one      *)
(* DatabaseChanges that the sink commits.                                  *)
(***************************************************************************)
EXTENDS Integers, Sequences, FiniteSets, FiniteSetsExt, Functions

CONSTANTS
    Accounts,    \* addresses; any of them may be a subject
    Amounts,     \* share amounts of one event
    MaxShares,   \* bound on the supply and the stake of one subject
    MaxLogs,     \* bound on the IPShare logs of one block
    MaxEvents    \* bound on the IPShare logs of the chain

ASSUME LedgerAssumption ==
    /\ IsFiniteSet(Accounts)
    /\ Amounts \subseteq Nat
    /\ MaxShares \in Nat
    /\ MaxLogs \in Nat
    /\ MaxEvents \in Nat

VARIABLES
    created,  \* the contract: subjects that have an IPShare,
    supply,   \*   the supply its Trade events report,
    total,    \*   and the subject's stake its Stake events report
    shares,   \* store_ipshare_holder_balances, by holder_key
    staked,   \* store_ipshare_stake_balances, by holder_key
    counter,  \* store_ipshare_indexes
    events,   \* the open block's event message: the events of each kind
    changes,  \* what the open block's balance deltas make of the relation counts
    block,    \* number of the open block
    db        \* the committed tables

vars == <<created, supply, total, shares, staked, counter, events, changes, block, db>>

Pairs == Accounts \X Accounts    \* holder_key(holder, subject)

Kinds == {"ipshare", "ipshare_trade", "value_capture", "stake"}

\* The relation counts of an accounts row.
Counts == {"holdings_count", "holders_count", "staked_count", "stakers_count"}

Event == [account : Accounts, subject : Accounts, is_buy : BOOLEAN, value : Nat]

NoCounts == [c \in Counts |-> [a \in Accounts |-> 0]]
NoEvents == [k \in Kinds |-> <<>>]

\* Balances never fall below zero; the writer's counts and deltas could.
TypeOK ==
    /\ supply \in [Accounts -> Nat]
    /\ total \in [Accounts -> Nat]
    /\ shares \in [Pairs -> Nat]
    /\ staked \in [Pairs -> Nat]
    /\ events \in [Kinds -> Seq(Event)]
    /\ counter \in [Kinds -> Nat]
    /\ block \in Nat
    /\ changes \in [Counts -> [Accounts -> Int]]
    /\ db.counts \in [Counts -> [Accounts -> Int]]
    /\ db.holders \in [Pairs -> Nat]
    /\ db.stakers \in [Pairs -> Nat]

Init ==
    /\ created = {}
    /\ supply = [a \in Accounts |-> 0]
    /\ total = [a \in Accounts |-> 0]
    /\ shares = [k \in Pairs |-> 0]
    /\ staked = [k \in Pairs |-> 0]
    /\ counter = [k \in Kinds |-> 0]
    /\ events = NoEvents
    /\ changes = NoCounts
    /\ block = 1
    /\ db = [counts |-> NoCounts,
             holders |-> [k \in Pairs |-> 0],
             stakers |-> [k \in Pairs |-> 0],
             share_supply |-> [a \in Accounts |-> 0],
             total_staked |-> [a \in Accounts |-> 0],
             joined_at |-> [a \in Accounts |-> 0],
             rows |-> [k \in Kinds |-> <<>>],
             buy_count |-> 0, sell_count |-> 0]

-----------------------------------------------------------------------------
\* Mutant: counts a relation again on every increase.
RelationChangeAnyIncrease(old, new) ==
    IF new > old THEN 1 ELSE IF old > 0 /\ new = 0 THEN -1 ELSE 0

\* apply_relation_count_delta: a relation is counted while its value is
\* positive.
RelationChange(old, new) ==
    IF old = 0 /\ new > 0 THEN 1 ELSE IF old > 0 /\ new = 0 THEN -1 ELSE 0

\* One balance delta of the open block: add its change to the owner's and to
\* the subject's count.
CountDelta(owner_field, subject_field, key, old, new) ==
    [changes EXCEPT ![owner_field][key[1]] = @ + RelationChange(old, new),
                    ![subject_field][key[2]] = @ + RelationChange(old, new)]

Room ==
    /\ SumFunction([k \in Kinds |-> Len(events[k])]) < MaxLogs
    /\ SumFunction(counter) < MaxEvents

Emit(kind, account, subject, is_buy, value) ==
    /\ Room
    /\ counter' = [counter EXCEPT ![kind] = @ + 1]
    /\ events' = [events EXCEPT ![kind] =
                     Append(@, [account |-> account, subject |-> subject,
                                is_buy |-> is_buy, value |-> value])]
    /\ UNCHANGED <<block, db>>

(***************************************************************************)
(* The logs of the IPShare contract.  What the contract would refuse (a    *)
(* second creation, a sale of more than is held) emits no log.             *)
(***************************************************************************)
SetShares(key, new) ==
    /\ shares' = [shares EXCEPT ![key] = new]
    /\ changes' = CountDelta("holdings_count", "holders_count", key, shares[key], new)

SetStaked(key, new) ==
    /\ staked' = [staked EXCEPT ![key] = new]
    /\ changes' = CountDelta("staked_count", "stakers_count", key, staked[key], new)

Create(subject, amount) ==
    /\ subject \notin created
    /\ amount <= MaxShares
    /\ created' = created \cup {subject}
    /\ supply' = [supply EXCEPT ![subject] = amount]
    /\ SetShares(<<subject, subject>>, shares[<<subject, subject>>] + amount)
    /\ Emit("ipshare", subject, subject, TRUE, amount)
    /\ UNCHANGED <<total, staked>>

Buy(trader, subject, amount) ==
    /\ subject \in created
    /\ supply[subject] + amount <= MaxShares
    /\ supply' = [supply EXCEPT ![subject] = @ + amount]
    /\ SetShares(<<trader, subject>>, shares[<<trader, subject>>] + amount)
    /\ Emit("ipshare_trade", trader, subject, TRUE, supply'[subject])
    /\ UNCHANGED <<created, total, staked>>

Sell(trader, subject, amount) ==
    /\ subject \in created
    /\ shares[<<trader, subject>>] >= amount
    /\ supply[subject] >= amount
    /\ supply' = [supply EXCEPT ![subject] = @ - amount]
    /\ SetShares(<<trader, subject>>, shares[<<trader, subject>>] - amount)
    /\ Emit("ipshare_trade", trader, subject, FALSE, supply'[subject])
    /\ UNCHANGED <<created, total, staked>>

Stake(staker, subject, amount) ==
    /\ subject \in created
    /\ total[subject] + amount <= MaxShares
    /\ total' = [total EXCEPT ![subject] = @ + amount]
    /\ SetStaked(<<staker, subject>>, staked[<<staker, subject>>] + amount)
    /\ Emit("stake", staker, subject, TRUE, total'[subject])
    /\ UNCHANGED <<created, supply, shares>>

Unstake(staker, subject, amount) ==
    /\ subject \in created
    /\ staked[<<staker, subject>>] >= amount
    /\ total[subject] >= amount
    /\ total' = [total EXCEPT ![subject] = @ - amount]
    /\ SetStaked(<<staker, subject>>, staked[<<staker, subject>>] - amount)
    /\ Emit("stake", staker, subject, FALSE, total'[subject])
    /\ UNCHANGED <<created, supply, shares>>

ValueCaptured(investor, subject) ==
    /\ subject \in created
    /\ Emit("value_capture", investor, subject, TRUE, 0)
    /\ UNCHANGED <<created, supply, total, shares, staked, changes>>

-----------------------------------------------------------------------------
\* The value an accounts row is left with when each event of a kind sets a
\* field of its subject: the last event wins, and none keeps the old value.
LastValue(list, subject, old) ==
    LET own == {n \in DOMAIN list : list[n].subject = subject}
    IN  IF own = {} THEN old ELSE list[Max(own)].value

\* Mutant: reads the index at the end of the block.
IndexAtEnd(kind, n) == counter[kind]

\* store.get_at(event.evt_ordinal, kind) of the n-th event of a kind: the
\* operations of the block's later events are not in it.
IndexAt(kind, n) == counter[kind] - (Len(events[kind]) - n)

EventRows(kind) == [n \in DOMAIN events[kind] |-> IndexAt(kind, n)]

\* Mutant: the creates are written after the trades.
ShareSupplyCreatesLast(s) ==
    LastValue(events["ipshare"], s, LastValue(events["ipshare_trade"], s, db.share_supply[s]))

\* creates set the amount, then trades set the supply they report.
ShareSupply(s) ==
    LastValue(events["ipshare_trade"], s, LastValue(events["ipshare"], s, db.share_supply[s]))

\* Mutant: only the subject is ensured.
MentionedSubjects == UNION {{e.subject : e \in Range(events[k])} : k \in Kinds}

\* Every account that ensure_account is called with.
Mentioned == UNION {UNION {{e.account, e.subject} : e \in Range(events[k])} : k \in Kinds}

Buys == Cardinality({n \in DOMAIN events["ipshare_trade"] : events["ipshare_trade"][n].is_buy})

\* The pairs that have a delta in a balance store.
Touched(kinds) == UNION {{<<e.account, e.subject>> : e \in Range(events[k])} : k \in kinds}

\* The rows of one relation: a delta sets its row to the store's value.
RelationRows(old, balance, kinds) ==
    [k \in Pairs |-> IF k \in Touched(kinds) THEN balance[k] ELSE old[k]]

(***************************************************************************)
(* legacy_db_out for the open block, and the sink's commit.  The deltas    *)
(* come after the events, so that a holder or staker row ends with the     *)
(* store's value whatever the events' own set, add and sub made of it.     *)
(***************************************************************************)
EndBlock ==
    /\ events # NoEvents
    /\ db' = [counts |-> [c \in Counts |-> [a \in Accounts |-> db.counts[c][a] + changes[c][a]]],
              holders |-> RelationRows(db.holders, shares, {"ipshare", "ipshare_trade"}),
              stakers |-> RelationRows(db.stakers, staked, {"stake"}),
              share_supply |-> [a \in Accounts |-> ShareSupply(a)],
              total_staked |-> [a \in Accounts |-> LastValue(events["stake"], a, db.total_staked[a])],
              joined_at |-> [a \in Accounts |->
                               IF db.joined_at[a] = 0 /\ a \in Mentioned
                               THEN block ELSE db.joined_at[a]],
              rows |-> [k \in Kinds |-> db.rows[k] \o EventRows(k)],
              buy_count |-> db.buy_count + Buys + Len(events["ipshare"]),
              sell_count |-> db.sell_count + Len(events["ipshare_trade"]) - Buys]
    /\ events' = NoEvents
    /\ changes' = NoCounts
    /\ block' = block + 1
    /\ UNCHANGED <<created, supply, total, shares, staked, counter>>

Next ==
    \/ \E s \in Accounts, m \in Amounts : Create(s, m)
    \/ \E a, s \in Accounts, m \in Amounts :
          \/ Buy(a, s, m)
          \/ Sell(a, s, m)
          \/ Stake(a, s, m)
          \/ Unstake(a, s, m)
    \/ \E a, s \in Accounts : ValueCaptured(a, s)
    \/ EndBlock

Spec == Init /\ [][Next]_vars

-----------------------------------------------------------------------------
\* The subjects of which an account holds (stakes) shares, and the accounts
\* that hold (stake) a subject's.
HeldBy(balance, a) == {s \in Accounts : balance[<<a, s>>] > 0}
HoldersOf(balance, s) == {a \in Accounts : balance[<<a, s>>] > 0}

(***************************************************************************)
(* The four counts of every accounts row are the numbers of ipshare_holders*)
(* and ipshare_stakers rows with a positive amount, although the writer    *)
(* only ever sees deltas, several of them for one pair in one block.       *)
(***************************************************************************)
CountsMatch ==
    \A a \in Accounts :
        /\ db.counts["holdings_count"][a] = Cardinality(HeldBy(db.holders, a))
        /\ db.counts["holders_count"][a] = Cardinality(HoldersOf(db.holders, a))
        /\ db.counts["staked_count"][a] = Cardinality(HeldBy(db.stakers, a))
        /\ db.counts["stakers_count"][a] = Cardinality(HoldersOf(db.stakers, a))

Total(balance, subject) ==
    SumFunction([a \in Accounts |-> balance[<<a, subject>>]])

(***************************************************************************)
(* accounts.share_supply and accounts.total_staked, taken from what events *)
(* report, agree with the holder and staker rows, built from deltas.       *)
(***************************************************************************)
SupplyIsWhatIsHeld ==
    \A s \in Accounts :
        /\ db.share_supply[s] = Total(db.holders, s)
        /\ db.total_staked[s] = Total(db.stakers, s)

(***************************************************************************)
(* The entity indexes of each kind number its events 1, 2, 3... in chain   *)
(* order across blocks, which their UNIQUE columns need.                   *)
(***************************************************************************)
IndexesFollowTheChain ==
    \A k \in Kinds : \A n \in DOMAIN db.rows[k] : db.rows[k][n] = n

(***************************************************************************)
(* Every account that a count, a supply or a stake was written for was     *)
(* also given a joined_at, and no later than the last committed block.     *)
(***************************************************************************)
CountedAccountsJoined ==
    \A a \in Accounts :
        \/ db.joined_at[a] \in 1..(block - 1)
        \/ /\ db.joined_at[a] = 0
           /\ \A c \in Counts : db.counts[c][a] = 0
           /\ db.share_supply[a] = 0 /\ db.total_staked[a] = 0

=============================================================================

--------------------------- MODULE AccountRegistry ---------------------------
(***************************************************************************)
(* Which account is discovered where, and the index it gets.  Three        *)
(* set_if_not_exists stores discover accounts: store_pre_walnut_accounts   *)
(* from IPShare, Pump and swap events, store_walnut_accounts and           *)
(* store_token_accounts.  A later one skips what an earlier one knows at   *)
(* the end of the block; an earlier one knows nothing of a later one.  Two *)
(* counters follow the deltas, and legacy_db_out turns both into the       *)
(* accounts rows' entity_index and the summaries' user counts.  The V11    *)
(* and V14 streams write the same rows, from events the stores do not read *)
(* and with an index of another kind, where there is none yet.             *)
(***************************************************************************)
EXTENDS Integers, Sequences, FiniteSets, SequencesExt

CONSTANTS
    Accounts,   \* addresses other than zero
    MaxLogs,    \* bound on the logs of a block
    MaxBlocks   \* bound on the blocks, and in the last ones on their logs

ASSUME RegistryAssumption ==
    /\ IsFiniteSet(Accounts)
    /\ MaxLogs \in Nat
    /\ MaxBlocks \in Nat

VARIABLES
    block,      \* number (and timestamp) of the open block
    logs,       \* its logs so far
    pre,        \* store_pre_walnut_accounts: the timestamp of each account, 0 if none
    walnut,     \* store_walnut_accounts
    token,      \* store_token_accounts
    userIndex,  \* store_user_account_indexes
    walnutIndex,\* store_walnut_account_indexes
    db          \* the accounts table and the two summaries

stores == <<pre, walnut, token, userIndex, walnutIndex>>
registryVars == <<block, logs, stores, db>>

\* The priority of an event in the pre-Walnut and in the Walnut store.
PrePriority == [ipshare |-> 0, new_token |-> 1, swap |-> 2]
WalnutPriority == [community |-> 1, walnut |-> 2]
TokenPriority == [trade |-> 0]

\* Events that ensure an accounts row but register nobody: the Walnut
\* administration of a community, and the events of the additive streams.
Sources ==
    DOMAIN PrePriority \cup DOMAIN WalnutPriority \cup DOMAIN TokenPriority
        \cup {"admin", "additive"}

\* A log has a source and two accounts: trader and subject, buyer and
\* sellsman...; twice the same one for an event that names one.
TwoParties == {"ipshare", "swap", "trade", "additive"}

\* additive_entity_index: disjoint from the counters.
AdditiveIndex(n) == block * 1000000 + n

Logs == [source : Sources, first : Accounts, second : Accounts]

\* Blocks are numbered from 1, so that 0 can mean "not known".
RegistryTypeOK ==
    /\ block \in Nat \ {0}
    /\ logs \in Seq(Logs)
    /\ pre \in [Accounts -> Nat] /\ walnut \in [Accounts -> Nat] /\ token \in [Accounts -> Nat]
    /\ userIndex \in Nat /\ walnutIndex \in Nat
    /\ db \in [joined_at : [Accounts -> Nat], entity_index : [Accounts -> Nat],
               users_count : Nat, total_users : Nat]

None == [a \in Accounts |-> 0]

RegistryInit ==
    /\ block = 1
    /\ logs = <<>>
    /\ pre = None /\ walnut = None /\ token = None
    /\ userIndex = 0 /\ walnutIndex = 0
    /\ db = [joined_at |-> None, entity_index |-> None, users_count |-> 0, total_users |-> 0]

-----------------------------------------------------------------------------
Known(store) == {a \in Accounts : store[a] > 0}

\* One candidate per account that an event of a prioritised source names.
Candidates(priority) ==
    {[rank |-> priority[logs[n].source], ordinal |-> n, position |-> i,
      account |-> IF i = 1 THEN logs[n].first ELSE logs[n].second] :
        n \in {m \in DOMAIN logs : logs[m].source \in DOMAIN priority}, i \in 1..2}

\* The order of the deltas and that of the candidates.
ByOrdinal(c, d) ==
    c.ordinal < d.ordinal \/ (c.ordinal = d.ordinal /\ c.position < d.position)
ByRank(c, d) == c.rank < d.rank \/ (c.rank = d.rank /\ ByOrdinal(c, d))

\* Mutant: an account is selected again for each event that names it.
SelectedEachTime(priority, known) ==
    {c \in Candidates(priority) : c.account \notin known}

\* Mutant: the store replaces what it holds.
SelectedAgain(priority, known) ==
    {c \in Candidates(priority) :
        \A d \in Candidates(priority) : d.account = c.account => ~ByRank(d, c)}

\* The first candidate, by priority and ordinal, of every unknown account:
\* the deltas of the store for this block.
Selected(priority, known) ==
    LET candidates == Candidates(priority)
    IN  {c \in candidates :
            /\ c.account \notin known
            /\ \A d \in candidates : d.account = c.account => ~ByRank(d, c)}

Registered(store, selected) ==
    [a \in Accounts |-> IF \E c \in selected : c.account = a THEN block ELSE store[a]]

\* The deltas that come after each one.
LaterByOrdinal(selected) == [c \in selected |-> {d \in selected : ByOrdinal(c, d)}]
LaterByRank(selected) == [c \in selected |-> {d \in selected : ByRank(c, d)}]

\* The rows take consecutive indexes, the last one the counter's value.
Assigned(later, last, index) ==
    [a \in Accounts |->
        IF \E c \in DOMAIN later : c.account = a
        THEN last - Cardinality(later[CHOOSE c \in DOMAIN later : c.account = a])
        ELSE index[a]]

\* Mutant: the token store does not ask the pre-Walnut store.
KnownToTokenWalnutOnly(newPre, newWalnut) == Known(token) \cup Known(newWalnut)

\* get_last of both stores: what this block adds to them counts.
KnownToToken(newPre, newWalnut) == Known(token) \cup Known(newPre) \cup Known(newWalnut)

\* The accounts that ensure_account is called with.
Mentioned ==
    UNION {{logs[n].first, logs[n].second} :
             n \in {m \in DOMAIN logs :
                      logs[m].source \in {"ipshare", "community", "walnut", "admin", "additive"}}}

\* Mutant: the row's joined_at follows the last registration.
JoinedAtLast(registered) ==
    [a \in Accounts |->
        IF a \in Mentioned \cup registered THEN block ELSE db.joined_at[a]]

\* set_if_null, by ensure_account and by the registrations.
JoinedAt(registered) ==
    [a \in Accounts |->
        IF a \in Mentioned \cup registered /\ db.joined_at[a] = 0
        THEN block ELSE db.joined_at[a]]

AdditiveLogs(a) ==
    {n \in DOMAIN logs : logs[n].source = "additive" /\ a \in {logs[n].first, logs[n].second}}

\* Mutant: the additive streams set the index.
AdditivelySet ==
    [a \in Accounts |-> IF AdditiveLogs(a) # {} THEN AdditiveIndex(Min(AdditiveLogs(a)))
                                              ELSE db.entity_index[a]]

\* ensure_additive_account, init_account: set_if_null, which leaves a row that
\* an earlier block inserted at least its default index, 0.
Additively ==
    [a \in Accounts |-> IF AdditiveLogs(a) # {} /\ db.joined_at[a] = 0
                        THEN AdditiveIndex(Min(AdditiveLogs(a))) ELSE db.entity_index[a]]

-----------------------------------------------------------------------------
AddLog(source, first, second) ==
    /\ Len(logs) < MaxLogs
    /\ block + Len(logs) <= MaxBlocks
    /\ first = second \/ source \in TwoParties
    /\ logs' = Append(logs, [source |-> source, first |-> first, second |-> second])
    /\ UNCHANGED <<block, stores, db>>

(***************************************************************************)
(* The stores in their dependency order, then the writer's rows: the       *)
(* pre-Walnut deltas by ordinal, the token deltas by ordinal, and, with    *)
(* their own counter, the Walnut deltas by priority and ordinal.           *)
(***************************************************************************)
EndBlock ==
    /\ logs # <<>>
    /\ LET newPre == Selected(PrePriority, Known(pre))
           pre1 == Registered(pre, newPre)
           newWalnut == Selected(WalnutPriority, Known(pre1) \cup Known(walnut))
           walnut1 == Registered(walnut, newWalnut)
           newToken == Selected(TokenPriority, KnownToToken(pre1, walnut1))
           preLast == userIndex' - Cardinality(newToken)
           registered == {c.account : c \in newPre \cup newWalnut \cup newToken}
       IN  /\ pre' = pre1
           /\ walnut' = walnut1
           /\ token' = Registered(token, newToken)
           /\ userIndex' = userIndex + Cardinality(newPre) + Cardinality(newToken)
           /\ walnutIndex' = walnutIndex + Cardinality(newWalnut)
           /\ db' = [joined_at |-> JoinedAt(registered),
                     entity_index |->
                       Assigned(LaterByRank(newWalnut), walnutIndex',
                           Assigned(LaterByOrdinal(newToken), userIndex',
                               Assigned(LaterByOrdinal(newPre), preLast, Additively))),
                     users_count |-> db.users_count + Cardinality(newPre) + Cardinality(newToken),
                     total_users |-> db.total_users + Cardinality(newWalnut)]
    /\ logs' = <<>>
    /\ block' = block + 1

RegistryNext ==
    \/ \E s \in Sources, a, b \in Accounts : AddLog(s, a, b)
    \/ EndBlock

RegistrySpec == RegistryInit /\ [][RegistryNext]_registryVars

-----------------------------------------------------------------------------
(***************************************************************************)
(* The user counts are those of the registrations, and the accounts rows   *)
(* that carry a user index, like those that carry a Walnut index, carry    *)
(* different ones, none beyond the count, whatever streams wrote the row   *)
(* before or after; a row that nobody registered carries no such index.    *)
(* (A row carries the index of its pre-Walnut registration if it has one,  *)
(* else of its Walnut one.)                                                *)
(***************************************************************************)
UserRows == Known(pre) \cup (Known(token) \ Known(walnut))
WalnutRows == Known(walnut) \ Known(pre)

IndexesIdentify ==
    /\ db.users_count = Cardinality(Known(pre)) + Cardinality(Known(token))
    /\ db.total_users = Cardinality(Known(walnut))
    /\ \A a \in UserRows : db.entity_index[a] \in 1..db.users_count
    /\ \A a \in WalnutRows : db.entity_index[a] \in 1..db.total_users
    /\ \A a, b \in UserRows : a # b => db.entity_index[a] # db.entity_index[b]
    /\ \A a, b \in WalnutRows : a # b => db.entity_index[a] # db.entity_index[b]
    /\ \A a \in Accounts \ (UserRows \cup WalnutRows) :
          db.entity_index[a] = 0 \/ db.entity_index[a] > 1000000

(***************************************************************************)
(* An account is counted twice only in one order: by a store that skips    *)
(* what the other knows, in a strictly earlier block.  Never by two stores *)
(* in one block, whatever the order of the block's logs.                   *)
(***************************************************************************)
CountedTwiceOnlyBackwards ==
    \A a \in Accounts :
        /\ pre[a] > 0 /\ token[a] > 0 => token[a] < pre[a]
        /\ pre[a] > 0 /\ walnut[a] > 0 => walnut[a] < pre[a]
        /\ walnut[a] > 0 /\ token[a] > 0 => token[a] < walnut[a]

(***************************************************************************)
(* A registered account has a row that says it joined, and no later than   *)
(* any of its registrations.                                               *)
(***************************************************************************)
JoinedBeforeRegistered ==
    \A a \in Accounts :
        \A t \in {pre[a], walnut[a], token[a]} \ {0} : db.joined_at[a] \in 1..t

(***************************************************************************)
(* Once the pre-Walnut store knows an account its row keeps its index,     *)
(* which the consumers that page by entity_index have read.                *)
(***************************************************************************)
PreIndexIsFinal ==
    [][\A a \in Known(pre) : db'.entity_index[a] = db.entity_index[a]]_registryVars
=============================================================================

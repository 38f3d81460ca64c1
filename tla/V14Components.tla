---------------------------- MODULE V14Components ----------------------------
(***************************************************************************)
(* A V14 token beyond its curve: its index's components, each with a pair  *)
(* and a staking pool, and the buyback paid from its swaps' fees.  Its     *)
(* logs come from three contracts, the Pump, the hook (both at known       *)
(* addresses) and the token itself, known from its NewToken.  The maps     *)
(* read them apart; v14_core_db_out puts them in one order again and looks *)
(* pairs up in store_v14_components at the place of each log.              *)
(***************************************************************************)
EXTENDS Integers, Sequences, FiniteSets, FiniteSetsExt, Functions

CONSTANTS
    Tokens,     \* addresses that may become V14 tokens
    Assets,     \* approved constituents
    Stranger,   \* a contract that emits like a token and is none
    MaxLogs,    \* bound on the logs of a block
    MaxHistory  \* bound on the logs of the chain

Pairs == Tokens \X Assets

VARIABLES
    born,       \* tokens the Pump has announced
    paired,     \* component pairs that exist
    linked,     \* per pair: "no", or its staking pool was linked "early"
                \* (before the pair's log) or "late"
    taxed,      \* per pair, the tax it has burned
    buyback,    \* per token: fees received, spent, index tokens bought, notified, claimed
    logs,       \* the open block
    committed,  \* number of logs in the committed blocks
    addresses,  \* store_v14_addresses
    components, \* store_v14_components, the pairs it has
    halted,     \* has v14_core_db_out panicked?
    db          \* token_components, pairs, token_buyback_states

chain == <<born, paired, linked, taxed, buyback>>
stores == <<addresses, components>>
vars == <<chain, logs, committed, stores, halted, db>>

NoBuyback == [fees |-> 0, spent |-> 0, bought |-> 0, notified |-> 0, claimed |-> 0]
\* A buyback with its reserve.
Funded(reserve, b) ==
    [native_reserve |-> reserve, fees |-> b.fees, spent |-> b.spent, bought |-> b.bought,
     notified |-> b.notified, claimed |-> b.claimed]
NoComponent == [configured |-> FALSE, pair |-> FALSE, pool |-> FALSE, tax |-> 0]

Init ==
    /\ born = {} /\ paired = {}
    /\ linked = [p \in Pairs |-> "no"] /\ taxed = [p \in Pairs |-> 0]
    /\ buyback = [t \in Tokens |-> NoBuyback]
    /\ logs = <<>> /\ committed = 0
    /\ addresses = {} /\ components = {}
    /\ halted = FALSE
    /\ db = [components |-> [p \in Pairs |-> NoComponent],
             pools |-> {},
             states |-> [t \in Tokens |-> Funded(0, NoBuyback)]]

-----------------------------------------------------------------------------
(***************************************************************************)
(* The contracts.  A block may repeat a log; it keeps its log index, "id". *)
(***************************************************************************)
LogOf(kind, source, pair, amount) ==
    [kind |-> kind, source |-> source, pair |-> pair, amount |-> amount, id |-> Len(logs) + 1]

EmitLog(log) ==
    /\ Len(logs) < MaxLogs
    /\ committed + Len(logs) < MaxHistory
    /\ logs' = Append(logs, log)
    /\ UNCHANGED <<committed, stores, halted, db>>

\* Some pair, for the logs that are about a token.
SomePair(t) == <<t, CHOOSE a \in Assets : TRUE>>

\* NewToken, with which the Pump also configures the index.
Create(t) ==
    /\ t \notin born
    /\ born' = born \cup {t}
    /\ EmitLog(LogOf("NewToken", "pump", SomePair(t), 0))
    /\ UNCHANGED <<paired, linked, taxed, buyback>>

CreatePair(p) ==
    /\ p[1] \in born /\ p \notin paired
    /\ paired' = paired \cup {p}
    /\ EmitLog(LogOf("ComponentPairCreated", p[1], p, 0))
    /\ UNCHANGED <<born, linked, taxed, buyback>>

LinkPool(p) ==
    /\ p[1] \in born /\ linked[p] = "no"
    /\ linked' = [linked EXCEPT ![p] = IF p \in paired THEN "late" ELSE "early"]
    /\ EmitLog(LogOf("NutboxStakingPoolLinked", "pump", p, 0))
    /\ UNCHANGED <<born, paired, taxed, buyback>>

BurnTax(p) ==
    /\ p \in paired
    /\ taxed' = [taxed EXCEPT ![p] = @ + 1]
    /\ EmitLog(LogOf("ComponentPoolTaxBurned", p[1], p, 1))
    /\ UNCHANGED <<born, paired, linked, buyback>>

\* Another contract names a pair.
Forge(kind, p) ==
    /\ EmitLog(LogOf(kind, Stranger, p, 1))
    /\ UNCHANGED chain

CollectFee(t, amount) ==
    /\ t \in born
    /\ buyback' = [buyback EXCEPT ![t].fees = @ + amount]
    /\ EmitLog(LogOf("SwapFeeCollected", "hook", SomePair(t), amount))
    /\ UNCHANGED <<born, paired, linked, taxed>>

\* Spends a part of the reserve on one index token.
Execute(t, amount) ==
    /\ amount <= buyback[t].fees - buyback[t].spent
    /\ buyback' = [buyback EXCEPT ![t].spent = @ + amount, ![t].bought = @ + 1]
    /\ EmitLog(LogOf("BuybackExecuted", "hook", SomePair(t), amount))
    /\ UNCHANGED <<born, paired, linked, taxed>>

Notify(t) ==
    /\ buyback[t].notified < buyback[t].bought
    /\ buyback' = [buyback EXCEPT ![t].notified = @ + 1]
    /\ EmitLog(LogOf("BuybackRewardNotified", t, SomePair(t), 1))
    /\ UNCHANGED <<born, paired, linked, taxed>>

Claim(t) ==
    /\ buyback[t].claimed < buyback[t].notified
    /\ buyback' = [buyback EXCEPT ![t].claimed = @ + 1]
    /\ EmitLog(LogOf("BuybackRewardClaimed", t, SomePair(t), 1))
    /\ UNCHANGED <<born, paired, linked, taxed>>

Repeat ==
    /\ logs # <<>>
    /\ EmitLog(logs[Len(logs)])
    /\ UNCHANGED chain

-----------------------------------------------------------------------------
\* static_events: the logs of the contracts at known addresses.
Static(n) == logs[n].source \in {"pump", "hook"}

\* Mutant: a token is known in the block after its NewToken.
DynamicInStore(n) == logs[n].source \in addresses

\* dynamic_events: those of tokens known before the block, or announced in it
\* before the log.
Dynamic(n) ==
    \/ logs[n].source \in addresses
    \/ \E m \in 1..(n - 1) : logs[m].kind = "NewToken" /\ logs[m].pair[1] = logs[n].source

\* Mutant: log indexes are not looked at.
FirstOfAll(n) == TRUE

\* normalize: of the logs with one index, the first.
FirstOf(n) == \A m \in 1..(n - 1) : logs[m].id # logs[n].id

Of(kind) == {n \in DOMAIN logs : logs[n].kind = kind /\ FirstOf(n) /\ (Static(n) \/ Dynamic(n))}

\* Mutant: the store as the block found it.
ComponentAtStart(n) == logs[n].pair \in components

\* components.get_at(ordinal, pair): has it the pair at the n-th log?
ComponentAt(n) ==
    \/ logs[n].pair \in components
    \/ \E m \in Of("ComponentPairCreated") : m <= n /\ logs[m].pair = logs[n].pair

About(kind, p) == {n \in Of(kind) : logs[n].pair = p}
AboutToken(kind, t) == {n \in Of(kind) : logs[n].pair[1] = t}
Total(S) == SumFunctionOnSet([n \in DOMAIN logs |-> logs[n].amount], S)

Panics == \E n \in Of("ComponentPoolTaxBurned") : ~ComponentAt(n)

\* IndexConfigured writes a component's row with its target weight.
Configured(p) == db.components[p].configured \/ AboutToken("NewToken", p[1]) # {}

\* NutboxStakingPoolLinked writes the pair's row, and the component's if the
\* store knows the pair.
PoolLinks == {logs[n].pair : n \in Of("NutboxStakingPoolLinked")}
ComponentLinked(p) ==
    db.components[p].pool \/ \E n \in About("NutboxStakingPoolLinked", p) : ComponentAt(n)

\* token_components: each event sets or adds to columns of its own.
ComponentRow(p) ==
    LET row == db.components[p]
    IN  [configured |-> Configured(p),
         pair |-> row.pair \/ About("ComponentPairCreated", p) # {},
         pool |-> ComponentLinked(p),
         tax  |-> row.tax + Total(About("ComponentPoolTaxBurned", p))]

\* Mutant: an execution empties the reserve.
ReserveReset(t) ==
    IF AboutToken("BuybackExecuted", t) = {}
    THEN db.states[t].native_reserve + Total(AboutToken("SwapFeeCollected", t))
    ELSE Total({n \in AboutToken("SwapFeeCollected", t) : n > Max(AboutToken("BuybackExecuted", t))})

\* native_reserve: fees are added, what was spent is taken off.
Reserve(t) ==
    db.states[t].native_reserve + Total(AboutToken("SwapFeeCollected", t))
                                - Total(AboutToken("BuybackExecuted", t))

StateRow(t) ==
    LET row == db.states[t]
    IN  [native_reserve |-> Reserve(t),
         fees     |-> row.fees + Total(AboutToken("SwapFeeCollected", t)),
         spent    |-> row.spent + Total(AboutToken("BuybackExecuted", t)),
         bought   |-> row.bought + Cardinality(AboutToken("BuybackExecuted", t)),
         notified |-> row.notified + Total(AboutToken("BuybackRewardNotified", t)),
         claimed  |-> row.claimed + Total(AboutToken("BuybackRewardClaimed", t))]

EndBlock ==
    /\ logs # <<>> /\ ~halted
    /\ halted' = Panics
    /\ IF Panics THEN UNCHANGED db
       ELSE db' = [components |-> [p \in Pairs |-> ComponentRow(p)],
                   pools |-> db.pools \cup PoolLinks,
                   states |-> [t \in Tokens |-> StateRow(t)]]
    /\ addresses' = addresses \cup {logs[n].pair[1] : n \in Of("NewToken")}
    /\ components' = components \cup {logs[n].pair : n \in Of("ComponentPairCreated")}
    /\ committed' = committed + Len(logs)
    /\ logs' = <<>>
    /\ UNCHANGED chain

Next ==
    \/ \E t \in Tokens : Create(t)
    \/ \E p \in Pairs : CreatePair(p)
    \/ \E p \in Pairs : LinkPool(p)
    \/ \E p \in Pairs : BurnTax(p)
    \/ \E kind \in {"ComponentPairCreated", "ComponentPoolTaxBurned"}, p \in Pairs : Forge(kind, p)
    \/ \E t \in Tokens, amount \in 1..2 : CollectFee(t, amount)
    \/ \E t \in Tokens, amount \in 1..2 : Execute(t, amount)
    \/ \E t \in Tokens : Notify(t)
    \/ \E t \in Tokens : Claim(t)
    \/ Repeat
    \/ EndBlock

Spec == Init /\ [][Next]_vars

-----------------------------------------------------------------------------
(***************************************************************************)
(* Between blocks the components and buyback rows are those of the         *)
(* contracts, through pairs created, linked and taxed in one block,        *)
(* repeated logs and forged ones.  A staking pool is always with its pair, *)
(* and with the component if the pair's log came before the link's.  The   *)
(* expect on a taxed pair never panics.                                    *)
(***************************************************************************)
ComponentsFollow ==
    /\ ~halted
    /\ logs = <<>> =>
         /\ db.pools = {p \in Pairs : linked[p] # "no"}
         /\ \A p \in Pairs : db.components[p] =
              [configured |-> p[1] \in born, pair |-> p \in paired,
               pool |-> linked[p] = "late", tax |-> taxed[p]]
         /\ \A t \in Tokens :
              db.states[t] = Funded(buyback[t].fees - buyback[t].spent, buyback[t])
=============================================================================

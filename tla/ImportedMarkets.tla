--------------------------- MODULE ImportedMarkets ---------------------------
(***************************************************************************)
(* Markets of imported tokens: the first wrapper's trades with the V11     *)
(* market rows, the domain of the second wrapper, and the registries of    *)
(* the V11 and V14 contracts.  They share no store and no table, so that a *)
(* behaviour need only run one of them: no step of one can change what     *)
(* another sees.                                                           *)
(***************************************************************************)
EXTENDS Integers, Sequences

CONSTANTS
    Tokens, V2Tokens, Users, NoOne, FeeAddress, Venues, MaxItems, MaxCalls,  \* ImportedTrades, ImportV2
    HelperBlock,
    Registries, RegistryKeys,  \* ProtocolRegistry
    MaxV2Logs, MaxRegistry     \* bounds on the logs of ImportV2 and of ProtocolRegistry

VARIABLES
    running,  \* the part that this behaviour runs
    items, history, subjects, deployers, counter, markets, trades,
    block, v2Logs, v2History, v2Events, v2Markets, v2Trades,
    entries, last, registryLength, registryLogs, registryRows

v1Vars == <<items, history, subjects, deployers, counter, markets, trades>>
v2Vars == <<block, v2Logs, v2History, v2Events, v2Markets, v2Trades>>
registryVars == <<entries, last, registryLength, registryLogs, registryRows>>
importVars == <<running, v1Vars, v2Vars, registryVars>>

V1 == INSTANCE ImportedTrades
V2 == INSTANCE ImportV2 WITH
          Tokens <- V2Tokens, Accounts <- Users, MaxLogs <- MaxV2Logs,
          logs <- v2Logs, history <- v2History, events <- v2Events, markets <- v2Markets, trades <- v2Trades
Registry == INSTANCE ProtocolRegistry WITH
                Keys <- RegistryKeys, MaxLogs <- MaxRegistry,
                length <- registryLength, logs <- registryLogs, rows <- registryRows

ASSUME ImportAssumption ==
    /\ NoOne \notin Users /\ FeeAddress \notin Users
    /\ "V2" \in Venues
    /\ HelperBlock \in Nat \ {0}
    /\ MaxItems \in Nat /\ MaxCalls \in Nat /\ MaxV2Logs \in Nat /\ MaxRegistry \in Nat

ImportInit == running \in {"V1", "V2", "REGISTRY"} /\ V1!Init /\ V2!Init /\ Registry!Init

ImportNext ==
    /\ UNCHANGED running
    /\ \/ running = "V1" /\ UNCHANGED <<v2Vars, registryVars>> /\ V1!Next
       \/ running = "V2" /\ UNCHANGED <<v1Vars, registryVars>> /\ V2!Next
       \/ running = "REGISTRY" /\ UNCHANGED <<v1Vars, v2Vars>> /\ Registry!Next

ImportSpec == ImportInit /\ [][ImportNext]_importVars

-----------------------------------------------------------------------------
\* A trade's row has the amounts of its own call wherever the receipt leaves
\* no doubt, and there is one row for each trade, in chain order.
TradesExact == V1!TradesExact /\ V2!TradesOnce

\* A trade through the first wrapper is credited to the sellsman it names if
\* the IPShare subject is of an earlier block, else to the token's deployer.
SellsmanAttributed == V1!SellsmanAttributed

\* The rows of markets and of registry entries are those of the contracts
\* after any order of announcements, updates, removals and returns, and a pool
\* of trade curation is never taken for a market's social pool.
MarketsFollow == V1!MarketsFollow /\ V2!MarketsFollow /\ Registry!RegistriesFollow
=============================================================================

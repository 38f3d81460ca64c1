---------------------------- MODULE MCTokenMarket ----------------------------
(***************************************************************************)
(* Tokens on their curves, and V14 tokens beyond theirs, in one run: the   *)
(* two write different tables from different stores, so that a behaviour   *)
(* follows one of them.                                                    *)
(***************************************************************************)
EXTENDS TokenMarket, TLC

CONSTANTS Assets, Stranger, MaxHistory14

ASSUME ComponentsAssumption ==
    /\ Assets # {}
    /\ V14Tokens \cap {"pump", "hook"} = {}
    /\ Stranger \notin V14Tokens \cup {"pump", "hook"}

VARIABLES
    part,  \* "curve" or "components"
    born, paired, linked, taxed, buyback, logs14, committed14, addresses14,
    components, halted, db14

V14 == INSTANCE V14Components WITH
    Tokens <- V14Tokens, MaxHistory <- MaxHistory14, logs <- logs14,
    committed <- committed14,
    addresses <- addresses14, db <- db14

vars14 == <<born, paired, linked, taxed, buyback, logs14, committed14,
            addresses14, components, halted, db14>>

MarketInit ==
    /\ Init /\ V14!Init
    /\ part \in {"curve", "components"}

MarketNext ==
    /\ UNCHANGED part
    /\ \/ part = "curve" /\ UNCHANGED vars14 /\ Next
       \/ part = "components" /\ UNCHANGED vars /\ V14!Next

MarketSpec == MarketInit /\ [][MarketNext]_<<part, vars, vars14>>

\* Components and buyback states are those of the contracts.
ComponentsFollow == V14!ComponentsFollow
=============================================================================

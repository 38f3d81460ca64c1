-------------------------- MODULE MCBrokerCreations --------------------------
(***************************************************************************)
(* IndexBroker's stores and rows over blocks, and the metadata of its      *)
(* creations within a receipt, in one run: the second is a part of the map *)
(* that the first takes as given, so that a behaviour follows one of them. *)
(***************************************************************************)
EXTENDS MCIndexBroker

CONSTANTS MaxCalls

VARIABLES
    part,  \* "blocks" or "receipt"
    calls, receipt, creation

Creation == INSTANCE PoolCreations

creationVars == <<calls, receipt, creation>>

BrokerInit ==
    /\ Init /\ Creation!Init
    /\ part \in {"blocks", "receipt"}

BrokerNext ==
    /\ UNCHANGED part
    /\ \/ part = "blocks" /\ UNCHANGED creationVars /\ Next
       \/ part = "receipt" /\ UNCHANGED vars /\ Creation!Next

BrokerSpec == BrokerInit /\ [][BrokerNext]_<<part, vars, creationVars>>

\* Pools and AMMs get the metadata of their own call.
CreationsDescribed == Creation!CreationsDescribed
=============================================================================

---------------------------- MODULE PoolCreations ----------------------------
(***************************************************************************)
(* What a creation's log leaves out.  The level tables of an IndexBroker   *)
(* pool, and the price source of its AMM, are only in the input of the     *)
(* CreatePool call.  The factory map pairs the receipt's creation logs     *)
(* with the transaction's calls by their places: the n-th log is given the *)
(* n-th call that succeeded and whose input it can decode.                 *)
(*                                                                         *)
(* The factory's calls do not nest, so that logs come in the calls' order. *)
(***************************************************************************)
EXTENDS Naturals, Sequences, FiniteSets

CONSTANTS MaxCalls  \* bound on the CreatePool calls of a transaction

VARIABLES
    calls,    \* the transaction's calls of CreatePool, in the order they began
    receipt,  \* the factory's logs; "call" is the call that a log is of
    creation  \* the rows the map makes of them, or <<>>

vars == <<calls, receipt, creation>>

(***************************************************************************)
(* A call fails itself, or succeeds inside a call that reverts, or stands. *)
(* Its input is built by whoever calls: the contract may accept an         *)
(* encoding that the map does not.  With an AMM or not.                    *)
(***************************************************************************)
Fates == {"failed", "undone", "stands"}

Init == calls = <<>> /\ receipt = <<>> /\ creation = <<>>

CreatePool(fate, decodable, amm) ==
    /\ creation = <<>> /\ Len(calls) < MaxCalls
    /\ calls' = Append(calls, [fate |-> fate, decodable |-> decodable])
    /\ LET log(kind) == [kind |-> kind, call |-> Len(calls) + 1]
       IN  receipt' = receipt \o (IF fate # "stands" THEN <<>>
                                  ELSE IF amm THEN <<log("pool"), log("amm")>>
                                  ELSE <<log("pool")>>)
    /\ UNCHANGED creation

\* Another log of the factory.
OtherLog ==
    /\ creation = <<>> /\ Len(receipt) < 2 * MaxCalls
    /\ receipt' = Append(receipt, [kind |-> "other", call |-> 0])
    /\ UNCHANGED <<calls, creation>>

-----------------------------------------------------------------------------
\* Mutant: state_reverted is not looked at.
SucceededItself(c) == calls[c].fate # "failed"

\* Neither status_failed nor status_reverted nor state_reverted.
Succeeded(c) == calls[c].fate = "stands"

\* creation_metas, by the calls they are from, and the one at a place of it.
Metas == {c \in DOMAIN calls : Succeeded(c) /\ calls[c].decodable}
MetaAt(place) ==
    IF place > Cardinality(Metas) THEN 0
    ELSE CHOOSE c \in Metas : Cardinality({d \in Metas : d <= c}) = place

\* Mutant: every log takes the next of creation_metas.
PlaceOfAny(n) == n

\* creation_metas.next() is asked for by the logs of pools only.
Place(n) == Cardinality({m \in 1..n : receipt[m].kind = "pool"})

\* The call whose metadata the n-th log's pool is given, 0 for none.
MetaOf(n) == MetaAt(Place(n))

\* Mutant: the AMM takes the metadata of its place among the AMMs.
PriceSourceByPlace(n) ==
    MetaAt(Cardinality({m \in 1..n : receipt[m].kind = "amm"}))

\* creation_meta_by_pool.get(event.pool).
PriceSource(n) ==
    LET pool == CHOOSE m \in 1..n : receipt[m].kind = "pool" /\ receipt[m].call = receipt[n].call
    IN  MetaOf(pool)

MapCreations ==
    /\ creation = <<>> /\ receipt # <<>>
    /\ creation' = [n \in DOMAIN receipt |->
          CASE receipt[n].kind = "pool"  -> MetaOf(n)
            [] receipt[n].kind = "amm"   -> PriceSource(n)
            [] receipt[n].kind = "other" -> 0]
    /\ UNCHANGED <<calls, receipt>>

Next ==
    \/ \E fate \in Fates, decodable, amm \in BOOLEAN : CreatePool(fate, decodable, amm)
    \/ OtherLog
    \/ MapCreations

Spec == Init /\ [][Next]_vars

-----------------------------------------------------------------------------
\* A pool of the receipt whose call the map cannot decode.
Undecodable(c) == calls[c].fate = "stands" /\ ~calls[c].decodable

(***************************************************************************)
(* No log is given the metadata of a call that did not stand, no two pools *)
(* share one, and a pool and its AMM are given that of their own call      *)
(* until a call of the transaction cannot be decoded: from there on pools  *)
(* are given a later one's.  Without such a call none is without.          *)
(***************************************************************************)
CreationsDescribed ==
    \A n \in DOMAIN creation :
        LET own == receipt[n].call
        IN  /\ creation[n] # 0 => calls[creation[n]].fate = "stands"
            /\ \A m \in DOMAIN creation :
                  m # n /\ receipt[m].kind = receipt[n].kind /\ creation[n] # 0
                      => creation[m] # creation[n]
            /\ \/ creation[n] = own
               \/ /\ \E c \in 1..own : Undecodable(c)
                  /\ creation[n] = 0 \/ creation[n] > own
=============================================================================

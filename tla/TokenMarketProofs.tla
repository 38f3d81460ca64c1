-------------------------- MODULE TokenMarketProofs --------------------------
(***************************************************************************)
(* The invariants of TokenMarket for every finite set of tokens, every     *)
(* amount and blocks of every length below a million logs; and that of     *)
(* V14Components, in the composition that MCTokenMarket runs, for every    *)
(* set of tokens and constituents and blocks of every length.              *)
(***************************************************************************)
EXTENDS MCTokenMarket, FiniteFacts, SequenceTheorems

States == {"NONE", "BONDING_CURVE", "LISTING_PENDING", "LISTED"}
LogKinds == ListingKinds \cup {"Trade", "AntiSnipeInjected", "Swap"}
Log == [kind : LogKinds, token : Tokens, is_buy : BOOLEAN, amount : Nat]
Prices == {"none", "curve", "swap"} \X Int
Counters == {"token", "token_trade", "listed_token"}

TypeInv ==
    /\ state \in [Tokens -> States]
    /\ supply \in [Tokens -> Nat] /\ peak \in [Tokens -> Nat]
    /\ quote \in [Tokens -> Prices]
    /\ logs \in Seq(Log) /\ Len(logs) <= MaxLogs
    /\ committed \in Nat /\ committed + Len(logs) <= MaxHistory
    /\ addresses \subseteq Tokens
    /\ curve \in [Tokens -> Int]
    /\ counters \in [Counters -> Nat]
    /\ block \in Nat /\ block >= FirstBlock
    /\ db.status \in [Tokens -> States]
    /\ db.supply \in [Tokens -> Int] /\ db.max_supply \in [Tokens -> Int]
    /\ db.price \in [Tokens -> Prices]
    /\ db.buy_times \in [Tokens -> Nat] /\ db.sell_times \in [Tokens -> Nat]
    /\ db.token_counts \in Nat /\ db.listed_counts \in Nat

\* A NewToken has announced the token.
Announced(t) == t \in addresses \/ \E m \in DOMAIN logs : logs[m].kind = "NewToken" /\ logs[m].token = t

\* What the open block will make of a token's row is what its contracts have.
TokenPending(t) ==
    /\ SupplyAt(Len(logs), t) = supply[t]
    /\ LastSupply(t) = supply[t]
    /\ MaxSupplyOf(t) = peak[t]
    /\ LastPrice(t) = quote[t]
    /\ LastStatus(t) = state[t]
    /\ state[t] # "NONE" <=> Announced(t)
    /\ Of({"Swap"}, t) # {} => state[t] = "LISTED"

RowsPending == \A t \in Tokens : TokenPending(t)

CountsPending ==
    /\ db.token_counts + Cardinality(Creations) = Cardinality({t \in Tokens : state[t] # "NONE"})
    /\ db.listed_counts + Cardinality(Listings) = Cardinality({t \in Tokens : state[t] = "LISTED"})

LegacyTrades == {r \in db.trades : r.token \in LegacyTokens}

\* The additive rows lie between the first block and the open one, the legacy
\* rows are those the counter has counted.
TradesPlaced ==
    /\ IsFiniteSet(db.trades)
    /\ \A r \in db.trades :
          /\ r.token \in Tokens /\ r.log \in 1..committed /\ r.entity_index \in Nat
          /\ r.token \in AdditiveTokens =>
                FirstBlock * IndexRoom < r.entity_index /\ r.entity_index < block * IndexRoom
          /\ r.token \in LegacyTokens => r.entity_index \in 1..counters["token_trade"]
    /\ counters["token_trade"] <= committed
    /\ Cardinality(LegacyTrades) = counters["token_trade"]

IInv ==
    /\ TypeInv
    /\ RowsPending
    /\ CountsPending
    /\ TradesPlaced
    /\ TradesNumberedOnce

-----------------------------------------------------------------------------
(***************************************************************************)
(* The operators of the module, of any logs instead of the open block's:   *)
(* "known" are the addresses known before, "base" is the supply before,    *)
(* "old" the row's value.                                                  *)
(***************************************************************************)
AcceptedIn(ls, known, n) ==
    \/ ls[n].kind \in {"NewToken", "Swap"}
    \/ ls[n].token \in known
    \/ \E m \in 1..(n - 1) : ls[m].kind = "NewToken" /\ ls[m].token = ls[n].token

OfIn(ls, known, kinds, t) ==
    {n \in DOMAIN ls : ls[n].kind \in kinds /\ ls[n].token = t /\ AcceptedIn(ls, known, n)}

DeltaOf(e) ==
    CASE e.kind = "Trade" -> IF e.is_buy THEN e.amount ELSE -e.amount
      [] e.kind = "AntiSnipeInjected" -> e.amount
      [] OTHER -> 0

Deltas(ls) == [m \in DOMAIN ls |-> DeltaOf(ls[m])]

SupplyIn(ls, known, base, n, t) ==
    base + SumFunctionOnSet(Deltas(ls),
                            {m \in OfIn(ls, known, {"Trade", "AntiSnipeInjected"}, t) : m <= n})

LastSupplyIn(ls, known, base, old, t) ==
    LET own == OfIn(ls, known, {"Trade"}, t)
    IN  IF own = {} THEN old ELSE SupplyIn(ls, known, base, Max(own), t)

MaxSupplyIn(ls, known, base, old, t) ==
    Max({old} \cup {SupplyIn(ls, known, base, n, t) : n \in OfIn(ls, known, {"Trade"}, t)})

PriceIn(ls, known, base, before, n, t) ==
    IF ls[n].kind = "Trade" THEN <<"curve", SupplyIn(ls, known, base, n, t)>>
    ELSE <<"swap", before + n>>

LastPriceIn(ls, known, base, before, old, t) ==
    LET priced == OfIn(ls, known, {"Trade", "Swap"}, t)
        swaps == OfIn(ls, known, {"Swap"}, t)
        trades == OfIn(ls, known, {"Trade"}, t)
    IN  IF priced = {} THEN old
        ELSE IF t \in V14Tokens THEN PriceIn(ls, known, base, before, Max(priced), t)
        ELSE IF swaps # {} THEN PriceIn(ls, known, base, before, Max(swaps), t)
        ELSE PriceIn(ls, known, base, before, Max(trades), t)

LastStatusIn(ls, known, old, t) ==
    LET own == OfIn(ls, known, ListingKinds, t)
    IN  IF own = {} THEN old ELSE StatusOf(ls[Max(own)].kind, old)

ViewsAgree(t) ==
    /\ \A kinds : Of(kinds, t) = OfIn(logs, addresses, kinds, t)
    /\ \A n : SupplyAt(n, t) = SupplyIn(logs, addresses, curve[t], n, t)
    /\ LastSupply(t) = LastSupplyIn(logs, addresses, curve[t], db.supply[t], t)
    /\ MaxSupplyOf(t) = MaxSupplyIn(logs, addresses, curve[t], db.max_supply[t], t)
    /\ LastPrice(t) = LastPriceIn(logs, addresses, curve[t], committed, db.price[t], t)
    /\ LastStatus(t) = LastStatusIn(logs, addresses, db.status[t], t)

\* The operators of the module are those of the open logs.
LEMMA Views == \A t : ViewsAgree(t)
<1> SUFFICES ASSUME NEW t PROVE ViewsAgree(t)
  OBVIOUS
<1>1. ASSUME NEW kinds PROVE Of(kinds, t) = OfIn(logs, addresses, kinds, t)
  BY DEF Of, OfIn, Accepted, AcceptedIn
<1>2. [m \in DOMAIN logs |-> SupplyDelta(m)] = Deltas(logs)
  BY DEF Deltas, SupplyDelta, DeltaOf
<1>3. ASSUME NEW n PROVE SupplyAt(n, t) = SupplyIn(logs, addresses, curve[t], n, t)
  BY <1>1, <1>2 DEF SupplyAt, SupplyIn
<1>4. LastSupply(t) = LastSupplyIn(logs, addresses, curve[t], db.supply[t], t)
  BY <1>1, <1>3 DEF LastSupply, Publishing, LastSupplyIn
<1>5. MaxSupplyOf(t) = MaxSupplyIn(logs, addresses, curve[t], db.max_supply[t], t)
  <2>1. Publishing(t) = OfIn(logs, addresses, {"Trade"}, t)
    BY <1>1 DEF Publishing
  <2>2. {SupplyAt(n, t) : n \in Publishing(t)}
          = {SupplyIn(logs, addresses, curve[t], n, t) : n \in OfIn(logs, addresses, {"Trade"}, t)}
    BY <1>3, <2>1
  <2> QED
    BY <2>2 DEF MaxSupplyOf, MaxSupplyIn
<1>6. ASSUME NEW n PROVE PriceAt(n, t) = PriceIn(logs, addresses, curve[t], committed, n, t)
  BY <1>3 DEF PriceAt, PriceIn
<1>7. LastPrice(t) = LastPriceIn(logs, addresses, curve[t], committed, db.price[t], t)
  BY <1>1, <1>6 DEF LastPrice, LastPriceByKind, LastPriceIn
<1>8. LastStatus(t) = LastStatusIn(logs, addresses, db.status[t], t)
  BY <1>1 DEF LastStatus, LastStatusIn
<1> QED
  BY <1>1, <1>3, <1>4, <1>5, <1>7, <1>8 DEF ViewsAgree

-----------------------------------------------------------------------------
AnnouncedIn(ls, known, t) ==
    t \in known \/ \E m \in DOMAIN ls : ls[m].kind = "NewToken" /\ ls[m].token = t

\* One more log is accepted, and it is the token's.
Takes(ls, known, e, t) ==
    /\ e.token = t
    /\ e.kind \in {"NewToken", "Swap"} \/ AnnouncedIn(ls, known, t)

\* One more log leaves the earlier ones where they are.
LEMMA LogsAre ==
    ASSUME NEW ls \in Seq(Log), NEW e \in Log
    PROVE  /\ Len(ls) \in Nat /\ DOMAIN ls = 1..Len(ls)
           /\ \A i \in 1..Len(ls) : ls[i] \in Log /\ Append(ls, e)[i] = ls[i]
           /\ DOMAIN Append(ls, e) = 1..(Len(ls) + 1)
           /\ Append(ls, e)[Len(ls) + 1] = e
           /\ Append(ls, e) \in Seq(Log)
           /\ Len(Append(ls, e)) = Len(ls) + 1
OBVIOUS

\* The logs of a token are positions of the block.
LEMMA OfType ==
    ASSUME NEW ls \in Seq(Log), NEW known, NEW kinds, NEW t
    PROVE  /\ OfIn(ls, known, kinds, t) \subseteq 1..Len(ls)
           /\ IsFiniteSet(OfIn(ls, known, kinds, t))
<1>1. OfIn(ls, known, kinds, t) \subseteq 1..Len(ls) /\ Len(ls) \in Nat
  BY DEF OfIn
<1>2. IsFiniteSet(1..Len(ls))
  BY <1>1, FS_Interval
<1> QED
  BY <1>1, <1>2, FS_Subset

\* One more log is added to those of its kind and token if it is accepted;
\* it makes no difference to the logs before it.
LEMMA AppendOf ==
    ASSUME NEW ls \in Seq(Log), NEW e \in Log, NEW known, NEW kinds, NEW t
    PROVE  OfIn(Append(ls, e), known, kinds, t)
             = OfIn(ls, known, kinds, t)
               \cup (IF e.kind \in kinds /\ Takes(ls, known, e, t) THEN {Len(ls) + 1} ELSE {})
<1>1. PICK more : more = Append(ls, e)
  OBVIOUS
<1>2. PICK len \in Nat : len = Len(ls)
  OBVIOUS
<1>3. /\ DOMAIN ls = 1..len /\ DOMAIN more = 1..(len + 1)
      /\ \A i \in 1..len : more[i] = ls[i]
      /\ more[len + 1] = e
  BY <1>1, <1>2, LogsAre
<1>4. ASSUME NEW n \in 1..len PROVE AcceptedIn(more, known, n) <=> AcceptedIn(ls, known, n)
  <2>1. \A m \in 1..(n - 1) : m \in 1..len
    OBVIOUS
  <2> QED
    BY <1>3, <2>1 DEF AcceptedIn
<1>5. ASSUME e.token = t
      PROVE  AcceptedIn(more, known, len + 1) <=> Takes(ls, known, e, t)
  <2>1. (len + 1) - 1 = len
    OBVIOUS
  <2> QED
    BY <1>3, <1>5, <2>1 DEF AcceptedIn, Takes, AnnouncedIn
<1>6. 1..(len + 1) = (1..len) \cup {len + 1} /\ len + 1 \notin 1..len
  OBVIOUS
<1>7. \A n \in 1..len : n \in OfIn(more, known, kinds, t) <=> n \in OfIn(ls, known, kinds, t)
  BY <1>3, <1>4, <1>6 DEF OfIn
<1>8. len + 1 \in OfIn(more, known, kinds, t) <=> e.kind \in kinds /\ Takes(ls, known, e, t)
  <2>1. len + 1 \in OfIn(more, known, kinds, t)
          <=> e.kind \in kinds /\ e.token = t /\ AcceptedIn(more, known, len + 1)
    BY <1>3, <1>6 DEF OfIn
  <2>2. Takes(ls, known, e, t) => e.token = t
    BY DEF Takes
  <2> QED
    BY <1>5, <2>1, <2>2
<1>9. /\ OfIn(more, known, kinds, t) \subseteq 1..(len + 1)
      /\ OfIn(ls, known, kinds, t) \subseteq 1..len
  BY <1>3 DEF OfIn
<1> QED
  BY <1>1, <1>2, <1>6, <1>7, <1>8, <1>9

\* What a log is worth to the supply.
LEMMA DeltaType ==
    ASSUME NEW e \in Log
    PROVE  /\ DeltaOf(e) \in Int
           /\ e.kind \notin {"Trade", "AntiSnipeInjected"} => DeltaOf(e) = 0
BY DEF DeltaOf, Log

\* The supply after each of the earlier logs stays, and the new one adds what
\* it is worth.
LEMMA AppendSupply ==
    ASSUME NEW ls \in Seq(Log), NEW e \in Log, NEW known, NEW base \in Int, NEW t
    PROVE  /\ \A n \in 0..Len(ls) :
                /\ SupplyIn(ls, known, base, n, t) \in Int
                /\ SupplyIn(Append(ls, e), known, base, n, t) = SupplyIn(ls, known, base, n, t)
           /\ Takes(ls, known, e, t) =>
                SupplyIn(Append(ls, e), known, base, Len(ls) + 1, t)
                  = SupplyIn(ls, known, base, Len(ls), t) + DeltaOf(e)
           /\ ~ Takes(ls, known, e, t) =>
                SupplyIn(Append(ls, e), known, base, Len(ls) + 1, t)
                  = SupplyIn(ls, known, base, Len(ls), t)
<1> DEFINE kinds == {"Trade", "AntiSnipeInjected"}
<1>1. PICK more : more = Append(ls, e)
  OBVIOUS
<1>2. PICK len \in Nat : len = Len(ls)
  OBVIOUS
<1>3. /\ DOMAIN ls = 1..len /\ DOMAIN more = 1..(len + 1)
      /\ \A i \in 1..len : ls[i] \in Log /\ more[i] = ls[i]
      /\ more[len + 1] = e
  BY <1>1, <1>2, LogsAre
<1>4. PICK f : f = Deltas(ls)
  OBVIOUS
<1>5. PICK g : g = Deltas(more)
  OBVIOUS
<1>6. /\ \A i \in 1..len : f[i] \in Int /\ g[i] = f[i]
      /\ g[len + 1] = DeltaOf(e) /\ DeltaOf(e) \in Int
  BY <1>3, <1>4, <1>5, DeltaType DEF Deltas
<1>7. PICK own : own = OfIn(ls, known, kinds, t)
  OBVIOUS
<1>8. PICK own2 : own2 = OfIn(more, known, kinds, t)
  OBVIOUS
<1>9. /\ own \subseteq 1..len /\ IsFiniteSet(own)
      /\ own2 = own \cup (IF e.kind \in kinds /\ Takes(ls, known, e, t) THEN {len + 1} ELSE {})
  BY <1>1, <1>2, <1>7, <1>8, OfType, AppendOf
<1>10. ASSUME NEW n \in 0..len
       PROVE  /\ {m \in own2 : m <= n} = {m \in own : m <= n}
              /\ SumFunctionOnSet(g, {m \in own : m <= n}) = SumFunctionOnSet(f, {m \in own : m <= n})
              /\ SumFunctionOnSet(f, {m \in own : m <= n}) \in Int
  <2>1. {m \in own2 : m <= n} = {m \in own : m <= n}
    BY <1>9
  <2> DEFINE T == {m \in own : m <= n}
  <2>2. IsFiniteSet(T) /\ T \subseteq 1..len
    BY <1>9, FS_Subset
  <2> HIDE DEF T
  <2>3. \A x \in T : g[x] = f[x]
    BY <1>6, <2>2
  <2>4. NumericOn(f, T)
    BY <1>6, <2>2 DEF NumericOn
  <2>5. SumFunctionOnSet(g, T) = SumFunctionOnSet(f, T) /\ SumFunctionOnSet(f, T) \in Int
    BY <2>2, <2>3, <2>4, SumSame, SumType
  <2> QED
    BY <2>1, <2>5 DEF T
<1>11. ASSUME NEW n \in 0..len
       PROVE  /\ SupplyIn(ls, known, base, n, t) \in Int
              /\ SupplyIn(more, known, base, n, t) = SupplyIn(ls, known, base, n, t)
  <2>1. /\ SupplyIn(ls, known, base, n, t) = base + SumFunctionOnSet(f, {m \in own : m <= n})
        /\ SupplyIn(more, known, base, n, t) = base + SumFunctionOnSet(g, {m \in own2 : m <= n})
    BY <1>4, <1>5, <1>7, <1>8, Zenon DEF SupplyIn
  <2>2. PICK T : T = {m \in own : m <= n}
    OBVIOUS
  <2>3. {m \in own2 : m <= n} = T
    BY <1>10, <2>2
  <2>4. SumFunctionOnSet(g, T) = SumFunctionOnSet(f, T) /\ SumFunctionOnSet(f, T) \in Int
    BY <1>10, <2>2
  <2>5. /\ SupplyIn(ls, known, base, n, t) = base + SumFunctionOnSet(f, T)
        /\ SupplyIn(more, known, base, n, t) = base + SumFunctionOnSet(g, T)
    BY <2>1, <2>2, <2>3
  <2>6. PICK x \in Int : x = SumFunctionOnSet(f, T)
    BY <2>4
  <2>7. /\ SupplyIn(ls, known, base, n, t) = base + x
        /\ SupplyIn(more, known, base, n, t) = base + x
    BY <2>4, <2>5, <2>6
  <2>8. base + x \in Int
    OBVIOUS
  <2> QED
    BY <2>7, <2>8
<1>12. {m \in own2 : m <= len + 1} = own2 /\ {m \in own : m <= len} = own
  <2>1. \A m \in own : m \in Nat /\ m <= len /\ m <= len + 1
    BY <1>9
  <2>2. \A m \in own2 : m \in own \/ m = len + 1
    BY <1>9
  <2>3. \A m \in own2 : m <= len + 1
    BY <2>1, <2>2
  <2> QED
    BY <2>1, <2>3
<1>13. /\ SupplyIn(ls, known, base, len, t) = base + SumFunctionOnSet(f, own)
       /\ SupplyIn(more, known, base, len + 1, t) = base + SumFunctionOnSet(g, own2)
  BY <1>4, <1>5, <1>7, <1>8, <1>12 DEF SupplyIn
<1>14. /\ SumFunctionOnSet(f, own) \in Int
       /\ SumFunctionOnSet(g, own) = SumFunctionOnSet(f, own)
  <2>1. len \in 0..len
    OBVIOUS
  <2> QED
    BY <1>10, <1>12, <2>1
<1>15. SumFunctionOnSet(g, own2)
         = SumFunctionOnSet(f, own) + (IF Takes(ls, known, e, t) THEN DeltaOf(e) ELSE 0)
  <2>1. CASE e.kind \in kinds /\ Takes(ls, known, e, t)
    <3>1. own2 = own \cup {len + 1} /\ own2 \ {len + 1} = own /\ len + 1 \in own2
      BY <1>9, <2>1
    <3>2. IsFiniteSet(own2)
      BY <1>9, <3>1, FS_AddElement
    <3>3. NumericOn(g, own2)
      <4>1. \A i \in own2 : g[i] \in Int
        BY <1>6, <1>9, <3>1
      <4> QED
        BY <4>1 DEF NumericOn
    <3>4. SumFunctionOnSet(g, own2) = g[len + 1] + SumFunctionOnSet(g, own)
      BY <3>1, <3>2, <3>3, SumElement
    <3> QED
      BY <1>6, <1>14, <2>1, <3>4
  <2>2. CASE e.kind \in kinds /\ ~ Takes(ls, known, e, t)
    BY <1>9, <1>14, <2>2
  <2>3. CASE e.kind \notin kinds
    BY <1>9, <1>14, <2>3, DeltaType
  <2> QED
    BY <2>1, <2>2, <2>3
<1>16. SupplyIn(more, known, base, len + 1, t)
         = SupplyIn(ls, known, base, len, t) + (IF Takes(ls, known, e, t) THEN DeltaOf(e) ELSE 0)
  BY <1>6, <1>13, <1>14, <1>15
<1> QED
  BY <1>1, <1>2, <1>11, <1>16

-----------------------------------------------------------------------------
\* A log of no use for these kinds and this token changes nothing of theirs.
LEMMA AppendNone ==
    ASSUME NEW ls \in Seq(Log), NEW e \in Log, NEW known, NEW kinds, NEW t,
           ~ (e.kind \in kinds /\ Takes(ls, known, e, t))
    PROVE  OfIn(Append(ls, e), known, kinds, t) = OfIn(ls, known, kinds, t)
<1>1. OfIn(Append(ls, e), known, kinds, t)
        = OfIn(ls, known, kinds, t)
          \cup (IF e.kind \in kinds /\ Takes(ls, known, e, t) THEN {Len(ls) + 1} ELSE {})
  BY AppendOf
<1> QED
  BY <1>1

\* The position of one more log is the last.
LEMMA LastIsNew ==
    ASSUME NEW len \in Nat, NEW own, own \subseteq 1..len
    PROVE  Max(own \cup {len + 1}) = len + 1
<1>1. PICK next \in Nat : next = len + 1
  OBVIOUS
<1>2. PICK more : more = own \cup {next}
  OBVIOUS
<1>3. more \subseteq 1..next /\ more # {} /\ next \in more
  BY <1>1, <1>2
<1>4. PICK m : m = Max(more)
  OBVIOUS
<1>5. m \in more /\ \A i \in more : i <= m
  BY <1>3, <1>4, GreatestPosition
<1>6. m = next
  BY <1>3, <1>5
<1> QED
  BY <1>1, <1>2, <1>4, <1>6

\* A log that is not a trade of the token leaves its supply and maximum.
LEMMA SupplyKept ==
    ASSUME NEW ls \in Seq(Log), NEW e \in Log, NEW known, NEW base \in Int, NEW t, NEW old,
           ~ (e.kind = "Trade" /\ Takes(ls, known, e, t))
    PROVE  /\ LastSupplyIn(Append(ls, e), known, base, old, t) = LastSupplyIn(ls, known, base, old, t)
           /\ MaxSupplyIn(Append(ls, e), known, base, old, t) = MaxSupplyIn(ls, known, base, old, t)
<1>1. PICK more : more = Append(ls, e)
  OBVIOUS
<1>2. PICK own : own = OfIn(ls, known, {"Trade"}, t)
  OBVIOUS
<1>3. OfIn(more, known, {"Trade"}, t) = own
  <2>1. ~ (e.kind \in {"Trade"} /\ Takes(ls, known, e, t))
    OBVIOUS
  <2> QED
    BY <1>1, <1>2, <2>1, AppendNone
<1>4. own \subseteq 1..Len(ls) /\ Len(ls) \in Nat
  BY <1>2, OfType, LogsAre
<1>5. \A n \in own : SupplyIn(more, known, base, n, t) = SupplyIn(ls, known, base, n, t)
  <2>1. \A n \in own : n \in 0..Len(ls)
    BY <1>4
  <2> QED
    BY <1>1, <2>1, AppendSupply
<1>6. own # {} => Max(own) \in own
  BY <1>4, GreatestPosition
<1>7. LastSupplyIn(more, known, base, old, t) = LastSupplyIn(ls, known, base, old, t)
  BY <1>2, <1>3, <1>5, <1>6 DEF LastSupplyIn
<1>8. {SupplyIn(more, known, base, n, t) : n \in own} = {SupplyIn(ls, known, base, n, t) : n \in own}
  BY <1>5
<1>9. MaxSupplyIn(more, known, base, old, t) = MaxSupplyIn(ls, known, base, old, t)
  BY <1>2, <1>3, <1>8 DEF MaxSupplyIn
<1> QED
  BY <1>1, <1>7, <1>9

\* A trade of the token publishes the supply after it.
LEMMA SupplyPublished ==
    ASSUME NEW ls \in Seq(Log), NEW e \in Log, NEW known, NEW base \in Int, NEW t,
           NEW old \in Int, e.kind = "Trade", Takes(ls, known, e, t)
    PROVE  /\ LastSupplyIn(Append(ls, e), known, base, old, t)
                = SupplyIn(Append(ls, e), known, base, Len(Append(ls, e)), t)
           /\ MaxSupplyIn(Append(ls, e), known, base, old, t)
                = IF MaxSupplyIn(ls, known, base, old, t)
                       < SupplyIn(Append(ls, e), known, base, Len(Append(ls, e)), t)
                  THEN SupplyIn(Append(ls, e), known, base, Len(Append(ls, e)), t)
                  ELSE MaxSupplyIn(ls, known, base, old, t)
<1>more. PICK more : more = Append(ls, e)
  OBVIOUS
<1>after. PICK after : after = SupplyIn(more, known, base, Len(more), t)
  OBVIOUS
<1>1. PICK len \in Nat : len = Len(ls)
  OBVIOUS
<1>2. PICK own : own = OfIn(ls, known, {"Trade"}, t)
  OBVIOUS
<1>3. OfIn(more, known, {"Trade"}, t) = own \cup {len + 1}
  BY <1>1, <1>2, <1>more, AppendOf
<1>4. own \subseteq 1..len /\ IsFiniteSet(own) /\ Len(more) = len + 1
  BY <1>1, <1>2, <1>more, OfType, LogsAre
<1>5. /\ \A n \in 0..len : /\ SupplyIn(ls, known, base, n, t) \in Int
                           /\ SupplyIn(more, known, base, n, t) = SupplyIn(ls, known, base, n, t)
      /\ SupplyIn(more, known, base, len + 1, t)
           = SupplyIn(ls, known, base, len, t) + DeltaOf(e)
  <2>1. PICK S : S = 0..len
    OBVIOUS
  <2>2. \A n \in S : n \in 0..Len(ls)
    BY <1>1, <2>1
  <2>3. \A n \in S : SupplyIn(ls, known, base, n, t) \in Int
    BY <2>2, AppendSupply
  <2>5. \A n \in S : SupplyIn(more, known, base, n, t) = SupplyIn(ls, known, base, n, t)
    BY <1>more, <2>2, AppendSupply
  <2>4. SupplyIn(more, known, base, Len(ls) + 1, t) = SupplyIn(ls, known, base, Len(ls), t) + DeltaOf(e)
    BY <1>more, AppendSupply
  <2> QED
    BY <1>1, <2>1, <2>3, <2>4, <2>5
<1>6. after \in Int /\ after = SupplyIn(more, known, base, len + 1, t)
  <2>1. len \in 0..len /\ DeltaOf(e) \in Int
    BY DeltaType
  <2> QED
    BY <1>4, <1>5, <1>after, <2>1
<1>7. Max(own \cup {len + 1}) = len + 1
  BY <1>4, LastIsNew
<1>8. LastSupplyIn(more, known, base, old, t) = after
  BY <1>3, <1>6, <1>7 DEF LastSupplyIn
<1>9. PICK S : S = {old} \cup {SupplyIn(ls, known, base, n, t) : n \in own}
  OBVIOUS
<1>10. S \subseteq Int /\ S # {} /\ IsFiniteSet(S)
  <2>1. \A n \in own : n \in 0..len
    BY <1>4
  <2>2. S \subseteq Int /\ S # {}
    BY <1>5, <1>9, <2>1
  <2>3. PICK P : P = {SupplyIn(ls, known, base, n, t) : n \in own}
    OBVIOUS
  <2>4. IsFiniteSet(P)
    <3>1. PICK f : f = [n \in own |-> SupplyIn(ls, known, base, n, t)]
      OBVIOUS
    <3>2. P = {f[n] : n \in own}
      BY <2>3, <3>1
    <3> QED
      BY <1>4, <3>2, FiniteImage
  <2>5. S = P \cup {old}
    BY <1>9, <2>3
  <2> QED
    BY <2>2, <2>4, <2>5, FS_AddElement
<1>11. {old} \cup {SupplyIn(more, known, base, n, t) : n \in own \cup {len + 1}} = S \cup {after}
  <2>1. \A n \in own : SupplyIn(more, known, base, n, t) = SupplyIn(ls, known, base, n, t)
    BY <1>4, <1>5
  <2> QED
    BY <1>6, <1>9, <2>1
<1>12. MaxSupplyIn(more, known, base, old, t) = Max(S \cup {after})
  BY <1>3, <1>11 DEF MaxSupplyIn
<1>13. MaxSupplyIn(ls, known, base, old, t) = Max(S)
  BY <1>2, <1>9 DEF MaxSupplyIn
<1>14. Max(S \cup {after}) = IF Max(S) < after THEN after ELSE Max(S)
  BY <1>6, <1>10, GreatestWith
<1> QED
  BY <1>8, <1>12, <1>13, <1>14, <1>more, <1>after

\* A log that is not a trade or a swap of the token leaves its price.
LEMMA PriceKept ==
    ASSUME NEW ls \in Seq(Log), NEW e \in Log, NEW known, NEW base \in Int, NEW before,
           NEW t, NEW old, ~ (e.kind \in {"Trade", "Swap"} /\ Takes(ls, known, e, t))
    PROVE  LastPriceIn(Append(ls, e), known, base, before, old, t)
             = LastPriceIn(ls, known, base, before, old, t)
<1>1. PICK more : more = Append(ls, e)
  OBVIOUS
<1>9. PICK S : S = 0..Len(ls)
  OBVIOUS
<1>10. \A n \in S : SupplyIn(more, known, base, n, t) = SupplyIn(ls, known, base, n, t)
  <2>1. \A n \in S : n \in 0..Len(ls)
    BY <1>9
  <2> QED
    BY <1>1, <2>1, AppendSupply
<1>2. ASSUME NEW kinds \in SUBSET {"Trade", "Swap"}
      PROVE  /\ OfIn(more, known, kinds, t) = OfIn(ls, known, kinds, t)
             /\ OfIn(ls, known, kinds, t) # {} => Max(OfIn(ls, known, kinds, t)) \in 1..Len(ls)
  <2>1. ~ (e.kind \in kinds /\ Takes(ls, known, e, t))
    OBVIOUS
  <2>2. OfIn(more, known, kinds, t) = OfIn(ls, known, kinds, t)
    BY <1>1, <2>1, AppendNone
  <2>3. OfIn(ls, known, kinds, t) \subseteq 1..Len(ls) /\ Len(ls) \in Nat
    BY OfType, LogsAre
  <2> QED
    BY <2>2, <2>3, GreatestPosition
<1>3. ASSUME NEW n \in 1..Len(ls)
      PROVE  PriceIn(more, known, base, before, n, t) = PriceIn(ls, known, base, before, n, t)
  <2>1. n \in 0..Len(ls) /\ more[n] = ls[n]
    BY <1>1, LogsAre
  <2>2. SupplyIn(more, known, base, n, t) = SupplyIn(ls, known, base, n, t)
    BY <1>9, <1>10, <2>1
  <2> QED
    BY <2>1, <2>2 DEF PriceIn
<1>4. {"Trade", "Swap"} \in SUBSET {"Trade", "Swap"} /\ {"Swap"} \in SUBSET {"Trade", "Swap"}
      /\ {"Trade"} \in SUBSET {"Trade", "Swap"}
  OBVIOUS
<1>5. OfIn(ls, known, {"Trade", "Swap"}, t)
        = OfIn(ls, known, {"Trade"}, t) \cup OfIn(ls, known, {"Swap"}, t)
  BY DEF OfIn
<1>6. LastPriceIn(more, known, base, before, old, t) = LastPriceIn(ls, known, base, before, old, t)
  BY <1>2, <1>3, <1>4, <1>5 DEF LastPriceIn
<1> QED
  BY <1>1, <1>6

\* A swap, or a trade of a token without swaps in the block, leaves its price.
LEMMA PricePublished ==
    ASSUME NEW ls \in Seq(Log), NEW e \in Log, NEW known, NEW base \in Int, NEW before,
           NEW t, NEW old, e.kind \in {"Trade", "Swap"}, Takes(ls, known, e, t),
           e.kind = "Trade" => OfIn(ls, known, {"Swap"}, t) = {}
    PROVE  LastPriceIn(Append(ls, e), known, base, before, old, t)
             = IF e.kind = "Trade"
               THEN <<"curve", SupplyIn(Append(ls, e), known, base, Len(Append(ls, e)), t)>>
               ELSE <<"swap", before + Len(Append(ls, e))>>
<1>more. PICK more : more = Append(ls, e)
  OBVIOUS
<1>1. PICK len \in Nat : len = Len(ls)
  OBVIOUS
<1>2. Len(more) = len + 1 /\ more[len + 1] = e
  BY <1>1, <1>more, LogsAre
<1>3. ASSUME NEW kinds
      PROVE  /\ e.kind \in kinds => /\ OfIn(more, known, kinds, t) # {}
                                    /\ Max(OfIn(more, known, kinds, t)) = len + 1
             /\ e.kind \notin kinds => OfIn(more, known, kinds, t) = OfIn(ls, known, kinds, t)
  <2>1. OfIn(more, known, kinds, t)
          = OfIn(ls, known, kinds, t) \cup (IF e.kind \in kinds THEN {len + 1} ELSE {})
    BY <1>1, <1>more, AppendOf
  <2>2. OfIn(ls, known, kinds, t) \subseteq 1..len
    BY <1>1, OfType
  <2>3. Max(OfIn(ls, known, kinds, t) \cup {len + 1}) = len + 1
    BY <2>2, LastIsNew
  <2> QED
    BY <2>1, <2>3
<1>4. PriceIn(more, known, base, before, len + 1, t)
        = IF e.kind = "Trade" THEN <<"curve", SupplyIn(more, known, base, Len(more), t)>>
          ELSE <<"swap", before + Len(more)>>
  BY <1>2 DEF PriceIn
<1>5. LastPriceIn(more, known, base, before, old, t)
        = PriceIn(more, known, base, before, len + 1, t)
  <2>1. OfIn(more, known, {"Trade", "Swap"}, t) # {}
        /\ Max(OfIn(more, known, {"Trade", "Swap"}, t)) = len + 1
    BY <1>3
  <2>2. CASE e.kind = "Trade"
    <3>1. /\ OfIn(more, known, {"Swap"}, t) = {}
          /\ Max(OfIn(more, known, {"Trade"}, t)) = len + 1
      BY <1>3, <2>2
    <3> QED
      BY <2>1, <3>1 DEF LastPriceIn
  <2>3. CASE e.kind = "Swap"
    <3>1. /\ OfIn(more, known, {"Swap"}, t) # {}
          /\ Max(OfIn(more, known, {"Swap"}, t)) = len + 1
      BY <1>3, <2>3
    <3> QED
      BY <2>1, <3>1 DEF LastPriceIn
  <2> QED
    BY <2>2, <2>3
<1> QED
  BY <1>4, <1>5, <1>more

\* The listing state after one more log.
LEMMA StatusAfter ==
    ASSUME NEW ls \in Seq(Log), NEW e \in Log, NEW known, NEW t, NEW old
    PROVE  LastStatusIn(Append(ls, e), known, old, t)
             = IF e.kind \in ListingKinds /\ Takes(ls, known, e, t) THEN StatusOf(e.kind, old)
               ELSE LastStatusIn(ls, known, old, t)
<1>1. PICK more : more = Append(ls, e)
  OBVIOUS
<1>2. PICK len \in Nat : len = Len(ls)
  OBVIOUS
<1>3. PICK own : own = OfIn(ls, known, ListingKinds, t)
  OBVIOUS
<1>4. /\ more[len + 1] = e
      /\ \A n \in 1..len : more[n] = ls[n]
  BY <1>1, <1>2, LogsAre
<1>5. own \subseteq 1..len /\ Max(own \cup {len + 1}) = len + 1
      /\ (own # {} => Max(own) \in own)
  BY <1>2, <1>3, OfType, LastIsNew, GreatestPosition
<1>6. CASE e.kind \in ListingKinds /\ Takes(ls, known, e, t)
  <2>1. OfIn(more, known, ListingKinds, t) = own \cup {len + 1}
    BY <1>1, <1>2, <1>3, <1>6, AppendOf
  <2>2. LastStatusIn(more, known, old, t) = StatusOf(e.kind, old)
    BY <1>4, <1>5, <2>1 DEF LastStatusIn
  <2> QED
    BY <1>1, <1>6, <2>2
<1>7. CASE ~ (e.kind \in ListingKinds /\ Takes(ls, known, e, t))
  <2>1. OfIn(more, known, ListingKinds, t) = own
    BY <1>1, <1>3, <1>7, AppendNone
  <2>2. own # {} => more[Max(own)] = ls[Max(own)]
    BY <1>4, <1>5
  <2>3. LastStatusIn(more, known, old, t) = LastStatusIn(ls, known, old, t)
    BY <1>3, <2>1, <2>2 DEF LastStatusIn
  <2> QED
    BY <1>1, <1>7, <2>3
<1> QED
  BY <1>6, <1>7

-----------------------------------------------------------------------------
(***************************************************************************)
(* What a token's row will be, "row" the values it has before the block    *)
(* and "con" those of its contracts.                                       *)
(***************************************************************************)
RowIn(ls, known, base, before, row, con, t) ==
    /\ LastSupplyIn(ls, known, base, row.supply, t) = con.supply
    /\ MaxSupplyIn(ls, known, base, row.peak, t) = con.peak
    /\ LastPriceIn(ls, known, base, before, row.quote, t) = con.quote
    /\ LastStatusIn(ls, known, row.state, t) = con.state
    /\ con.state # "NONE" <=> AnnouncedIn(ls, known, t)
    /\ OfIn(ls, known, {"Swap"}, t) # {} => con.state = "LISTED"

PendingIn(ls, known, base, before, row, con, t) ==
    /\ SupplyIn(ls, known, base, Len(ls), t) = con.supply
    /\ RowIn(ls, known, base, before, row, con, t)

RowOf(t) ==
    [supply |-> db.supply[t], peak |-> db.max_supply[t], quote |-> db.price[t], state |-> db.status[t]]

ContractOf(t) == [supply |-> supply[t], peak |-> peak[t], quote |-> quote[t], state |-> state[t]]

TokenRow == [supply : Int, peak : Int, quote : Prices, state : States]

\* A token's part of the invariant is about these.
PendingAgrees ==
    \A t : TokenPending(t)
             <=> PendingIn(logs, addresses, curve[t], committed, RowOf(t), ContractOf(t), t)

\* A token is pending in the sense of the module or of its open logs alike.
LEMMA PendingViews == PendingAgrees
<1> SUFFICES ASSUME NEW t
             PROVE  TokenPending(t) <=> PendingIn(logs, addresses, curve[t], committed,
                                                  RowOf(t), ContractOf(t), t)
  BY DEF PendingAgrees
<1>1. ViewsAgree(t)
  BY Views
<1>2. Announced(t) <=> AnnouncedIn(logs, addresses, t)
  BY DEF Announced, AnnouncedIn
<1>3. /\ RowOf(t).supply = db.supply[t] /\ RowOf(t).peak = db.max_supply[t]
      /\ RowOf(t).quote = db.price[t] /\ RowOf(t).state = db.status[t]
      /\ ContractOf(t).supply = supply[t] /\ ContractOf(t).peak = peak[t]
      /\ ContractOf(t).quote = quote[t] /\ ContractOf(t).state = state[t]
  BY DEF RowOf, ContractOf
<1> QED
  BY <1>1, <1>2, <1>3 DEF ViewsAgree, TokenPending, PendingIn, RowIn

\* A token is announced by its NewToken.
LEMMA AnnouncedAfter ==
    ASSUME NEW ls \in Seq(Log), NEW e \in Log, NEW known, NEW t
    PROVE  AnnouncedIn(Append(ls, e), known, t)
             <=> AnnouncedIn(ls, known, t) \/ (e.kind = "NewToken" /\ e.token = t)
<1>1. PICK more : more = Append(ls, e)
  OBVIOUS
<1>2. PICK len \in Nat : len = Len(ls)
  OBVIOUS
<1>3. /\ DOMAIN ls = 1..len /\ DOMAIN more = (1..len) \cup {len + 1}
      /\ \A i \in 1..len : more[i] = ls[i]
      /\ more[len + 1] = e
  BY <1>1, <1>2, LogsAre
<1> QED
  BY <1>1, <1>3 DEF AnnouncedIn

\* A log that the token does not take, or an injection, leaves its row.
LEMMA RowNone ==
    ASSUME NEW ls \in Seq(Log), NEW e \in Log, NEW known, NEW base \in Int, NEW before,
           NEW row \in TokenRow, NEW con, NEW t,
           RowIn(ls, known, base, before, row, con, t),
           e.kind = "AntiSnipeInjected" \/ ~ Takes(ls, known, e, t)
    PROVE  RowIn(Append(ls, e), known, base, before, row, con, t)
<1>1. PICK more : more = Append(ls, e)
  OBVIOUS
<1>2. ~ (e.kind = "Trade" /\ Takes(ls, known, e, t))
  OBVIOUS
<1>3. /\ LastSupplyIn(more, known, base, row.supply, t) = LastSupplyIn(ls, known, base, row.supply, t)
      /\ MaxSupplyIn(more, known, base, row.peak, t) = MaxSupplyIn(ls, known, base, row.peak, t)
  BY <1>1, <1>2, SupplyKept
<1>4. ~ (e.kind \in {"Trade", "Swap"} /\ Takes(ls, known, e, t))
  OBVIOUS
<1>5. LastPriceIn(more, known, base, before, row.quote, t)
        = LastPriceIn(ls, known, base, before, row.quote, t)
  BY <1>1, <1>4, PriceKept
<1>6. ~ (e.kind \in ListingKinds /\ Takes(ls, known, e, t))
  BY DEF ListingKinds
<1>7. LastStatusIn(more, known, row.state, t) = LastStatusIn(ls, known, row.state, t)
  BY <1>1, <1>6, StatusAfter
<1>8. ~ (e.kind = "NewToken" /\ e.token = t)
  BY DEF Takes
<1>9. AnnouncedIn(more, known, t) <=> AnnouncedIn(ls, known, t)
  BY <1>1, <1>8, AnnouncedAfter
<1>10. ~ (e.kind \in {"Swap"} /\ Takes(ls, known, e, t))
  OBVIOUS
<1>11. OfIn(more, known, {"Swap"}, t) = OfIn(ls, known, {"Swap"}, t)
  BY <1>1, <1>10, AppendNone
<1> QED
  BY <1>1, <1>3, <1>5, <1>7, <1>9, <1>11 DEF RowIn

\* A listing step changes the listing state, of a token without swaps.
LEMMA RowListing ==
    ASSUME NEW ls \in Seq(Log), NEW e \in Log, NEW known, NEW base \in Int, NEW before,
           NEW row \in TokenRow, NEW con, NEW con2, NEW t,
           RowIn(ls, known, base, before, row, con, t),
           e.kind \in ListingKinds, Takes(ls, known, e, t),
           con.state # "LISTED",
           con2.supply = con.supply, con2.peak = con.peak, con2.quote = con.quote,
           con2.state = StatusOf(e.kind, row.state)
    PROVE  RowIn(Append(ls, e), known, base, before, row, con2, t)
<1>1. PICK more : more = Append(ls, e)
  OBVIOUS
<1>2. ~ (e.kind = "Trade" /\ Takes(ls, known, e, t))
  BY DEF ListingKinds
<1>3. /\ LastSupplyIn(more, known, base, row.supply, t) = LastSupplyIn(ls, known, base, row.supply, t)
      /\ MaxSupplyIn(more, known, base, row.peak, t) = MaxSupplyIn(ls, known, base, row.peak, t)
  BY <1>1, <1>2, SupplyKept
<1>4. ~ (e.kind \in {"Trade", "Swap"} /\ Takes(ls, known, e, t))
  BY DEF ListingKinds
<1>5. LastPriceIn(more, known, base, before, row.quote, t)
        = LastPriceIn(ls, known, base, before, row.quote, t)
  BY <1>1, <1>4, PriceKept
<1>6. LastStatusIn(more, known, row.state, t) = con2.state /\ con2.state # "NONE"
  BY <1>1, StatusAfter DEF StatusOf, ListingKinds
<1>7. AnnouncedIn(more, known, t)
  BY <1>1, AnnouncedAfter DEF Takes, ListingKinds
<1>8. ~ (e.kind \in {"Swap"} /\ Takes(ls, known, e, t))
  BY DEF ListingKinds
<1>9. OfIn(more, known, {"Swap"}, t) = {}
  BY <1>1, <1>8, AppendNone DEF RowIn
<1> QED
  BY <1>1, <1>3, <1>5, <1>6, <1>7, <1>9 DEF RowIn

\* A swap changes the price.
LEMMA RowSwap ==
    ASSUME NEW ls \in Seq(Log), NEW e \in Log, NEW known, NEW base \in Int, NEW before,
           NEW row \in TokenRow, NEW con, NEW con2, NEW t,
           RowIn(ls, known, base, before, row, con, t),
           e.kind = "Swap", e.token = t, con.state = "LISTED",
           con2.supply = con.supply, con2.peak = con.peak, con2.state = con.state,
           con2.quote = <<"swap", before + Len(Append(ls, e))>>
    PROVE  RowIn(Append(ls, e), known, base, before, row, con2, t)
<1>1. PICK more : more = Append(ls, e)
  OBVIOUS
<1>2. Takes(ls, known, e, t)
  BY DEF Takes
<1>3. ~ (e.kind = "Trade" /\ Takes(ls, known, e, t))
  OBVIOUS
<1>4. /\ LastSupplyIn(more, known, base, row.supply, t) = LastSupplyIn(ls, known, base, row.supply, t)
      /\ MaxSupplyIn(more, known, base, row.peak, t) = MaxSupplyIn(ls, known, base, row.peak, t)
  BY <1>1, <1>3, SupplyKept
<1>5. LastPriceIn(more, known, base, before, row.quote, t) = <<"swap", before + Len(more)>>
  <2>1. e.kind \in {"Trade", "Swap"} /\ (e.kind = "Trade" => OfIn(ls, known, {"Swap"}, t) = {})
    OBVIOUS
  <2>2. LastPriceIn(more, known, base, before, row.quote, t)
          = IF e.kind = "Trade" THEN <<"curve", SupplyIn(more, known, base, Len(more), t)>>
            ELSE <<"swap", before + Len(more)>>
    BY <1>1, <1>2, <2>1, PricePublished
  <2> QED
    BY <2>2
<1>6. ~ (e.kind \in ListingKinds /\ Takes(ls, known, e, t))
  BY DEF ListingKinds
<1>7. LastStatusIn(more, known, row.state, t) = LastStatusIn(ls, known, row.state, t)
  BY <1>1, <1>6, StatusAfter
<1>8. AnnouncedIn(more, known, t) <=> AnnouncedIn(ls, known, t)
  BY <1>1, AnnouncedAfter
<1> QED
  BY <1>1, <1>4, <1>5, <1>7, <1>8 DEF RowIn

\* A trade publishes the supply and the price, of a token without swaps.
LEMMA RowTrade ==
    ASSUME NEW ls \in Seq(Log), NEW e \in Log, NEW known, NEW base \in Int, NEW before,
           NEW row \in TokenRow, NEW con, NEW con2, NEW t,
           RowIn(ls, known, base, before, row, con, t),
           e.kind = "Trade", Takes(ls, known, e, t), con.state # "LISTED",
           NEW after, after = SupplyIn(Append(ls, e), known, base, Len(Append(ls, e)), t),
           con2.supply = after, con2.peak = (IF con.peak < after THEN after ELSE con.peak),
           con2.quote = <<"curve", after>>, con2.state = con.state
    PROVE  RowIn(Append(ls, e), known, base, before, row, con2, t)
<1>0. PICK more : more = Append(ls, e)
  OBVIOUS
<1>1. row.supply \in Int /\ row.peak \in Int
  BY DEF TokenRow
<1>2. PICK old \in Int : old = row.supply
  BY <1>1
<1>3. PICK high \in Int : high = row.peak
  BY <1>1
<1>11. LastSupplyIn(more, known, base, old, t) = after
  BY <1>0, SupplyPublished
<1>12. MaxSupplyIn(more, known, base, high, t)
         = IF MaxSupplyIn(ls, known, base, high, t) < after
           THEN after ELSE MaxSupplyIn(ls, known, base, high, t)
  BY <1>0, SupplyPublished
<1>4. OfIn(ls, known, {"Swap"}, t) = {}
  BY DEF RowIn
<1>5. LastPriceIn(more, known, base, before, row.quote, t) = <<"curve", after>>
  <2>1. e.kind \in {"Trade", "Swap"}
    OBVIOUS
  <2>2. LastPriceIn(more, known, base, before, row.quote, t)
          = IF e.kind = "Trade" THEN <<"curve", SupplyIn(more, known, base, Len(more), t)>>
            ELSE <<"swap", before + Len(more)>>
    BY <1>0, <1>4, <2>1, PricePublished
  <2> QED
    BY <1>0, <2>2
<1>6. ~ (e.kind \in ListingKinds /\ Takes(ls, known, e, t))
  BY DEF ListingKinds
<1>7. LastStatusIn(more, known, row.state, t) = LastStatusIn(ls, known, row.state, t)
  BY <1>0, <1>6, StatusAfter
<1>8. AnnouncedIn(more, known, t) <=> AnnouncedIn(ls, known, t)
  BY <1>0, AnnouncedAfter
<1>9. ~ (e.kind \in {"Swap"} /\ Takes(ls, known, e, t))
  OBVIOUS
<1>10. OfIn(more, known, {"Swap"}, t) = {}
  BY <1>0, <1>4, <1>9, AppendNone
<1> QED
  BY <1>0, <1>2, <1>3, <1>5, <1>7, <1>8, <1>10, <1>11, <1>12 DEF RowIn

\* The supply after one more log.
LEMMA SupplyAfter ==
    ASSUME NEW ls \in Seq(Log), NEW e \in Log, NEW known, NEW base \in Int, NEW t,
           NEW con \in Int, SupplyIn(ls, known, base, Len(ls), t) = con
    PROVE  SupplyIn(Append(ls, e), known, base, Len(Append(ls, e)), t)
             = con + (IF Takes(ls, known, e, t) THEN DeltaOf(e) ELSE 0)
<1>1. PICK len \in Nat : len = Len(ls)
  OBVIOUS
<1>2. PICK more : more = Append(ls, e)
  OBVIOUS
<1>3. Len(more) = len + 1
  BY <1>1, <1>2, LogsAre
<1>4. CASE Takes(ls, known, e, t)
  <2>1. SupplyIn(more, known, base, len + 1, t) = SupplyIn(ls, known, base, len, t) + DeltaOf(e)
    BY <1>1, <1>2, <1>4, AppendSupply
  <2> QED
    BY <1>1, <1>2, <1>3, <1>4, <2>1
<1>5. CASE ~ Takes(ls, known, e, t)
  <2>1. SupplyIn(more, known, base, len + 1, t) = SupplyIn(ls, known, base, len, t)
    BY <1>1, <1>2, <1>5, AppendSupply
  <2> QED
    BY <1>1, <1>2, <1>3, <1>5, <2>1
<1> QED
  BY <1>4, <1>5

-----------------------------------------------------------------------------
\* Emitting one log appends it.
LEMMA ConcatOne ==
    ASSUME NEW ls \in Seq(Log), NEW e \in Log
    PROVE  /\ ls \o <<e>> = Append(ls, e)
           /\ ls \o (<<>> \o <<e>>) = Append(ls, e)
           /\ Len(<<e>>) = 1 /\ Len(<<>> \o <<e>>) = 1
<1>1. <<e>> \in Seq(Log) /\ <<>> \o <<e>> = <<e>>
  OBVIOUS
<1> QED
  BY <1>1

\* Emitting two logs appends the one and then the other.
LEMMA ConcatTwo ==
    ASSUME NEW ls \in Seq(Log), NEW d \in Log, NEW e \in Log
    PROVE  ls \o (<<d>> \o <<e>>) = Append(Append(ls, d), e) /\ Len(<<d>> \o <<e>>) = 2
<1>1. <<d>> \in Seq(Log) /\ <<e>> \in Seq(Log) /\ Append(ls, d) \in Seq(Log)
  OBVIOUS
<1>2. (ls \o <<d>>) \o <<e>> = ls \o (<<d>> \o <<e>>)
  BY <1>1, ConcatAssociative
<1>3. Append(ls, d) \o <<e>> = Append(Append(ls, d), e) /\ ls \o <<d>> = Append(ls, d)
  BY <1>1, ConcatOne
<1>4. Len(<<d>>) = 1 /\ Len(<<e>>) = 1
  OBVIOUS
<1>5. Len(<<d>> \o <<e>>) = Len(<<d>>) + Len(<<e>>)
  BY <1>1, ConcatProperties
<1>6. Len(<<d>> \o <<e>>) = 2
  BY ONLY <1>4, <1>5
<1>7. ls \o (<<d>> \o <<e>>) = Append(Append(ls, d), e)
  BY ONLY <1>2, <1>3, Zenon
<1> QED
  BY <1>6, <1>7

\* Before its first log a block leaves every row as it is.
LEMMA EmptyPending ==
    ASSUME NEW known, NEW before, NEW row \in TokenRow, NEW t,
           row.state # "NONE" <=> t \in known
    PROVE  PendingIn(<<>>, known, row.supply, before, row, row, t)
<1>1. \A kinds : OfIn(<<>>, known, kinds, t) = {}
  BY DEF OfIn
<1>2. row.supply \in Int /\ row.peak \in Int
  BY DEF TokenRow
<1>3. SupplyIn(<<>>, known, row.supply, 0, t) = row.supply
  <2>1. {m \in OfIn(<<>>, known, {"Trade", "AntiSnipeInjected"}, t) : m <= 0} = {}
    BY <1>1
  <2>2. SumFunctionOnSet(Deltas(<<>>), {}) = 0
    BY SumEmpty
  <2>3. SupplyIn(<<>>, known, row.supply, 0, t) = row.supply + SumFunctionOnSet(Deltas(<<>>), {})
    BY <2>1, Zenon DEF SupplyIn
  <2>4. row.supply + 0 = row.supply
    BY <1>2
  <2> QED
    BY <2>2, <2>3, <2>4
<1>4. MaxSupplyIn(<<>>, known, row.supply, row.peak, t) = row.peak
  <2>1. PICK peaks : peaks = {row.peak}
    OBVIOUS
  <2>2. {row.peak} \cup {SupplyIn(<<>>, known, row.supply, n, t) : n \in OfIn(<<>>, known, {"Trade"}, t)}
          = peaks
    BY <1>1, <2>1
  <2>3. IsFiniteSet(peaks) /\ peaks \subseteq Int /\ peaks # {}
    BY <1>2, <2>1, FS_Singleton
  <2>4. Max(peaks) \in peaks
    BY <2>3, GreatestMember
  <2> QED
    BY <2>1, <2>2, <2>4 DEF MaxSupplyIn
<1>5. LastSupplyIn(<<>>, known, row.supply, row.supply, t) = row.supply
  BY <1>1 DEF LastSupplyIn
<1>6. LastPriceIn(<<>>, known, row.supply, before, row.quote, t) = row.quote
  BY <1>1 DEF LastPriceIn
<1>7. LastStatusIn(<<>>, known, row.state, t) = row.state
  BY <1>1 DEF LastStatusIn
<1>8. AnnouncedIn(<<>>, known, t) <=> t \in known
  BY DEF AnnouncedIn
<1>9. Len(<<>>) = 0
  OBVIOUS
<1> QED
  BY <1>1, <1>3, <1>4, <1>5, <1>6, <1>7, <1>8, <1>9 DEF PendingIn, RowIn

\* The rows and contracts of a state, and that what is pending is said of them.
LEMMA RowType ==
    ASSUME TypeInv, NEW t \in Tokens
    PROVE  /\ RowOf(t) \in TokenRow /\ ContractOf(t) \in TokenRow
           /\ curve[t] \in Int /\ supply[t] \in Nat
           /\ ContractOf(t).supply = supply[t] /\ ContractOf(t).peak = peak[t]
           /\ ContractOf(t).quote = quote[t] /\ ContractOf(t).state = state[t]
<1>1. supply[t] \in Int /\ peak[t] \in Int /\ quote[t] \in Prices /\ state[t] \in States
  BY DEF TypeInv
<1>2. db.supply[t] \in Int /\ db.max_supply[t] \in Int
  BY DEF TypeInv
<1>3. db.price[t] \in Prices /\ db.status[t] \in States
  BY DEF TypeInv
<1>4. curve[t] \in Int /\ supply[t] \in Nat
  BY DEF TypeInv
<1> QED
  BY <1>1, <1>2, <1>3, <1>4 DEF RowOf, ContractOf, TokenRow

\* While a block is open only logs and contracts change.
SameBlock == UNCHANGED <<committed, stores, block, db>>

\* What holds of the logs after a step is the token's invariant after it.
LEMMA Stepped ==
    ASSUME NEW u \in Tokens, SameBlock,
           NEW con, con = [supply |-> supply'[u], peak |-> peak'[u], quote |-> quote'[u], state |-> state'[u]],
           PendingIn(logs', addresses, curve[u], committed, RowOf(u), con, u)
    PROVE  TokenPending(u)'
<1>1. PendingAgrees'
  BY PendingViews, PTL
<1>2. addresses' = addresses /\ curve' = curve /\ committed' = committed /\ db' = db
  BY DEF SameBlock, stores
<1>3. RowOf(u)' = RowOf(u) /\ ContractOf(u)' = con
  BY <1>2 DEF RowOf, ContractOf
<1>4. PendingIn(logs', addresses', curve'[u], committed', RowOf(u)', ContractOf(u)', u)
  BY <1>2, <1>3
<1> QED
  BY <1>1, <1>4 DEF PendingAgrees

\* A log is no business of a token that does not take it.
LEMMA NoneIn ==
    ASSUME NEW ls \in Seq(Log), NEW e \in Log, NEW known, NEW base \in Int, NEW before,
           NEW row \in TokenRow, NEW con \in TokenRow, NEW t,
           PendingIn(ls, known, base, before, row, con, t), ~ Takes(ls, known, e, t)
    PROVE  PendingIn(Append(ls, e), known, base, before, row, con, t)
<1>1. PICK s \in Int : s = con.supply
  BY DEF TokenRow
<1>2. RowIn(ls, known, base, before, row, con, t) /\ SupplyIn(ls, known, base, Len(ls), t) = s
  BY <1>1 DEF PendingIn
<1>3. RowIn(Append(ls, e), known, base, before, row, con, t)
  BY <1>2, RowNone
<1>4. SupplyIn(Append(ls, e), known, base, Len(Append(ls, e)), t)
        = s + (IF Takes(ls, known, e, t) THEN DeltaOf(e) ELSE 0)
  BY <1>2, SupplyAfter
<1> QED
  BY <1>1, <1>3, <1>4 DEF PendingIn

\* One or two logs of a token leave the rows of the others.
LEMMA OthersKeep ==
    ASSUME TypeInv, RowsPending, SameBlock, NEW u \in Tokens,
           NEW d \in Log, NEW e \in Log, d.token = u, e.token = u,
           logs' = Append(logs, e) \/ logs' = Append(Append(logs, d), e),
           NEW t \in Tokens, t # u,
           supply'[t] = supply[t], peak'[t] = peak[t], quote'[t] = quote[t], state'[t] = state[t]
    PROVE  TokenPending(t)'
<1>1. PICK con \in TokenRow : con = ContractOf(t)
  BY RowType
<1>2. PICK row \in TokenRow : row = RowOf(t)
  BY RowType
<1>3. PICK base \in Int : base = curve[t]
  BY RowType
<1>4. logs \in Seq(Log) /\ Append(logs, d) \in Seq(Log)
  BY DEF TypeInv
<1>5. PendingIn(logs, addresses, base, committed, row, con, t)
  BY <1>1, <1>2, <1>3, PendingViews DEF PendingAgrees, RowsPending
<1>6. \A ls : ~ Takes(ls, addresses, d, t) /\ ~ Takes(ls, addresses, e, t)
  BY DEF Takes
<1>7. /\ PendingIn(Append(logs, e), addresses, base, committed, row, con, t)
      /\ PendingIn(Append(logs, d), addresses, base, committed, row, con, t)
  BY <1>4, <1>5, <1>6, NoneIn
<1>8. PendingIn(Append(Append(logs, d), e), addresses, base, committed, row, con, t)
  BY <1>4, <1>6, <1>7, NoneIn
<1>9. PendingIn(logs', addresses, curve[t], committed, RowOf(t), con, t)
  BY <1>2, <1>3, <1>7, <1>8
<1>10. con = [supply |-> supply'[t], peak |-> peak'[t], quote |-> quote'[t], state |-> state'[t]]
  BY <1>1 DEF ContractOf
<1> QED
  BY <1>9, <1>10, Stepped

\* What a token's part of the invariant says of its row in the open block.
LEMMA OwnRow ==
    ASSUME TypeInv, RowsPending, NEW t \in Tokens
    PROVE  /\ PendingIn(logs, addresses, curve[t], committed, RowOf(t), ContractOf(t), t)
           /\ state[t] # "NONE" <=> AnnouncedIn(logs, addresses, t)
           /\ logs \in Seq(Log)
<1>1. PendingIn(logs, addresses, curve[t], committed, RowOf(t), ContractOf(t), t)
  BY PendingViews DEF PendingAgrees, RowsPending
<1> QED
  BY <1>1, RowType DEF PendingIn, RowIn, TypeInv

-----------------------------------------------------------------------------
\* A call that emits one log appends it within the bounds of block and chain.
LEMMA EmitOne ==
    ASSUME TypeInv, NEW e \in Log, Emit(<<e>>)
    PROVE  /\ logs' = Append(logs, e) /\ SameBlock
           /\ Len(logs') <= MaxLogs /\ committed + Len(logs') <= MaxHistory
<1>1. logs \in Seq(Log) /\ committed \in Nat /\ MaxHistory \in Nat
  BY MarketAssumption DEF TypeInv
<1>2. logs' = Append(logs, e) /\ Len(<<e>>) = 1
  BY <1>1, ConcatOne DEF Emit
<1>3. Len(logs') = Len(logs) + 1 /\ Len(logs) \in Nat
  BY <1>1, <1>2, LogsAre
<1> QED
  BY <1>1, <1>2, <1>3 DEF Emit, SameBlock

\* The logs that the calls emit are logs.
LEMMA LogType ==
    ASSUME NEW kind \in LogKinds, NEW t \in Tokens, NEW is_buy \in BOOLEAN, NEW amount \in Nat
    PROVE  /\ LogOf(kind, t, is_buy, amount) \in Log
           /\ LogOf(kind, t, is_buy, amount).kind = kind
           /\ LogOf(kind, t, is_buy, amount).token = t
           /\ LogOf(kind, t, is_buy, amount).is_buy = is_buy
           /\ LogOf(kind, t, is_buy, amount).amount = amount
BY DEF LogOf, Log

\* A listing step: the token's NewToken, or of a token that is announced.
ListingStep(kind, t, after) ==
    /\ kind \in ListingKinds
    /\ state[t] # "LISTED"
    /\ kind = "NewToken" \/ state[t] # "NONE"
    /\ \A old : after = StatusOf(kind, old)
    /\ state' = [state EXCEPT ![t] = after]
    /\ Emit(<<LogOf(kind, t, FALSE, 0)>>)
    /\ UNCHANGED <<supply, peak, quote>>

\* The rows stay pending when a token is created, queued, recovered or listed.
LEMMA ListingRows ==
    ASSUME TypeInv, RowsPending, NEW t \in Tokens, NEW kind, NEW after, ListingStep(kind, t, after)
    PROVE  RowsPending'
<1>1. PICK e \in Log : e = LogOf(kind, t, FALSE, 0) /\ e.kind = kind /\ e.token = t
  <2>1. kind \in LogKinds /\ FALSE \in BOOLEAN /\ 0 \in Nat
    BY DEF ListingStep, LogKinds
  <2>2. PICK amount \in Nat : amount = 0
    OBVIOUS
  <2>3. LogOf(kind, t, FALSE, amount) \in Log
    BY <2>1, LogType
  <2>4. LogOf(kind, t, FALSE, amount).kind = kind /\ LogOf(kind, t, FALSE, amount).token = t
    BY DEF LogOf
  <2> QED
    BY <2>2, <2>3, <2>4
<1>2. logs' = Append(logs, e) /\ SameBlock
  BY <1>1, EmitOne DEF ListingStep
<1>3. state' = [state EXCEPT ![t] = after] /\ supply' = supply /\ peak' = peak /\ quote' = quote
  BY DEF ListingStep
<1>4. state \in [Tokens -> States]
  BY DEF TypeInv
<1>5. ASSUME NEW u \in Tokens, u # t PROVE TokenPending(u)'
  BY <1>1, <1>2, <1>3, <1>4, <1>5, OthersKeep
<1>6. TokenPending(t)'
  <2>1. PICK con \in TokenRow : con = ContractOf(t)
    BY RowType
  <2>2. PICK row \in TokenRow : row = RowOf(t)
    BY RowType
  <2>3. PICK base \in Int : base = curve[t]
    BY RowType
  <2>4. PICK con2 : con2 = [supply |-> supply'[t], peak |-> peak'[t], quote |-> quote'[t],
                            state |-> state'[t]]
    OBVIOUS
  <2>5. /\ con.supply = supply[t] /\ con.peak = peak[t] /\ con.quote = quote[t] /\ con.state = state[t]
        /\ con2.supply = supply[t] /\ con2.peak = peak[t] /\ con2.quote = quote[t]
        /\ con2.state = after
    BY <1>3, <1>4, <2>1, <2>4, RowType
  <2>6. /\ PendingIn(logs, addresses, base, committed, row, con, t)
        /\ state[t] # "NONE" <=> AnnouncedIn(logs, addresses, t)
        /\ logs \in Seq(Log)
    BY <2>1, <2>2, <2>3, OwnRow
  <2>7. Takes(logs, addresses, e, t)
    BY <1>1, <2>6 DEF Takes, ListingStep
  <2>8. con.state # "LISTED" /\ e.kind \in ListingKinds /\ con2.state = StatusOf(e.kind, row.state)
    BY <1>1, <2>5 DEF ListingStep
  <2>9. RowIn(Append(logs, e), addresses, base, committed, row, con2, t)
    <3>1. RowIn(logs, addresses, base, committed, row, con, t)
      BY <2>6 DEF PendingIn
    <3>2. con2.supply = con.supply /\ con2.peak = con.peak /\ con2.quote = con.quote
      BY <2>5
    <3> QED
      BY <2>6, <2>7, <2>8, <3>1, <3>2, RowListing
  <2>10. SupplyIn(Append(logs, e), addresses, base, Len(Append(logs, e)), t) = con2.supply
    <3>1. PICK s \in Int : s = supply[t]
      BY RowType
    <3>2. SupplyIn(logs, addresses, base, Len(logs), t) = s
      BY <2>5, <2>6, <3>1 DEF PendingIn
    <3>3. DeltaOf(e) = 0
      BY <1>1, DeltaType DEF ListingStep, ListingKinds
    <3>4. SupplyIn(Append(logs, e), addresses, base, Len(Append(logs, e)), t)
            = s + (IF Takes(logs, addresses, e, t) THEN DeltaOf(e) ELSE 0)
      BY <2>6, <3>2, SupplyAfter
    <3>5. s + 0 = s
      OBVIOUS
    <3> QED
      BY <2>5, <3>1, <3>3, <3>4, <3>5
  <2>11. PendingIn(logs', addresses, curve[t], committed, RowOf(t), con2, t)
    BY <1>2, <2>2, <2>3, <2>9, <2>10 DEF PendingIn
  <2> QED
    BY <1>2, <2>4, <2>11, Stepped
<1> QED
  BY <1>5, <1>6 DEF RowsPending

\* The steps of a token's listing.
LEMMA ListingSteps ==
    ASSUME NEW t \in Tokens
    PROVE  /\ NewToken(t) => ListingStep("NewToken", t, "BONDING_CURVE")
           /\ QueueListing(t) => ListingStep("TokenListingQueued", t, "LISTING_PENDING")
           /\ RecoverListing(t) => ListingStep("FailedListingRecovered", t, "BONDING_CURVE")
           /\ ListToDex(t) => ListingStep("TokenListedToDex", t, "LISTED")
<1>1. NewToken(t) => ListingStep("NewToken", t, "BONDING_CURVE")
  BY DEF NewToken, ListingStep, ListingKinds, StatusOf
<1>2. QueueListing(t) => ListingStep("TokenListingQueued", t, "LISTING_PENDING")
  BY DEF QueueListing, ListingStep, ListingKinds, StatusOf
<1>3. RecoverListing(t) => ListingStep("FailedListingRecovered", t, "BONDING_CURVE")
  BY DEF RecoverListing, ListingStep, ListingKinds, StatusOf
<1>4. ListToDex(t) => ListingStep("TokenListedToDex", t, "LISTED")
  BY DEF ListToDex, ListingStep, ListingKinds, StatusOf
<1> QED
  BY <1>1, <1>2, <1>3, <1>4

\* The rows stay pending after a swap in the pool of a listed token.
LEMMA SwapRows ==
    ASSUME TypeInv, RowsPending, NEW t \in Tokens, NEW is_buy \in BOOLEAN, Swap(t, is_buy)
    PROVE  RowsPending'
<1>1. PICK e \in Log : e = LogOf("Swap", t, is_buy, 0) /\ e.kind = "Swap" /\ e.token = t
  <2>1. PICK amount \in Nat : amount = 0
    OBVIOUS
  <2>2. "Swap" \in LogKinds
    BY DEF LogKinds
  <2>3. LogOf("Swap", t, is_buy, amount) \in Log
    BY <2>2, LogType
  <2>4. LogOf("Swap", t, is_buy, amount).kind = "Swap" /\ LogOf("Swap", t, is_buy, amount).token = t
    BY <2>2, LogType
  <2> QED
    BY <2>1, <2>3, <2>4
<1>2. logs' = Append(logs, e) /\ SameBlock
  BY <1>1, EmitOne DEF Swap
<1>3. /\ quote' = [quote EXCEPT ![t] = <<"swap", committed + Len(logs')>>]
      /\ supply' = supply /\ peak' = peak /\ state' = state /\ state[t] = "LISTED"
  BY DEF Swap
<1>4. quote \in [Tokens -> Prices]
  BY DEF TypeInv
<1>5. ASSUME NEW u \in Tokens, u # t PROVE TokenPending(u)'
  BY <1>1, <1>2, <1>3, <1>4, <1>5, OthersKeep
<1>6. TokenPending(t)'
  <2>1. PICK con \in TokenRow : con = ContractOf(t)
    BY RowType
  <2>2. PICK row \in TokenRow : row = RowOf(t)
    BY RowType
  <2>3. PICK base \in Int : base = curve[t]
    BY RowType
  <2>4. PICK con2 : con2 = [supply |-> supply'[t], peak |-> peak'[t], quote |-> quote'[t],
                            state |-> state'[t]]
    OBVIOUS
  <2>5. /\ con.supply = supply[t] /\ con.peak = peak[t] /\ con.quote = quote[t] /\ con.state = "LISTED"
        /\ con2.supply = supply[t] /\ con2.peak = peak[t] /\ con2.state = "LISTED"
        /\ con2.quote = <<"swap", committed + Len(Append(logs, e))>>
    BY <1>2, <1>3, <1>4, <2>1, <2>4, RowType
  <2>6. /\ PendingIn(logs, addresses, base, committed, row, con, t)
        /\ logs \in Seq(Log)
    BY <2>1, <2>2, <2>3, OwnRow
  <2>7. RowIn(Append(logs, e), addresses, base, committed, row, con2, t)
    <3>1. RowIn(logs, addresses, base, committed, row, con, t)
      BY <2>6 DEF PendingIn
    <3>2. con2.supply = con.supply /\ con2.peak = con.peak /\ con2.state = con.state
      BY <2>5
    <3> QED
      BY <1>1, <2>5, <2>6, <3>1, <3>2, RowSwap
  <2>8. SupplyIn(Append(logs, e), addresses, base, Len(Append(logs, e)), t) = con2.supply
    <3>1. PICK s \in Int : s = supply[t]
      BY RowType
    <3>2. SupplyIn(logs, addresses, base, Len(logs), t) = s
      BY <2>5, <2>6, <3>1 DEF PendingIn
    <3>3. DeltaOf(e) = 0
      BY <1>1, DeltaType
    <3>4. SupplyIn(Append(logs, e), addresses, base, Len(Append(logs, e)), t)
            = s + (IF Takes(logs, addresses, e, t) THEN DeltaOf(e) ELSE 0)
      BY <2>6, <3>2, SupplyAfter
    <3>5. s + 0 = s
      OBVIOUS
    <3> QED
      BY <2>5, <3>1, <3>3, <3>4, <3>5
  <2>9. PendingIn(logs', addresses, curve[t], committed, RowOf(t), con2, t)
    BY <1>2, <2>2, <2>3, <2>7, <2>8 DEF PendingIn
  <2> QED
    BY <1>2, <2>4, <2>9, Stepped
<1> QED
  BY <1>5, <1>6 DEF RowsPending

\* A contract that no Pump announced is no token.
LEMMA StrangerRows ==
    ASSUME TypeInv, RowsPending, NEW t \in Tokens, NEW is_buy \in BOOLEAN, StrangerTrade(t, is_buy)
    PROVE  RowsPending'
<1>1. PICK e \in Log : e = LogOf("Trade", t, is_buy, 1) /\ e.kind = "Trade" /\ e.token = t
  BY LogType DEF LogKinds
<1>2. logs' = Append(logs, e) /\ SameBlock
  BY <1>1, EmitOne DEF StrangerTrade
<1>3. /\ supply' = supply /\ peak' = peak /\ quote' = quote /\ state' = state /\ state[t] = "NONE"
  BY DEF StrangerTrade, contracts
<1>5. ASSUME NEW u \in Tokens, u # t PROVE TokenPending(u)'
  BY <1>1, <1>2, <1>3, <1>5, OthersKeep
<1>6. TokenPending(t)'
  <2>1. PICK con \in TokenRow : con = ContractOf(t)
    BY RowType
  <2>2. PICK row \in TokenRow : row = RowOf(t)
    BY RowType
  <2>3. PICK base \in Int : base = curve[t]
    BY RowType
  <2>4. con = [supply |-> supply'[t], peak |-> peak'[t], quote |-> quote'[t], state |-> state'[t]]
    BY <1>3, <2>1 DEF ContractOf
  <2>6. /\ PendingIn(logs, addresses, base, committed, row, con, t)
        /\ state[t] # "NONE" <=> AnnouncedIn(logs, addresses, t)
        /\ logs \in Seq(Log)
    BY <2>1, <2>2, <2>3, OwnRow
  <2>7. ~ Takes(logs, addresses, e, t)
    BY <1>1, <1>3, <2>6 DEF Takes
  <2>8. PendingIn(Append(logs, e), addresses, base, committed, row, con, t)
    BY <2>6, <2>7, NoneIn
  <2> QED
    BY <1>2, <2>2, <2>3, <2>4, <2>8, Stepped
<1> QED
  BY <1>5, <1>6 DEF RowsPending

\* The logs that a trade adds.
LEMMA EmitTrade ==
    ASSUME TypeInv, NEW injected \in Nat, NEW d \in Log, NEW e \in Log,
           Emit((IF injected > 0 THEN <<d>> ELSE <<>>) \o <<e>>)
    PROVE  /\ SameBlock
           /\ logs' = Append(IF injected > 0 THEN Append(logs, d) ELSE logs, e)
           /\ Len(logs') <= MaxLogs /\ committed + Len(logs') <= MaxHistory
<1>1. logs \in Seq(Log) /\ committed \in Nat /\ MaxHistory \in Nat /\ Len(logs) \in Nat
  BY MarketAssumption DEF TypeInv
<1>2. CASE injected > 0
  <2>1. Emit(<<d>> \o <<e>>)
    BY <1>2
  <2>2. logs' = Append(Append(logs, d), e) /\ Len(<<d>> \o <<e>>) = 2
    BY <1>1, <2>1, ConcatTwo DEF Emit
  <2>3. Append(logs, d) \in Seq(Log) /\ Len(Append(logs, d)) = Len(logs) + 1
    BY <1>1, LogsAre
  <2>4. Len(logs') = Len(Append(logs, d)) + 1
    BY <2>2, <2>3, LogsAre
  <2>5. Len(logs') = Len(logs) + 2
    BY <1>1, <2>3, <2>4
  <2>6. Len(logs) + 2 <= MaxLogs /\ committed + Len(logs) + 2 <= MaxHistory
    BY <2>1, <2>2 DEF Emit
  <2> QED
    BY <1>1, <1>2, <2>1, <2>2, <2>5, <2>6 DEF Emit, SameBlock
<1>3. CASE ~ (injected > 0)
  <2>1. Emit(<<>> \o <<e>>)
    BY <1>3
  <2>2. logs' = Append(logs, e) /\ Len(<<>> \o <<e>>) = 1
    BY <1>1, <2>1, ConcatOne DEF Emit
  <2>3. Len(logs') = Len(logs) + 1
    BY <1>1, <2>2, LogsAre
  <2>4. Len(logs) + 1 <= MaxLogs /\ committed + Len(logs) + 1 <= MaxHistory
    BY <2>1, <2>2 DEF Emit
  <2> QED
    BY <1>1, <1>3, <2>1, <2>2, <2>3, <2>4 DEF Emit, SameBlock
<1> QED
  BY <1>2, <1>3

\* The rows stay pending after a trade on the curve, with or without an injection.
LEMMA TradeRows ==
    ASSUME TypeInv, RowsPending, NEW t \in Tokens, NEW is_buy \in BOOLEAN,
           NEW amount \in Nat, NEW injected \in Nat, Trade(t, is_buy, amount, injected)
    PROVE  RowsPending'
<1>1. PICK d \in Log : /\ d = LogOf("AntiSnipeInjected", t, TRUE, injected)
                       /\ d.kind = "AntiSnipeInjected" /\ d.token = t /\ d.amount = injected
  <2>1. "AntiSnipeInjected" \in LogKinds /\ TRUE \in BOOLEAN
    BY DEF LogKinds
  <2>2. LogOf("AntiSnipeInjected", t, TRUE, injected) \in Log
    BY <2>1, LogType
  <2>3. /\ LogOf("AntiSnipeInjected", t, TRUE, injected).kind = "AntiSnipeInjected"
        /\ LogOf("AntiSnipeInjected", t, TRUE, injected).token = t
        /\ LogOf("AntiSnipeInjected", t, TRUE, injected).amount = injected
    BY DEF LogOf
  <2> QED
    BY <2>2, <2>3
<1>2. PICK e \in Log : /\ e = LogOf("Trade", t, is_buy, amount)
                       /\ e.kind = "Trade" /\ e.token = t /\ e.is_buy = is_buy /\ e.amount = amount
  <2>1. "Trade" \in LogKinds
    BY DEF LogKinds
  <2>2. LogOf("Trade", t, is_buy, amount) \in Log
    BY <2>1, LogType
  <2>3. /\ LogOf("Trade", t, is_buy, amount).kind = "Trade"
        /\ LogOf("Trade", t, is_buy, amount).token = t
        /\ LogOf("Trade", t, is_buy, amount).is_buy = is_buy
        /\ LogOf("Trade", t, is_buy, amount).amount = amount
    BY DEF LogOf
  <2> QED
    BY <2>2, <2>3
<1>3. PICK s \in Int : s = supply[t]
  BY RowType
<1>4. PICK delta \in Int : delta = IF is_buy THEN amount ELSE -amount
  OBVIOUS
<1>5. PICK after \in Int : after = s + injected + delta
  OBVIOUS
<1>6. /\ state[t] = "BONDING_CURVE" /\ state' = state
      /\ supply' = [supply EXCEPT ![t] = after]
      /\ peak' = [peak EXCEPT ![t] = IF peak[t] < after THEN after ELSE peak[t]]
      /\ quote' = [quote EXCEPT ![t] = <<"curve", after>>]
      /\ Emit((IF injected > 0 THEN <<d>> ELSE <<>>) \o <<e>>)
  BY <1>1, <1>2, <1>3, <1>4, <1>5 DEF Trade
<1>7. PICK ls : ls = IF injected > 0 THEN Append(logs, d) ELSE logs
  OBVIOUS
<1>8. logs' = Append(ls, e) /\ SameBlock
  BY <1>6, <1>7, EmitTrade
<1>9. state \in [Tokens -> States] /\ supply \in [Tokens -> Nat] /\ peak \in [Tokens -> Nat]
      /\ quote \in [Tokens -> Prices]
  BY DEF TypeInv
<1>10. ASSUME NEW u \in Tokens, u # t PROVE TokenPending(u)'
  <2>1. logs' = Append(logs, e) \/ logs' = Append(Append(logs, d), e)
    BY <1>7, <1>8
  <2>2. supply'[u] = supply[u] /\ peak'[u] = peak[u] /\ quote'[u] = quote[u] /\ state'[u] = state[u]
    BY <1>6, <1>9, <1>10
  <2> QED
    BY <1>1, <1>2, <1>8, <1>10, <2>1, <2>2, OthersKeep
<1>11. TokenPending(t)'
  <2>1. PICK con \in TokenRow : con = ContractOf(t)
    BY RowType
  <2>2. PICK row \in TokenRow : row = RowOf(t)
    BY RowType
  <2>3. PICK base \in Int : base = curve[t]
    BY RowType
  <2>4. PICK con2 : con2 = [supply |-> supply'[t], peak |-> peak'[t], quote |-> quote'[t],
                            state |-> state'[t]]
    OBVIOUS
  <2>5. /\ con.supply = s /\ con.peak = peak[t] /\ con.quote = quote[t] /\ con.state = state[t]
        /\ con2.supply = after /\ con2.peak = (IF con.peak < after THEN after ELSE con.peak)
        /\ con2.quote = <<"curve", after>> /\ con2.state = con.state
    <3>1. con.supply = s /\ con.peak = peak[t] /\ con.quote = quote[t] /\ con.state = state[t]
      BY <1>3, <2>1, RowType
    <3>2. /\ supply'[t] = after /\ peak'[t] = (IF peak[t] < after THEN after ELSE peak[t])
          /\ quote'[t] = <<"curve", after>> /\ state'[t] = state[t]
      BY <1>6, <1>9
    <3> QED
      BY <2>4, <3>1, <3>2
  <2>6. /\ PendingIn(logs, addresses, base, committed, row, con, t)
        /\ state[t] # "NONE" <=> AnnouncedIn(logs, addresses, t)
        /\ logs \in Seq(Log)
    BY <2>1, <2>2, <2>3, OwnRow
  <2>7. AnnouncedIn(logs, addresses, t)
    BY <1>6, <2>6
  <2>8. /\ ls \in Seq(Log)
        /\ RowIn(ls, addresses, base, committed, row, con, t)
        /\ SupplyIn(ls, addresses, base, Len(ls), t) = s + injected
        /\ AnnouncedIn(ls, addresses, t)
    <3>1. /\ RowIn(logs, addresses, base, committed, row, con, t)
          /\ SupplyIn(logs, addresses, base, Len(logs), t) = s
      BY <2>5, <2>6 DEF PendingIn
    <3>2. CASE injected > 0
      <4>1. ls = Append(logs, d) /\ ls \in Seq(Log)
        BY <1>7, <2>6, <3>2
      <4>2. RowIn(ls, addresses, base, committed, row, con, t)
        BY <1>1, <2>6, <3>1, <4>1, RowNone
      <4>3. AnnouncedIn(ls, addresses, t)
        BY <2>6, <2>7, <4>1, AnnouncedAfter
      <4>4. Takes(logs, addresses, d, t) /\ DeltaOf(d) = injected
        BY <1>1, <2>7 DEF Takes, DeltaOf
      <4>5. SupplyIn(Append(logs, d), addresses, base, Len(Append(logs, d)), t)
              = s + (IF Takes(logs, addresses, d, t) THEN DeltaOf(d) ELSE 0)
        BY <2>6, <3>1, SupplyAfter
      <4> QED
        BY <4>1, <4>2, <4>3, <4>4, <4>5
    <3>3. CASE ~ (injected > 0)
      <4>1. ls = logs /\ injected = 0
        BY <1>7, <3>3
      <4>2. s + injected = s
        BY <4>1
      <4> QED
        BY <2>6, <2>7, <3>1, <4>1, <4>2
    <3> QED
      BY <3>2, <3>3
  <2>9. Takes(ls, addresses, e, t) /\ DeltaOf(e) = delta
    BY <1>2, <1>4, <2>8 DEF Takes, DeltaOf
  <2>10. SupplyIn(Append(ls, e), addresses, base, Len(Append(ls, e)), t) = after
    <3>1. PICK mid \in Int : mid = s + injected
      OBVIOUS
    <3>2. SupplyIn(Append(ls, e), addresses, base, Len(Append(ls, e)), t)
            = mid + (IF Takes(ls, addresses, e, t) THEN DeltaOf(e) ELSE 0)
      BY <2>8, <3>1, SupplyAfter
    <3> QED
      BY <1>5, <2>9, <3>1, <3>2
  <2>11. RowIn(Append(ls, e), addresses, base, committed, row, con2, t)
    <3>1. con.state # "LISTED" /\ e.kind = "Trade"
      BY <1>2, <1>6, <2>5
    <3> QED
      BY <2>5, <2>8, <2>9, <2>10, <3>1, RowTrade
  <2>12. PendingIn(logs', addresses, curve[t], committed, RowOf(t), con2, t)
    BY <1>8, <2>2, <2>3, <2>5, <2>10, <2>11 DEF PendingIn
  <2> QED
    BY <1>8, <2>4, <2>12, Stepped
<1> QED
  BY <1>10, <1>11 DEF RowsPending

-----------------------------------------------------------------------------
\* The end of a block, field by field.
LEMMA EndBlockRows ==
    ASSUME EndBlock
    PROVE  /\ db'.status = [t \in Tokens |-> LastStatus(t)]
           /\ db'.supply = [t \in Tokens |-> LastSupply(t)]
           /\ db'.max_supply = [t \in Tokens |-> MaxSupplyOf(t)]
           /\ db'.price = [t \in Tokens |-> LastPrice(t)]
           /\ curve' = [t \in Tokens |-> SupplyAt(Len(logs), t)]
           /\ addresses' = addresses \cup {logs[n].token : n \in Creations}
           /\ logs' = <<>> /\ committed' = committed + Len(logs) /\ block' = block + 1
           /\ state' = state /\ supply' = supply /\ peak' = peak /\ quote' = quote
BY DEF EndBlock, contracts

\* What the end of a block does to the counts.
LEMMA EndBlockCounts ==
    ASSUME EndBlock
    PROVE  /\ db'.buy_times = [t \in Tokens |-> db.buy_times[t] + Times(t, TRUE)]
           /\ db'.sell_times = [t \in Tokens |-> db.sell_times[t] + Times(t, FALSE)]
           /\ db'.token_counts = db.token_counts + Cardinality(Creations)
           /\ db'.listed_counts = db.listed_counts + Cardinality(Listings)
BY DEF EndBlock

\* What the end of a block does to the trade rows.
LEMMA EndBlockTrades ==
    ASSUME EndBlock
    PROVE  db'.trades = db.trades \cup
               {[entity_index |-> TradeIndex(n), log |-> committed + n, token |-> logs[n].token] :
                   n \in All("Trade") \cup All("Swap")}
BY DEF EndBlock

\* What the end of a block does to the counters of the legacy indexes.
LEMMA EndBlockCounters ==
    ASSUME EndBlock, TypeInv
    PROVE  /\ counters' = [k \in Counters |-> counters[k] + Cardinality(
                CASE k = "token" -> OfLegacy({"NewToken"})
                  [] k = "token_trade" -> OfLegacy({"Trade", "Swap"})
                  [] k = "listed_token" -> OfLegacy({"TokenListedToDex"}))]
           /\ counters'["token"] = counters["token"] + Cardinality(OfLegacy({"NewToken"}))
           /\ counters'["token_trade"]
                = counters["token_trade"] + Cardinality(OfLegacy({"Trade", "Swap"}))
           /\ counters'["listed_token"]
                = counters["listed_token"] + Cardinality(OfLegacy({"TokenListedToDex"}))
<1>1. DOMAIN counters = Counters
  BY DEF TypeInv
<1>2. counters' = [k \in Counters |-> counters[k] + Cardinality(
          CASE k = "token" -> OfLegacy({"NewToken"})
            [] k = "token_trade" -> OfLegacy({"Trade", "Swap"})
            [] k = "listed_token" -> OfLegacy({"TokenListedToDex"}))]
  BY <1>1 DEF EndBlock
<1> QED
  BY <1>2 DEF Counters

\* The tokens announced so far are the known ones after the block.
LEMMA KnownAfter ==
    ASSUME TypeInv, EndBlock, NEW t \in Tokens
    PROVE  t \in addresses' <=> Announced(t)
<1>1. \A n : n \in Creations <=> n \in DOMAIN logs /\ logs[n].kind = "NewToken" /\ logs[n].token \in Tokens
  BY DEF Creations, All, Of, Accepted
<1> QED
  BY <1>1, EndBlockRows DEF Announced

\* At the end of a block the rows become what was pending.
LEMMA EndBlockPending ==
    ASSUME TypeInv, RowsPending, EndBlock
    PROVE  RowsPending'
<1> SUFFICES ASSUME NEW u \in Tokens PROVE TokenPending(u)'
  BY DEF RowsPending
<1>1. TokenPending(u)
  BY DEF RowsPending
<1>2. PICK con \in TokenRow : con = ContractOf(u)
  BY RowType
<1>3. con.supply = supply[u] /\ con.state = state[u] /\ ContractOf(u)' = con
  BY <1>2, EndBlockRows, RowType DEF ContractOf
<1>4. RowOf(u)' = con
  BY <1>1, <1>2, EndBlockRows DEF RowOf, ContractOf, TokenPending
<1>5. curve'[u] = con.supply
  BY <1>1, <1>3, EndBlockRows DEF TokenPending
<1>6. con.state # "NONE" <=> u \in addresses'
  BY <1>1, <1>3, KnownAfter DEF TokenPending
<1>7. PendingIn(<<>>, addresses', con.supply, committed', con, con, u)
  BY <1>6, EmptyPending
<1>8. PendingIn(logs', addresses', curve'[u], committed', RowOf(u)', ContractOf(u)', u)
  BY <1>3, <1>4, <1>5, <1>7, EndBlockRows
<1>9. PendingAgrees'
  BY PendingViews, PTL
<1> QED
  BY <1>8, <1>9 DEF PendingAgrees

-----------------------------------------------------------------------------
(***************************************************************************)
(* Creations and listings.                                                 *)
(***************************************************************************)
AllIn(ls, known, kind) == UNION {OfIn(ls, known, {kind}, t) : t \in Tokens}

AllAgree ==
    /\ Creations = AllIn(logs, addresses, "NewToken")
    /\ Listings = AllIn(logs, addresses, "TokenListedToDex")

\* The creations and listings of the block are those of its open logs.
LEMMA AllViews == AllAgree
<1>1. \A kind, t : Of({kind}, t) = OfIn(logs, addresses, {kind}, t)
  BY Views DEF ViewsAgree
<1> QED
  BY <1>1 DEF AllAgree, Creations, Listings, All, AllIn

\* The accepted logs of a kind are finitely many positions.
LEMMA AllType ==
    ASSUME NEW ls \in Seq(Log), NEW known, NEW kind
    PROVE  /\ AllIn(ls, known, kind) \subseteq 1..Len(ls)
           /\ IsFiniteSet(AllIn(ls, known, kind))
           /\ Cardinality(AllIn(ls, known, kind)) \in Nat
<1>1. PICK len \in Nat : len = Len(ls)
  OBVIOUS
<1>2. AllIn(ls, known, kind) \subseteq 1..len
  BY <1>1, OfType DEF AllIn
<1>3. IsFiniteSet(1..len)
  BY FS_Interval
<1> QED
  BY <1>1, <1>2, <1>3, FS_Subset, FS_CardinalityType

\* One more log of the kind, if its token takes it.
LEMMA AppendMore ==
    ASSUME NEW ls \in Seq(Log), NEW e \in Log, NEW known, Takes(ls, known, e, e.token)
    PROVE  Cardinality(AllIn(Append(ls, e), known, e.kind)) = Cardinality(AllIn(ls, known, e.kind)) + 1
<1>1. PICK len \in Nat : len = Len(ls)
  OBVIOUS
<1>2. PICK more : more = Append(ls, e)
  OBVIOUS
<1>3. PICK kind : kind = e.kind
  OBVIOUS
<1>4. ASSUME NEW t
      PROVE  OfIn(more, known, {kind}, t)
               = OfIn(ls, known, {kind}, t)
                 \cup (IF e.kind \in {kind} /\ Takes(ls, known, e, t) THEN {len + 1} ELSE {})
  BY <1>1, <1>2, AppendOf
<1>5. OfIn(more, known, {kind}, e.token) = OfIn(ls, known, {kind}, e.token) \cup {len + 1}
  BY <1>3, <1>4
<1>6. ASSUME NEW t, t # e.token
      PROVE  OfIn(more, known, {kind}, t) = OfIn(ls, known, {kind}, t)
  <2>1. ~ Takes(ls, known, e, t)
    BY <1>6 DEF Takes
  <2> QED
    BY <1>4, <2>1
<1>7. AllIn(more, known, kind) = AllIn(ls, known, kind) \cup {len + 1}
  <2>1. e.token \in Tokens
    BY DEF Log
  <2> QED
    BY <1>5, <1>6, <2>1 DEF AllIn
<1>8. len + 1 \notin 1..len
  OBVIOUS
<1>9. len + 1 \notin AllIn(ls, known, kind) /\ IsFiniteSet(AllIn(ls, known, kind))
  BY <1>1, <1>8, AllType
<1>10. Cardinality(AllIn(more, known, kind)) = Cardinality(AllIn(ls, known, kind)) + 1
  BY <1>7, <1>9, FS_AddElement
<1> QED
  BY <1>2, <1>3, <1>10

\* A log of another kind adds none.
LEMMA AppendNoMore ==
    ASSUME NEW ls \in Seq(Log), NEW e \in Log, NEW known, NEW kind, e.kind # kind
    PROVE  AllIn(Append(ls, e), known, kind) = AllIn(ls, known, kind)
<1>1. ASSUME NEW t PROVE OfIn(Append(ls, e), known, {kind}, t) = OfIn(ls, known, {kind}, t)
  <2>1. ~ (e.kind \in {kind} /\ Takes(ls, known, e, t))
    OBVIOUS
  <2> QED
    BY <2>1, AppendNone
<1> QED
  BY <1>1 DEF AllIn

\* A step that creates and lists no token.
LEMMA CountsKept ==
    ASSUME TypeInv, CountsPending, SameBlock, NEW d \in Log, NEW e \in Log,
           logs' = Append(logs, e) \/ logs' = Append(Append(logs, d), e),
           d.kind \notin {"NewToken", "TokenListedToDex"}, e.kind \notin {"NewToken", "TokenListedToDex"},
           \A t \in Tokens : /\ state'[t] = "NONE" <=> state[t] = "NONE"
                             /\ state'[t] = "LISTED" <=> state[t] = "LISTED"
    PROVE  CountsPending'
<1>1. logs \in Seq(Log) /\ Append(logs, d) \in Seq(Log)
  BY DEF TypeInv
<1>2. \A kind \in {"NewToken", "TokenListedToDex"} :
        AllIn(logs', addresses, kind) = AllIn(logs, addresses, kind)
  <2>1. ASSUME NEW kind \in {"NewToken", "TokenListedToDex"}
        PROVE  AllIn(logs', addresses, kind) = AllIn(logs, addresses, kind)
    <3>1. d.kind # kind /\ e.kind # kind
      OBVIOUS
    <3>2. /\ AllIn(Append(logs, e), addresses, kind) = AllIn(logs, addresses, kind)
          /\ AllIn(Append(logs, d), addresses, kind) = AllIn(logs, addresses, kind)
      BY <1>1, <3>1, AppendNoMore
    <3>3. AllIn(Append(Append(logs, d), e), addresses, kind) = AllIn(Append(logs, d), addresses, kind)
      <4>1. PICK ls \in Seq(Log) : ls = Append(logs, d)
        BY <1>1
      <4>2. AllIn(Append(ls, e), addresses, kind) = AllIn(ls, addresses, kind)
        BY <3>1, AppendNoMore
      <4> QED
        BY <4>1, <4>2
    <3> QED
      BY <3>2, <3>3
  <2> QED
    BY <2>1
<1>3. addresses' = addresses /\ db' = db
  BY DEF SameBlock, stores
<1>4. AllAgree /\ AllAgree'
  BY AllViews, PTL
<1>5. Creations' = Creations /\ Listings' = Listings
  BY <1>2, <1>3, <1>4 DEF AllAgree
<1>6. /\ {t \in Tokens : state'[t] # "NONE"} = {t \in Tokens : state[t] # "NONE"}
      /\ {t \in Tokens : state'[t] = "LISTED"} = {t \in Tokens : state[t] = "LISTED"}
  OBVIOUS
<1> QED
  BY <1>3, <1>5, <1>6 DEF CountsPending

\* A set of tokens with one more.
LEMMA OneMoreToken ==
    ASSUME NEW S, NEW T, S \subseteq Tokens, NEW t \in Tokens, t \notin S, T = S \cup {t}
    PROVE  Cardinality(T) = Cardinality(S) + 1 /\ Cardinality(S) \in Nat
<1>1. IsFiniteSet(S)
  BY MarketAssumption, FS_Subset
<1> QED
  BY <1>1, FS_AddElement, FS_CardinalityType

\* A listing step counts the token it creates or lists.
LEMMA ListingCounts ==
    ASSUME TypeInv, RowsPending, CountsPending, NEW t \in Tokens, NEW kind, NEW after,
           ListingStep(kind, t, after),
           (kind = "NewToken") <=> (state[t] = "NONE")
    PROVE  CountsPending'
<1>1. PICK e \in Log : e = LogOf(kind, t, FALSE, 0) /\ e.kind = kind /\ e.token = t
  <2>1. kind \in LogKinds /\ FALSE \in BOOLEAN /\ 0 \in Nat
    BY DEF ListingStep, LogKinds
  <2>2. LogOf(kind, t, FALSE, 0) \in Log
    BY <2>1 DEF LogOf, Log
  <2> QED
    BY <2>2 DEF LogOf
<1>2. logs' = Append(logs, e) /\ SameBlock
  BY <1>1, EmitOne DEF ListingStep
<1>3. state' = [state EXCEPT ![t] = after] /\ state \in [Tokens -> States] /\ state[t] # "LISTED"
  BY DEF ListingStep, TypeInv
<1>4. logs \in Seq(Log) /\ (state[t] # "NONE" <=> AnnouncedIn(logs, addresses, t))
  BY OwnRow
<1>5. Takes(logs, addresses, e, t)
  BY <1>1, <1>4 DEF Takes, ListingStep
<1>6. addresses' = addresses /\ db' = db
  BY <1>2 DEF SameBlock, stores
<1>7. AllAgree /\ AllAgree'
  BY AllViews, PTL
<1>8. PICK created : created = {u \in Tokens : state[u] # "NONE"}
  OBVIOUS
<1>9. PICK listed : listed = {u \in Tokens : state[u] = "LISTED"}
  OBVIOUS
<1>10. PICK created2 : created2 = {u \in Tokens : state'[u] # "NONE"}
  OBVIOUS
<1>11. PICK listed2 : listed2 = {u \in Tokens : state'[u] = "LISTED"}
  OBVIOUS
<1>12. /\ after # "NONE"
       /\ after = "LISTED" <=> kind = "TokenListedToDex"
  BY DEF ListingStep, ListingKinds, StatusOf
<1>13. Cardinality(Creations') = Cardinality(Creations) + (IF kind = "NewToken" THEN 1 ELSE 0)
  <2>1. Cardinality(Creations) \in Nat
    BY <1>4, <1>7, AllType DEF AllAgree
  <2>2. CASE kind = "NewToken"
    <3>1. Cardinality(AllIn(Append(logs, e), addresses, e.kind))
            = Cardinality(AllIn(logs, addresses, e.kind)) + 1
      BY <1>1, <1>4, <1>5, AppendMore
    <3> QED
      BY <1>1, <1>2, <1>6, <1>7, <2>2, <3>1 DEF AllAgree
  <2>3. CASE kind # "NewToken"
    <3>1. AllIn(Append(logs, e), addresses, "NewToken") = AllIn(logs, addresses, "NewToken")
      <4>1. e.kind # "NewToken"
        BY <1>1, <2>3
      <4> QED
        BY <1>4, <4>1, AppendNoMore
    <3>2. Creations' = Creations
      BY <1>2, <1>6, <1>7, <3>1 DEF AllAgree
    <3> QED
      BY <2>1, <2>3, <3>2
  <2> QED
    BY <2>2, <2>3
<1>14. Cardinality(Listings') = Cardinality(Listings) + (IF kind = "TokenListedToDex" THEN 1 ELSE 0)
  <2>1. Cardinality(Listings) \in Nat
    BY <1>4, <1>7, AllType DEF AllAgree
  <2>2. CASE kind = "TokenListedToDex"
    <3>1. Cardinality(AllIn(Append(logs, e), addresses, e.kind))
            = Cardinality(AllIn(logs, addresses, e.kind)) + 1
      BY <1>1, <1>4, <1>5, AppendMore
    <3> QED
      BY <1>1, <1>2, <1>6, <1>7, <2>2, <3>1 DEF AllAgree
  <2>3. CASE kind # "TokenListedToDex"
    <3>1. AllIn(Append(logs, e), addresses, "TokenListedToDex") = AllIn(logs, addresses, "TokenListedToDex")
      <4>1. e.kind # "TokenListedToDex"
        BY <1>1, <2>3
      <4> QED
        BY <1>4, <4>1, AppendNoMore
    <3>2. Listings' = Listings
      BY <1>2, <1>6, <1>7, <3>1 DEF AllAgree
    <3> QED
      BY <2>1, <2>3, <3>2
  <2> QED
    BY <2>2, <2>3
<1>15. Cardinality(created2) = Cardinality(created) + (IF kind = "NewToken" THEN 1 ELSE 0)
  <2>1. Cardinality(created) \in Nat
    BY <1>8, MarketAssumption, FS_Subset, FS_CardinalityType
  <2>2. CASE kind = "NewToken"
    <3>1. t \notin created /\ created2 = created \cup {t} /\ created \subseteq Tokens
      BY <1>3, <1>8, <1>10, <1>12, <2>2
    <3> QED
      BY <2>2, <3>1, OneMoreToken
  <2>3. CASE kind # "NewToken"
    <3>1. created2 = created
      BY <1>3, <1>8, <1>10, <1>12, <2>3
    <3> QED
      BY <2>1, <2>3, <3>1
  <2> QED
    BY <2>2, <2>3
<1>16. Cardinality(listed2) = Cardinality(listed) + (IF kind = "TokenListedToDex" THEN 1 ELSE 0)
  <2>1. Cardinality(listed) \in Nat
    BY <1>9, MarketAssumption, FS_Subset, FS_CardinalityType
  <2>2. CASE kind = "TokenListedToDex"
    <3>1. t \notin listed /\ listed2 = listed \cup {t} /\ listed \subseteq Tokens
      BY <1>3, <1>9, <1>11, <1>12, <2>2
    <3> QED
      BY <2>2, <3>1, OneMoreToken
  <2>3. CASE kind # "TokenListedToDex"
    <3>1. listed2 = listed
      BY <1>3, <1>9, <1>11, <1>12, <2>3
    <3> QED
      BY <2>1, <2>3, <3>1
  <2> QED
    BY <2>2, <2>3
<1>17. /\ db.token_counts + Cardinality(Creations) = Cardinality(created)
       /\ db.listed_counts + Cardinality(Listings) = Cardinality(listed)
       /\ db.token_counts \in Nat /\ db.listed_counts \in Nat
       /\ Cardinality(Creations) \in Nat /\ Cardinality(Listings) \in Nat
  <2>1. Cardinality(Creations) \in Nat /\ Cardinality(Listings) \in Nat
    BY <1>4, <1>7, AllType DEF AllAgree
  <2> QED
    BY <1>8, <1>9, <2>1 DEF CountsPending, TypeInv
<1>18. db.token_counts + Cardinality(Creations') = Cardinality(created2)
  BY <1>13, <1>15, <1>17
<1>19. db.listed_counts + Cardinality(Listings') = Cardinality(listed2)
  BY <1>14, <1>16, <1>17
<1> QED
  BY <1>6, <1>10, <1>11, <1>18, <1>19 DEF CountsPending

\* At the end of a block the counts become what was pending.
LEMMA EndBlockCountsPending ==
    ASSUME TypeInv, CountsPending, EndBlock
    PROVE  CountsPending'
<1>1. Creations' = {} /\ Listings' = {}
  <2>1. logs' = <<>>
    BY EndBlockRows
  <2> QED
    BY <2>1 DEF Creations, Listings, All, Of
<1>2. Cardinality({}) = 0
  BY FS_EmptySet
<1>3. AllAgree /\ logs \in Seq(Log)
  BY AllViews DEF TypeInv
<1>4. Cardinality(Creations) \in Nat /\ Cardinality(Listings) \in Nat
  BY <1>3, AllType DEF AllAgree
<1>5. /\ db'.token_counts = db.token_counts + Cardinality(Creations)
      /\ db'.listed_counts = db.listed_counts + Cardinality(Listings)
      /\ db.token_counts \in Nat /\ db.listed_counts \in Nat
  BY EndBlockCounts DEF TypeInv
<1>6. /\ db'.token_counts + Cardinality(Creations') = db.token_counts + Cardinality(Creations)
      /\ db'.listed_counts + Cardinality(Listings') = db.listed_counts + Cardinality(Listings)
  BY <1>1, <1>2, <1>4, <1>5
<1> QED
  BY <1>6, EndBlockRows DEF CountsPending

-----------------------------------------------------------------------------
(***************************************************************************)
(* Trade rows.                                                             *)
(***************************************************************************)
UpTo(N, n) == {m \in N : m <= n}

\* How many of a set of positions are up to one of them.
LEMMA RankInBlock ==
    ASSUME NEW N, IsFiniteSet(N), N \subseteq Nat, NEW n \in N
    PROVE  /\ IsFiniteSet(UpTo(N, n))
           /\ Cardinality(UpTo(N, n)) \in 1..Cardinality(N)
           /\ Cardinality(N) \in Nat
<1>1. UpTo(N, n) \subseteq N /\ n \in UpTo(N, n)
  BY DEF UpTo
<1>2. /\ IsFiniteSet(UpTo(N, n))
      /\ Cardinality(UpTo(N, n)) \in Nat /\ Cardinality(N) \in Nat
      /\ Cardinality(UpTo(N, n)) <= Cardinality(N)
  BY <1>1, FS_Subset, FS_CardinalityType
<1>3. Cardinality(UpTo(N, n)) # 0
  BY <1>1, <1>2, FS_EmptySet
<1> QED
  BY <1>2, <1>3

\* Two logs of one set never have the same rank in it.
LEMMA RanksDiffer ==
    ASSUME NEW N, IsFiniteSet(N), N \subseteq Nat, NEW n \in N, NEW m \in N,
           Cardinality(UpTo(N, n)) = Cardinality(UpTo(N, m))
    PROVE  n = m
<1>1. ASSUME NEW i \in N, NEW j \in N, i < j,
             Cardinality(UpTo(N, i)) = Cardinality(UpTo(N, j))
      PROVE  FALSE
  <2>4. i \in Nat /\ j \in Nat /\ \A x \in N : x \in Nat
    OBVIOUS
  <2>5. \A x \in N : x <= i => x <= j
    BY <1>1, <2>4
  <2>6. j <= j /\ ~ (j <= i)
    BY <1>1, <2>4
  <2>1. UpTo(N, i) \subseteq UpTo(N, j) /\ j \in UpTo(N, j) /\ j \notin UpTo(N, i)
    BY <2>5, <2>6 DEF UpTo
  <2>2. IsFiniteSet(UpTo(N, j))
    BY RankInBlock
  <2>3. UpTo(N, i) = UpTo(N, j)
    BY <1>1, <2>1, <2>2, FS_Subset
  <2> QED
    BY <2>1, <2>3
<1>2. n \in Nat /\ m \in Nat
  OBVIOUS
<1>3. ~ (n < m)
  BY <1>1
<1>4. ~ (m < n)
  BY <1>1
<1> QED
  BY <1>2, <1>3, <1>4

\* Rows of the open block's logs are none of the rows before.
LEMMA MoreRows ==
    ASSUME NEW R, IsFiniteSet(R), NEW N, IsFiniteSet(N), NEW c \in Nat, NEW f,
           \A r \in R : r.log \in 1..c,
           \A n \in N : n \in Nat /\ n > 0 /\ f[n].log = c + n,
           NEW T, T = R \cup {f[n] : n \in N}
    PROVE  IsFiniteSet(T) /\ Cardinality(T) = Cardinality(R) + Cardinality(N)
<1>1. PICK P : P = {f[n] : n \in N}
  OBVIOUS
<1>2. \A n, m \in N : f[n] = f[m] => n = m
  <2>1. ASSUME NEW n \in N, NEW m \in N, f[n] = f[m] PROVE n = m
    <3>1. c + n = c + m /\ n \in Nat /\ m \in Nat
      BY <2>1
    <3> QED
      BY <3>1
  <2> QED
    BY <2>1
<1>3. IsFiniteSet(P) /\ Cardinality(P) = Cardinality(N)
  BY <1>1, <1>2, FiniteImage
<1>4. R \cap P = {}
  <2>1. ASSUME NEW n \in N, f[n] \in R PROVE FALSE
    <3>1. c + n \in 1..c /\ n \in Nat /\ n > 0
      BY <2>1
    <3> QED
      BY <3>1
  <2> QED
    BY <1>1, <2>1
<1>5. Cardinality(R \cap P) = 0
  BY <1>4, FS_EmptySet
<1>6. /\ IsFiniteSet(R \cup P)
      /\ Cardinality(R \cup P) = Cardinality(R) + Cardinality(P) - Cardinality(R \cap P)
  BY <1>3, FS_Union
<1>7. Cardinality(R) \in Nat /\ Cardinality(P) \in Nat
  BY <1>3, FS_CardinalityType
<1> QED
  BY <1>1, <1>3, <1>5, <1>6, <1>7

\* The trades of the open block.
NewTrades == All("Trade") \cup All("Swap")
NewLegacy == OfLegacy({"Trade", "Swap"})

\* The trades of the open block, by token and by kind of index.
LEMMA NewTradesAre ==
    ASSUME TypeInv
    PROVE  /\ NewTrades \subseteq 1..Len(logs) /\ IsFiniteSet(NewTrades)
           /\ \A n \in NewTrades : logs[n].token \in Tokens /\ logs[n].is_buy \in BOOLEAN
           /\ \A t \in Tokens : Of({"Trade", "Swap"}, t) = {n \in NewTrades : logs[n].token = t}
           /\ NewLegacy = {n \in NewTrades : logs[n].token \in LegacyTokens}
           /\ Len(logs) \in Nat /\ Len(logs) < IndexRoom
<1>1. Len(logs) \in Nat /\ DOMAIN logs = 1..Len(logs) /\ \A n \in 1..Len(logs) : logs[n] \in Log
  BY DEF TypeInv
<1>2. NewTrades \subseteq 1..Len(logs)
  BY <1>1 DEF NewTrades, All, Of
<1>3. IsFiniteSet(NewTrades)
  <2>1. PICK len \in Nat : len = Len(logs)
    BY <1>1
  <2>2. IsFiniteSet(1..len)
    BY FS_Interval
  <2> QED
    BY <1>2, <2>1, <2>2, FS_Subset
<1>4. ASSUME NEW n \in NewTrades PROVE logs[n].token \in Tokens /\ logs[n].is_buy \in BOOLEAN
  <2>1. logs[n] \in Log
    BY <1>1, <1>2
  <2> QED
    BY <2>1 DEF Log
<1>5. ASSUME NEW t \in Tokens PROVE Of({"Trade", "Swap"}, t) = {n \in NewTrades : logs[n].token = t}
  BY DEF NewTrades, All, Of
<1>6. NewLegacy = {n \in NewTrades : logs[n].token \in LegacyTokens}
  <2>1. LegacyTokens \subseteq Tokens
    BY DEF Tokens
  <2> QED
    BY <1>4, <1>5, <2>1 DEF NewLegacy, OfLegacy
<1>7. Len(logs) \in Nat /\ Len(logs) < IndexRoom
  <2>1. MaxLogs \in Nat /\ MaxLogs < IndexRoom
    BY MarketAssumption
  <2>2. Len(logs) <= MaxLogs
    BY DEF TypeInv
  <2> QED
    BY <1>1, <2>1, <2>2, SMT DEF IndexRoom
<1> QED
  BY <1>2, <1>3, <1>4, <1>5, <1>6, <1>7

TradeRow(n) == [entity_index |-> TradeIndex(n), log |-> committed + n, token |-> logs[n].token]

\* The index of each.
LEMMA NewIndexes ==
    ASSUME TypeInv, NEW n \in NewTrades
    PROVE  /\ logs[n].token \in AdditiveTokens =>
                TradeRow(n).entity_index = block * IndexRoom + n
           /\ logs[n].token \in LegacyTokens =>
                TradeRow(n).entity_index
                  = counters["token_trade"] + Cardinality(UpTo(NewLegacy, n))
           /\ TradeRow(n).log = committed + n
           /\ TradeRow(n).token = logs[n].token
BY MarketAssumption DEF TradeRow, TradeIndex, AdditiveIndex, NewLegacy, UpTo

\* The end of a block adds the rows of its trades.
LEMMA TradesAfter ==
    ASSUME EndBlock
    PROVE  db'.trades = db.trades \cup {TradeRow(n) : n \in NewTrades}
BY EndBlockTrades DEF TradeRow, NewTrades

\* The numbers that bound the indexes.
LEMMA Bounds ==
    ASSUME TypeInv, TradesPlaced, EndBlock
    PROVE  /\ committed \in Nat /\ Len(logs) \in Nat /\ committed' = committed + Len(logs)
           /\ committed' \in Nat /\ committed' <= MaxHistory
           /\ counters["token_trade"] \in Nat
           /\ Cardinality(NewLegacy) \in Nat /\ Cardinality(NewLegacy) <= Len(logs)
           /\ IsFiniteSet(NewLegacy) /\ NewLegacy \subseteq 1..Len(logs)
           /\ counters'["token_trade"] = counters["token_trade"] + Cardinality(NewLegacy)
           /\ counters'["token_trade"] <= committed'
           /\ block \in Nat /\ FirstBlock \in Nat /\ block >= FirstBlock /\ block' = block + 1
           /\ MaxHistory <= FirstBlock * IndexRoom
<1>1. committed \in Nat /\ Len(logs) \in Nat /\ committed + Len(logs) <= MaxHistory
  BY DEF TypeInv
<1>2. committed' = committed + Len(logs) /\ block' = block + 1
  BY EndBlockRows
<1>3. counters["token_trade"] \in Nat
  BY DEF TypeInv, Counters
<1>4. NewLegacy \subseteq 1..Len(logs)
  BY NewTradesAre
<1>5. IsFiniteSet(1..Len(logs)) /\ Cardinality(1..Len(logs)) = Len(logs)
  <2>1. PICK len \in Nat : len = Len(logs)
    BY <1>1
  <2>2. IsFiniteSet(1..len) /\ Cardinality(1..len) = IF 1 > len THEN 0 ELSE len - 1 + 1
    BY FS_Interval
  <2>3. Cardinality(1..len) = len
    BY <2>2
  <2> QED
    BY <2>1, <2>2, <2>3
<1>6. /\ IsFiniteSet(NewLegacy)
      /\ Cardinality(NewLegacy) \in Nat /\ Cardinality(NewLegacy) <= Len(logs)
  BY <1>4, <1>5, FS_Subset, FS_CardinalityType
<1>7. counters'["token_trade"] = counters["token_trade"] + Cardinality(NewLegacy)
  BY EndBlockCounters DEF NewLegacy
<1>8. counters["token_trade"] <= committed
  BY DEF TradesPlaced
<1>9. counters'["token_trade"] <= committed'
  BY <1>1, <1>2, <1>3, <1>6, <1>7, <1>8
<1>10. block \in Nat /\ FirstBlock \in Nat /\ block >= FirstBlock /\ MaxHistory <= FirstBlock * IndexRoom
  BY MarketAssumption DEF TypeInv
<1> QED
  BY <1>1, <1>2, <1>3, <1>4, <1>6, <1>7, <1>9, <1>10

\* Rows of some of the block's trades are added to rows that the database has.
LEMMA RowsAdded ==
    ASSUME TypeInv, TradesPlaced, NEW R, R \subseteq db.trades,
           NEW N, N \subseteq NewTrades,
           NEW T, T = R \cup {TradeRow(n) : n \in N}
    PROVE  IsFiniteSet(T) /\ Cardinality(T) = Cardinality(R) + Cardinality(N)
<1>1. PICK c \in Nat : c = committed
  BY DEF TypeInv
<1>2. IsFiniteSet(R) /\ \A r \in R : r.log \in 1..c
  BY <1>1, FS_Subset DEF TradesPlaced
<1>3. IsFiniteSet(N) /\ N \subseteq 1..Len(logs)
  BY NewTradesAre, FS_Subset
<1>4. PICK f : f = [n \in N |-> TradeRow(n)]
  OBVIOUS
<1>5. \A n \in N : n \in Nat /\ n > 0 /\ f[n].log = c + n
  BY <1>1, <1>3, <1>4, NewIndexes
<1>6. T = R \cup {f[n] : n \in N}
  BY <1>4
<1>7. \A r \in R : r.log \in 1..c
  BY <1>2
<1>8. IsFiniteSet(R) /\ IsFiniteSet(N)
  BY <1>2, <1>3
<1> QED
  BY ONLY <1>5, <1>6, <1>7, <1>8, c \in Nat, MoreRows

\* It adds those of legacy tokens to the legacy rows.
LEMMA LegacyAfter ==
    ASSUME TypeInv, EndBlock
    PROVE  LegacyTrades' = LegacyTrades \cup {TradeRow(n) : n \in NewLegacy}
<1>1. db'.trades = db.trades \cup {TradeRow(n) : n \in NewTrades}
  BY TradesAfter
<1>2. NewLegacy = {n \in NewTrades : logs[n].token \in LegacyTokens}
  BY NewTradesAre
<1>3. \A n \in NewTrades : TradeRow(n).token = logs[n].token
  BY NewIndexes
<1> QED
  BY <1>1, <1>2, <1>3 DEF LegacyTrades

\* The rows of the block are in their places.
LEMMA NewRowPlaced ==
    ASSUME TypeInv, TradesPlaced, EndBlock, NEW n \in NewTrades
    PROVE  /\ TradeRow(n).token \in Tokens /\ TradeRow(n).log \in 1..committed'
           /\ TradeRow(n).entity_index \in Nat
           /\ TradeRow(n).token \in AdditiveTokens =>
                /\ FirstBlock * IndexRoom < TradeRow(n).entity_index
                /\ block * IndexRoom < TradeRow(n).entity_index
                /\ TradeRow(n).entity_index < block' * IndexRoom
           /\ TradeRow(n).token \in LegacyTokens =>
                /\ counters["token_trade"] < TradeRow(n).entity_index
                /\ TradeRow(n).entity_index \in 1..counters'["token_trade"]
<1>1. n \in 1..Len(logs) /\ Len(logs) \in Nat /\ Len(logs) < IndexRoom /\ logs[n].token \in Tokens
  BY NewTradesAre
<1>2. /\ TradeRow(n).token = logs[n].token /\ TradeRow(n).log = committed + n
  BY NewIndexes
<1>3. TradeRow(n).log \in 1..committed'
  BY <1>1, <1>2, Bounds
<1>4. PICK i : i = TradeRow(n).entity_index
  OBVIOUS
<1>5. CASE logs[n].token \in AdditiveTokens
  <2>1. i = block * IndexRoom + n
    BY <1>4, <1>5, NewIndexes
  <2>2. logs[n].token \notin LegacyTokens
    BY <1>5, MarketAssumption
  <2>3. block \in Nat /\ FirstBlock \in Nat /\ block >= FirstBlock /\ block' = block + 1
    BY Bounds
  <2>4. i \in Nat /\ FirstBlock * IndexRoom < i /\ block * IndexRoom < i /\ i < block' * IndexRoom
    BY ONLY <1>1, <2>1, <2>3, SMT DEF IndexRoom
  <2> QED
    BY <1>1, <1>2, <1>3, <1>4, <2>2, <2>4
<1>6. CASE logs[n].token \in LegacyTokens
  <2>1. i = counters["token_trade"] + Cardinality(UpTo(NewLegacy, n))
    BY <1>4, <1>6, NewIndexes
  <2>2. logs[n].token \notin AdditiveTokens
    BY <1>6, MarketAssumption
  <2>3. n \in NewLegacy
    BY <1>6, NewTradesAre
  <2>4. Cardinality(UpTo(NewLegacy, n)) \in 1..Cardinality(NewLegacy)
    <3>1. IsFiniteSet(NewLegacy) /\ NewLegacy \subseteq Nat
      BY Bounds
    <3> QED
      BY <2>3, <3>1, RankInBlock
  <2>5. /\ counters["token_trade"] \in Nat /\ Cardinality(NewLegacy) \in Nat
        /\ counters'["token_trade"] = counters["token_trade"] + Cardinality(NewLegacy)
    BY Bounds
  <2>6. i \in Nat /\ counters["token_trade"] < i /\ i \in 1..counters'["token_trade"]
    BY ONLY <2>1, <2>4, <2>5
  <2> QED
    BY <1>1, <1>2, <1>3, <1>4, <2>2, <2>6
<1> QED
  BY <1>1, <1>5, <1>6 DEF Tokens

\* The rows that a block adds have indexes in the ranges of their kinds.
LEMMA EndBlockPlaced ==
    ASSUME TypeInv, TradesPlaced, EndBlock
    PROVE  TradesPlaced'
<1>1. db'.trades = db.trades \cup {TradeRow(n) : n \in NewTrades}
  BY TradesAfter
<1>2. IsFiniteSet(db'.trades)
  BY <1>1, RowsAdded
<1>3. ASSUME NEW r \in db.trades
      PROVE  /\ r.token \in Tokens /\ r.log \in 1..committed' /\ r.entity_index \in Nat
             /\ r.token \in AdditiveTokens =>
                  FirstBlock * IndexRoom < r.entity_index /\ r.entity_index < block' * IndexRoom
             /\ r.token \in LegacyTokens => r.entity_index \in 1..counters'["token_trade"]
  <2>1. /\ r.token \in Tokens /\ r.log \in 1..committed /\ r.entity_index \in Nat
        /\ r.token \in AdditiveTokens =>
             FirstBlock * IndexRoom < r.entity_index /\ r.entity_index < block * IndexRoom
        /\ r.token \in LegacyTokens => r.entity_index \in 1..counters["token_trade"]
    BY DEF TradesPlaced
  <2>2. /\ committed \in Nat /\ Len(logs) \in Nat /\ committed' = committed + Len(logs)
        /\ block \in Nat /\ block' = block + 1
        /\ counters["token_trade"] \in Nat /\ Cardinality(NewLegacy) \in Nat
        /\ counters'["token_trade"] = counters["token_trade"] + Cardinality(NewLegacy)
    BY Bounds
  <2> QED
    BY ONLY <2>1, <2>2, SMT DEF IndexRoom
<1>4. ASSUME NEW r \in db'.trades
      PROVE  /\ r.token \in Tokens /\ r.log \in 1..committed' /\ r.entity_index \in Nat
             /\ r.token \in AdditiveTokens =>
                  FirstBlock * IndexRoom < r.entity_index /\ r.entity_index < block' * IndexRoom
             /\ r.token \in LegacyTokens => r.entity_index \in 1..counters'["token_trade"]
  BY <1>1, <1>3, NewRowPlaced
<1>5. counters'["token_trade"] <= committed'
  BY Bounds
<1>6. Cardinality(LegacyTrades') = counters'["token_trade"]
  <2>1. LegacyTrades \subseteq db.trades
    BY DEF LegacyTrades
  <2>2. NewLegacy \subseteq NewTrades
    BY NewTradesAre
  <2>3. Cardinality(LegacyTrades') = Cardinality(LegacyTrades) + Cardinality(NewLegacy)
    BY <2>1, <2>2, LegacyAfter, RowsAdded
  <2> QED
    BY <2>3, Bounds DEF TradesPlaced
<1> QED
  BY <1>2, <1>4, <1>5, <1>6 DEF TradesPlaced

\* The parts of TradesNumberedOnce.
IndexesDiffer == \A r, s \in db.trades : r.entity_index = s.entity_index => r = s

LegacyInOrder ==
    \A r \in LegacyTrades : r.entity_index = Cardinality({s \in LegacyTrades : s.log <= r.log})

TimesAddUp ==
    \A t \in Tokens :
        db.buy_times[t] + db.sell_times[t] = Cardinality({r \in db.trades : r.token = t})

NumberedInParts == TradesNumberedOnce <=> IndexesDiffer /\ LegacyInOrder /\ TimesAddUp

\* TradesNumberedOnce is the conjunction of three parts, shown one by one.
LEMMA NumberedParts == NumberedInParts
BY DEF NumberedInParts, TradesNumberedOnce, IndexesDiffer, LegacyInOrder, TimesAddUp, LegacyTrades

\* A row that a block adds has the index of no other row.
LEMMA IndexesDifferAfter ==
    ASSUME TypeInv, TradesPlaced, IndexesDiffer, EndBlock
    PROVE  IndexesDiffer'
<1>1. db'.trades = db.trades \cup {TradeRow(n) : n \in NewTrades}
  BY TradesAfter
<1>2. ASSUME NEW r \in db'.trades, NEW s \in db'.trades, r.entity_index = s.entity_index,
             r.token \in AdditiveTokens, s.token \in LegacyTokens
      PROVE  FALSE
  <2>1. /\ r.entity_index \in Nat /\ FirstBlock * IndexRoom < r.entity_index
        /\ s.entity_index \in 1..counters'["token_trade"] /\ counters'["token_trade"] <= committed'
    BY <1>2, EndBlockPlaced DEF TradesPlaced
  <2>2. /\ committed' \in Nat /\ committed' <= MaxHistory
        /\ counters["token_trade"] \in Nat /\ Cardinality(NewLegacy) \in Nat
        /\ counters'["token_trade"] = counters["token_trade"] + Cardinality(NewLegacy)
        /\ FirstBlock \in Nat /\ MaxHistory <= FirstBlock * IndexRoom
    BY Bounds
  <2>3. MaxHistory \in Nat
    BY MarketAssumption
  <2> QED
    BY ONLY <2>1, <2>2, <2>3, r.entity_index = s.entity_index, SMT DEF IndexRoom
<1>3. ASSUME NEW r \in db.trades, NEW n \in NewTrades, r.entity_index = TradeRow(n).entity_index,
             \/ r.token \in AdditiveTokens /\ TradeRow(n).token \in AdditiveTokens
             \/ r.token \in LegacyTokens /\ TradeRow(n).token \in LegacyTokens
      PROVE  FALSE
  <2>1. /\ r.entity_index \in Nat
        /\ r.token \in AdditiveTokens => r.entity_index < block * IndexRoom
        /\ r.token \in LegacyTokens => r.entity_index \in 1..counters["token_trade"]
    BY DEF TradesPlaced
  <2>2. /\ TradeRow(n).entity_index \in Nat
        /\ TradeRow(n).token \in AdditiveTokens => block * IndexRoom < TradeRow(n).entity_index
        /\ TradeRow(n).token \in LegacyTokens => counters["token_trade"] < TradeRow(n).entity_index
    BY NewRowPlaced
  <2>3. block \in Nat /\ counters["token_trade"] \in Nat
    BY Bounds
  <2> QED
    BY <1>3, <2>1, <2>2, <2>3, SMT DEF IndexRoom
<1>4. ASSUME NEW n \in NewTrades, NEW m \in NewTrades,
             TradeRow(n).entity_index = TradeRow(m).entity_index,
             \/ TradeRow(n).token \in AdditiveTokens /\ TradeRow(m).token \in AdditiveTokens
             \/ TradeRow(n).token \in LegacyTokens /\ TradeRow(m).token \in LegacyTokens
      PROVE  n = m
  <2>1. /\ TradeRow(n).token = logs[n].token /\ TradeRow(m).token = logs[m].token
        /\ n \in Nat /\ m \in Nat
    BY NewIndexes, NewTradesAre
  <2>2. block \in Nat /\ counters["token_trade"] \in Nat
    BY Bounds
  <2>3. CASE TradeRow(n).token \in AdditiveTokens /\ TradeRow(m).token \in AdditiveTokens
    <3>1. block * IndexRoom + n = block * IndexRoom + m
      BY <1>4, <2>1, <2>3, NewIndexes
    <3> QED
      BY <2>1, <2>2, <3>1, SMT DEF IndexRoom
  <2>4. CASE TradeRow(n).token \in LegacyTokens /\ TradeRow(m).token \in LegacyTokens
    <3>1. counters["token_trade"] + Cardinality(UpTo(NewLegacy, n))
            = counters["token_trade"] + Cardinality(UpTo(NewLegacy, m))
      BY <1>4, <2>1, <2>4, NewIndexes
    <3>2. IsFiniteSet(NewLegacy) /\ NewLegacy \subseteq Nat /\ n \in NewLegacy /\ m \in NewLegacy
      BY <2>1, <2>4, Bounds, NewTradesAre
    <3>5. /\ Cardinality(UpTo(NewLegacy, n)) \in 1..Cardinality(NewLegacy)
          /\ Cardinality(UpTo(NewLegacy, m)) \in 1..Cardinality(NewLegacy)
          /\ Cardinality(NewLegacy) \in Nat
      BY <3>2, RankInBlock
    <3>3. Cardinality(UpTo(NewLegacy, n)) \in Nat /\ Cardinality(UpTo(NewLegacy, m)) \in Nat
      BY <3>5
    <3>4. Cardinality(UpTo(NewLegacy, n)) = Cardinality(UpTo(NewLegacy, m))
      BY ONLY <2>2, <3>1, <3>3
    <3> QED
      BY <3>2, <3>4, RanksDiffer
  <2> QED
    BY <1>4, <2>3, <2>4
<1>5. \A r \in db'.trades : r.token \in AdditiveTokens \/ r.token \in LegacyTokens
  BY EndBlockPlaced DEF TradesPlaced, Tokens
<1>6. ASSUME NEW r \in db'.trades, NEW s \in db'.trades, r.entity_index = s.entity_index
      PROVE  r = s
  <2>1. \/ r.token \in AdditiveTokens /\ s.token \in AdditiveTokens
        \/ r.token \in LegacyTokens /\ s.token \in LegacyTokens
    BY <1>2, <1>5, <1>6
  <2>2. CASE r \in db.trades /\ s \in db.trades
    BY <1>6, <2>2 DEF IndexesDiffer
  <2>3. CASE r \in db.trades /\ s \notin db.trades
    BY <1>1, <1>3, <1>6, <2>1, <2>3
  <2>4. CASE r \notin db.trades /\ s \in db.trades
    BY <1>1, <1>3, <1>6, <2>1, <2>4
  <2>5. CASE r \notin db.trades /\ s \notin db.trades
    BY <1>1, <1>4, <1>6, <2>1, <2>5
  <2> QED
    BY <2>2, <2>3, <2>4, <2>5
<1> QED
  BY <1>6 DEF IndexesDiffer

\* Legacy rows are still numbered in the order of their logs.
LEMMA LegacyInOrderAfter ==
    ASSUME TypeInv, TradesPlaced, LegacyInOrder, EndBlock
    PROVE  LegacyInOrder'
<1>1. PICK old : old = LegacyTrades
  OBVIOUS
<1>2. PICK all : all = LegacyTrades'
  OBVIOUS
<1>3. all = old \cup {TradeRow(n) : n \in NewLegacy}
  BY <1>1, <1>2, LegacyAfter
<1>4. PICK c \in Nat : c = committed
  BY DEF TypeInv
<1>5. /\ old \subseteq db.trades /\ \A r \in old : r.log \in 1..c
      /\ Cardinality(old) = counters["token_trade"]
  BY <1>1, <1>4 DEF LegacyTrades, TradesPlaced
<1>6. /\ NewLegacy \subseteq NewTrades
      /\ \A n \in NewLegacy : n \in Nat /\ n > 0 /\ TradeRow(n).log = c + n
                              /\ logs[n].token \in LegacyTokens
  BY <1>4, NewIndexes, NewTradesAre
<1>7. ASSUME NEW r \in old PROVE r.entity_index = Cardinality({s \in all : s.log <= r.log})
  <2>1. \A n \in NewLegacy : ~ (TradeRow(n).log <= r.log)
    <3>1. r.log \in 1..c
      BY <1>5
    <3> QED
      BY <1>6, <3>1
  <2>2. {s \in all : s.log <= r.log} = {s \in old : s.log <= r.log}
    BY <1>3, <2>1
  <2> QED
    BY <1>1, <2>2 DEF LegacyInOrder
<1>8. ASSUME NEW n \in NewLegacy
      PROVE  TradeRow(n).entity_index = Cardinality({s \in all : s.log <= TradeRow(n).log})
  <2>1. \A r \in old : r.log <= TradeRow(n).log
    <3>1. \A r \in old : r.log \in 1..c
      BY <1>5
    <3> QED
      BY <1>6, <3>1
  <2>2. \A m \in NewLegacy : TradeRow(m).log <= TradeRow(n).log <=> m \in UpTo(NewLegacy, n)
    BY <1>6 DEF UpTo
  <2>3. UpTo(NewLegacy, n) \subseteq NewLegacy
    BY DEF UpTo
  <2>4. {s \in all : s.log <= TradeRow(n).log} = old \cup {TradeRow(m) : m \in UpTo(NewLegacy, n)}
    BY <1>3, <2>1, <2>2, <2>3
  <2>5. UpTo(NewLegacy, n) \subseteq NewTrades
    BY <1>6, <2>3
  <2>6. Cardinality({s \in all : s.log <= TradeRow(n).log})
          = Cardinality(old) + Cardinality(UpTo(NewLegacy, n))
    BY <1>5, <2>4, <2>5, RowsAdded
  <2>7. TradeRow(n).entity_index = counters["token_trade"] + Cardinality(UpTo(NewLegacy, n))
    BY <1>6, NewIndexes
  <2> QED
    BY <1>5, <2>6, <2>7
<1>9. \A r \in all : r.entity_index = Cardinality({s \in all : s.log <= r.log})
  BY <1>3, <1>7, <1>8
<1> QED
  BY <1>2, <1>9 DEF LegacyInOrder

\* Buys and sells of a block are its trades.
LEMMA TimesAre ==
    ASSUME TypeInv, NEW t \in Tokens
    PROVE  /\ Times(t, TRUE) \in Nat /\ Times(t, FALSE) \in Nat
           /\ Times(t, TRUE) + Times(t, FALSE) = Cardinality(Of({"Trade", "Swap"}, t))
<1>1. PICK own : own = Of({"Trade", "Swap"}, t)
  OBVIOUS
<1>2. IsFiniteSet(own) /\ \A n \in own : logs[n].is_buy \in BOOLEAN
  <2>1. own \subseteq NewTrades
    BY <1>1, NewTradesAre
  <2> QED
    BY <2>1, NewTradesAre, FS_Subset
<1>3. PICK buys : buys = {n \in own : logs[n].is_buy = TRUE}
  OBVIOUS
<1>4. PICK sells : sells = {n \in own : logs[n].is_buy = FALSE}
  OBVIOUS
<1>5. buys \cup sells = own /\ buys \cap sells = {} /\ buys \subseteq own /\ sells \subseteq own
  BY <1>2, <1>3, <1>4
<1>6. IsFiniteSet(buys) /\ IsFiniteSet(sells) /\ Cardinality(buys) \in Nat /\ Cardinality(sells) \in Nat
  BY <1>2, <1>5, FS_Subset, FS_CardinalityType
<1>7. Cardinality(own) = Cardinality(buys) + Cardinality(sells) - Cardinality(buys \cap sells)
  BY <1>5, <1>6, FS_Union
<1>8. Cardinality(buys \cap sells) = 0
  BY <1>5, FS_EmptySet
<1>9. Times(t, TRUE) = Cardinality(buys) /\ Times(t, FALSE) = Cardinality(sells)
  BY <1>1, <1>3, <1>4 DEF Times
<1>10. PICK b \in Nat : b = Cardinality(buys)
  BY <1>6
<1>11. PICK s \in Nat : s = Cardinality(sells)
  BY <1>6
<1>12. Cardinality(own) = b + s
  BY <1>7, <1>8, <1>10, <1>11
<1> QED
  BY <1>1, <1>9, <1>10, <1>11, <1>12

\* A token's buys and sells are still as many as its trade rows.
LEMMA TimesAddUpAfter ==
    ASSUME TypeInv, TradesPlaced, TimesAddUp, EndBlock
    PROVE  TimesAddUp'
<1> SUFFICES ASSUME NEW t \in Tokens
             PROVE  db'.buy_times[t] + db'.sell_times[t] = Cardinality({r \in db'.trades : r.token = t})
  BY DEF TimesAddUp
<1>1. PICK old : old = {r \in db.trades : r.token = t}
  OBVIOUS
<1>2. PICK new : new = Of({"Trade", "Swap"}, t)
  OBVIOUS
<1>3. new = {n \in NewTrades : logs[n].token = t} /\ new \subseteq NewTrades
  BY <1>2, NewTradesAre
<1>4. {r \in db'.trades : r.token = t} = old \cup {TradeRow(n) : n \in new}
  <2>1. \A n \in NewTrades : TradeRow(n).token = logs[n].token
    BY NewIndexes
  <2> QED
    BY <1>1, <1>3, <2>1, TradesAfter
<1>5. Cardinality({r \in db'.trades : r.token = t}) = Cardinality(old) + Cardinality(new)
  BY <1>1, <1>3, <1>4, RowsAdded
<1>6. /\ db'.buy_times[t] = db.buy_times[t] + Times(t, TRUE)
      /\ db'.sell_times[t] = db.sell_times[t] + Times(t, FALSE)
  BY EndBlockCounts
<1>7. db.buy_times[t] \in Nat /\ db.sell_times[t] \in Nat
  BY DEF TypeInv
<1>8. db.buy_times[t] + db.sell_times[t] = Cardinality(old)
  BY <1>1 DEF TimesAddUp
<1>9. /\ Times(t, TRUE) \in Nat /\ Times(t, FALSE) \in Nat
      /\ Times(t, TRUE) + Times(t, FALSE) = Cardinality(new)
  BY <1>2, TimesAre
<1>10. PICK x \in Nat : x = db.buy_times[t]
  BY <1>7
<1>11. PICK y \in Nat : y = db.sell_times[t]
  BY <1>7
<1>12. PICK b \in Nat : b = Times(t, TRUE)
  BY <1>9
<1>13. PICK s \in Nat : s = Times(t, FALSE)
  BY <1>9
<1>14. db'.buy_times[t] = x + b /\ db'.sell_times[t] = y + s
  BY <1>6, <1>10, <1>11, <1>12, <1>13
<1>15. x + y = Cardinality(old) /\ b + s = Cardinality(new)
  BY <1>8, <1>9, <1>10, <1>11, <1>12, <1>13
<1> QED
  BY <1>5, <1>14, <1>15

-----------------------------------------------------------------------------
(***************************************************************************)
(* The steps.                                                              *)
(***************************************************************************)
Numbers == TradesPlaced /\ TradesNumberedOnce

\* The invariant holds at first.
LEMMA InitIInv == Init => IInv
<1> SUFFICES ASSUME Init PROVE IInv
  OBVIOUS
<1>1. /\ state = [t \in Tokens |-> "NONE"]
      /\ supply = [t \in Tokens |-> 0] /\ peak = [t \in Tokens |-> 0]
      /\ quote = [t \in Tokens |-> <<"none", 0>>]
      /\ logs = <<>> /\ committed = 0 /\ block = FirstBlock /\ addresses = {}
      /\ curve = [t \in Tokens |-> 0] /\ counters = [k \in Counters |-> 0]
  BY DEF Init, Counters
<1>2. /\ db.status = [t \in Tokens |-> "NONE"] /\ db.supply = [t \in Tokens |-> 0]
      /\ db.max_supply = [t \in Tokens |-> 0] /\ db.price = [t \in Tokens |-> <<"none", 0>>]
      /\ db.buy_times = [t \in Tokens |-> 0] /\ db.sell_times = [t \in Tokens |-> 0]
      /\ db.trades = {} /\ db.token_counts = 0 /\ db.listed_counts = 0
  BY DEF Init
<1>3. TypeInv
  <2>1. /\ state \in [Tokens -> States] /\ supply \in [Tokens -> Nat] /\ peak \in [Tokens -> Nat]
        /\ quote \in [Tokens -> Prices] /\ curve \in [Tokens -> Int] /\ counters \in [Counters -> Nat]
    BY <1>1 DEF States, Prices
  <2>2. logs \in Seq(Log) /\ Len(logs) = 0
    BY <1>1
  <2>3. /\ db.status \in [Tokens -> States]
        /\ db.supply \in [Tokens -> Int] /\ db.max_supply \in [Tokens -> Int]
        /\ db.price \in [Tokens -> Prices]
        /\ db.buy_times \in [Tokens -> Nat] /\ db.sell_times \in [Tokens -> Nat]
    BY <1>2 DEF States, Prices
  <2> QED
    BY <1>1, <1>2, <2>1, <2>2, <2>3, MarketAssumption DEF TypeInv
<1>4. RowsPending
  <2> SUFFICES ASSUME NEW t \in Tokens PROVE TokenPending(t)
    BY DEF RowsPending
  <2>1. PICK row \in TokenRow : row = RowOf(t)
    BY <1>3, RowType
  <2>2. ContractOf(t) = row /\ row.state = "NONE" /\ row.supply = 0
    BY <1>1, <1>2, <2>1 DEF RowOf, ContractOf
  <2>3. PendingIn(<<>>, {}, row.supply, committed, row, row, t)
    BY <2>2, EmptyPending
  <2>4. logs = <<>> /\ addresses = {} /\ curve[t] = row.supply
    BY <1>1, <2>2
  <2>5. PendingIn(logs, addresses, curve[t], committed, RowOf(t), ContractOf(t), t)
    BY <2>1, <2>2, <2>3, <2>4
  <2> QED
    BY <2>5, PendingViews DEF PendingAgrees
<1>5. CountsPending
  <2>1. Creations = {} /\ Listings = {}
    BY <1>1 DEF Creations, Listings, All, Of
  <2>2. {t \in Tokens : state[t] # "NONE"} = {} /\ {t \in Tokens : state[t] = "LISTED"} = {}
    BY <1>1
  <2>3. Cardinality({}) = 0
    BY FS_EmptySet
  <2> QED
    BY <1>2, <2>1, <2>2, <2>3 DEF CountsPending
<1>6. TradesPlaced
  <2>1. LegacyTrades = {} /\ Cardinality({}) = 0 /\ IsFiniteSet({})
    BY <1>2, FS_EmptySet DEF LegacyTrades
  <2>2. counters["token_trade"] = 0
    BY <1>1 DEF Counters
  <2> QED
    BY <1>1, <1>2, <2>1, <2>2 DEF TradesPlaced
<1>7. TradesNumberedOnce
  <2>1. IndexesDiffer /\ LegacyInOrder
    BY <1>2 DEF IndexesDiffer, LegacyInOrder, LegacyTrades
  <2>2. TimesAddUp
    <3> SUFFICES ASSUME NEW t \in Tokens
                 PROVE  db.buy_times[t] + db.sell_times[t] = Cardinality({r \in db.trades : r.token = t})
      BY DEF TimesAddUp
    <3>1. {r \in db.trades : r.token = t} = {} /\ Cardinality({}) = 0
      BY <1>2, FS_EmptySet
    <3> QED
      BY <1>2, <3>1
  <2> QED
    BY <2>1, <2>2, NumberedParts DEF NumberedInParts
<1> QED
  BY <1>3, <1>4, <1>5, <1>6, <1>7 DEF IInv

\* While the block is open the trade rows stay.
LEMMA NumbersKept ==
    ASSUME Numbers, SameBlock
    PROVE  Numbers'
<1>1. db' = db /\ committed' = committed /\ block' = block /\ counters' = counters
  BY DEF SameBlock, stores
<1>2. TradesPlaced'
  BY <1>1 DEF Numbers, TradesPlaced, LegacyTrades
<1>3. TradesNumberedOnce'
  BY <1>1 DEF Numbers, TradesNumberedOnce
<1> QED
  BY <1>2, <1>3 DEF Numbers

\* Types while the block is open.
LEMMA OpenType ==
    ASSUME TypeInv, SameBlock, logs' \in Seq(Log),
           Len(logs') <= MaxLogs, committed + Len(logs') <= MaxHistory,
           state' \in [Tokens -> States],
           supply' \in [Tokens -> Nat], peak' \in [Tokens -> Nat],
           quote' \in [Tokens -> Prices]
    PROVE  TypeInv'
<1>1. /\ db' = db /\ committed' = committed /\ block' = block /\ counters' = counters
      /\ addresses' = addresses /\ curve' = curve
  BY DEF SameBlock, stores
<1> QED
  BY <1>1 DEF TypeInv

OpenInv == TypeInv /\ RowsPending /\ CountsPending

\* The invariant of an open block survives a change of listing.
LEMMA ListingOpen ==
    ASSUME OpenInv, NEW t \in Tokens, NEW kind, NEW after, ListingStep(kind, t, after),
           (kind = "NewToken") <=> (state[t] = "NONE")
    PROVE  OpenInv' /\ SameBlock
<1>1. TypeInv /\ RowsPending /\ CountsPending
  BY DEF OpenInv
<1>2. RowsPending' /\ CountsPending'
  BY <1>1, ListingRows, ListingCounts
<1>3. PICK e \in Log : e = LogOf(kind, t, FALSE, 0)
  <2>1. kind \in LogKinds /\ FALSE \in BOOLEAN /\ 0 \in Nat
    BY DEF ListingStep, LogKinds
  <2> QED
    BY <2>1 DEF LogOf, Log
<1>4. /\ logs' = Append(logs, e) /\ SameBlock
      /\ Len(logs') <= MaxLogs /\ committed + Len(logs') <= MaxHistory
  BY <1>1, <1>3, EmitOne DEF ListingStep
<1>5. logs' \in Seq(Log)
  BY <1>1, <1>4 DEF TypeInv
<1>6. after \in States
  BY DEF ListingStep, StatusOf, ListingKinds, States
<1>7. /\ state' \in [Tokens -> States]
      /\ supply' \in [Tokens -> Nat] /\ peak' \in [Tokens -> Nat] /\ quote' \in [Tokens -> Prices]
  BY <1>1, <1>6 DEF TypeInv, ListingStep
<1>8. TypeInv'
  BY <1>1, <1>4, <1>5, <1>7, OpenType
<1> QED
  BY <1>2, <1>4, <1>8 DEF OpenInv

\* It survives a swap.
LEMMA SwapOpen ==
    ASSUME OpenInv, NEW t \in Tokens, NEW is_buy \in BOOLEAN, Swap(t, is_buy)
    PROVE  OpenInv' /\ SameBlock
<1>1. TypeInv /\ RowsPending /\ CountsPending
  BY DEF OpenInv
<1>2. PICK e \in Log : e = LogOf("Swap", t, is_buy, 0) /\ e.kind = "Swap"
  <2>1. "Swap" \in LogKinds /\ 0 \in Nat
    BY DEF LogKinds
  <2>2. LogOf("Swap", t, is_buy, 0) \in Log
    BY <2>1 DEF LogOf, Log
  <2> QED
    BY <2>2 DEF LogOf
<1>3. /\ logs' = Append(logs, e) /\ SameBlock
      /\ Len(logs') <= MaxLogs /\ committed + Len(logs') <= MaxHistory
  BY <1>1, <1>2, EmitOne DEF Swap
<1>4. logs' \in Seq(Log) /\ Len(logs') \in Nat /\ committed \in Nat
  BY <1>1, <1>3 DEF TypeInv
<1>5. /\ quote' = [quote EXCEPT ![t] = <<"swap", committed + Len(logs')>>]
      /\ supply' = supply /\ peak' = peak /\ state' = state
  BY DEF Swap
<1>6. <<"swap", committed + Len(logs')>> \in Prices
  BY <1>4 DEF Prices
<1>7. /\ state' \in [Tokens -> States]
      /\ supply' \in [Tokens -> Nat] /\ peak' \in [Tokens -> Nat] /\ quote' \in [Tokens -> Prices]
  BY <1>1, <1>5, <1>6 DEF TypeInv
<1>8. TypeInv'
  BY <1>1, <1>3, <1>4, <1>7, OpenType
<1>9. CountsPending'
  <2>1. e.kind \notin {"NewToken", "TokenListedToDex"}
    BY <1>2
  <2> QED
    BY <1>1, <1>3, <1>5, <2>1, CountsKept
<1>10. RowsPending'
  BY <1>1, SwapRows
<1> QED
  BY <1>3, <1>8, <1>9, <1>10 DEF OpenInv

\* It survives a trade log of a contract that nobody announced.
LEMMA StrangerOpen ==
    ASSUME OpenInv, NEW t \in Tokens, NEW is_buy \in BOOLEAN, StrangerTrade(t, is_buy)
    PROVE  OpenInv' /\ SameBlock
<1>1. TypeInv /\ RowsPending /\ CountsPending
  BY DEF OpenInv
<1>2. PICK e \in Log : e = LogOf("Trade", t, is_buy, 1) /\ e.kind = "Trade"
  <2>1. "Trade" \in LogKinds /\ 1 \in Nat
    BY DEF LogKinds
  <2>2. LogOf("Trade", t, is_buy, 1) \in Log
    BY <2>1 DEF LogOf, Log
  <2> QED
    BY <2>2 DEF LogOf
<1>3. /\ logs' = Append(logs, e) /\ SameBlock
      /\ Len(logs') <= MaxLogs /\ committed + Len(logs') <= MaxHistory
  BY <1>1, <1>2, EmitOne DEF StrangerTrade
<1>4. logs' \in Seq(Log)
  BY <1>1, <1>3 DEF TypeInv
<1>5. quote' = quote /\ supply' = supply /\ peak' = peak /\ state' = state
  BY DEF StrangerTrade, contracts
<1>6. TypeInv'
  <2>1. /\ state' \in [Tokens -> States]
        /\ supply' \in [Tokens -> Nat] /\ peak' \in [Tokens -> Nat] /\ quote' \in [Tokens -> Prices]
    BY <1>1, <1>5 DEF TypeInv
  <2> QED
    BY <1>1, <1>3, <1>4, <2>1, OpenType
<1>7. CountsPending'
  <2>1. e.kind \notin {"NewToken", "TokenListedToDex"}
    BY <1>2
  <2> QED
    BY <1>1, <1>3, <1>5, <2>1, CountsKept
<1>8. RowsPending'
  BY <1>1, StrangerRows
<1> QED
  BY <1>3, <1>6, <1>7, <1>8 DEF OpenInv

\* It survives a trade on the curve.
LEMMA TradeOpen ==
    ASSUME OpenInv, NEW t \in Tokens, NEW is_buy \in BOOLEAN,
           NEW amount \in Nat, NEW injected \in Nat, Trade(t, is_buy, amount, injected)
    PROVE  OpenInv' /\ SameBlock
<1>1. TypeInv /\ RowsPending /\ CountsPending
  BY DEF OpenInv
<1>2. PICK d \in Log : d = LogOf("AntiSnipeInjected", t, TRUE, injected) /\ d.kind = "AntiSnipeInjected"
  <2>1. "AntiSnipeInjected" \in LogKinds /\ TRUE \in BOOLEAN
    BY DEF LogKinds
  <2>2. LogOf("AntiSnipeInjected", t, TRUE, injected) \in Log
    BY <2>1, LogType
  <2> QED
    BY <2>2 DEF LogOf
<1>3. PICK e \in Log : e = LogOf("Trade", t, is_buy, amount) /\ e.kind = "Trade"
  <2>1. "Trade" \in LogKinds
    BY DEF LogKinds
  <2>2. LogOf("Trade", t, is_buy, amount) \in Log
    BY <2>1, LogType
  <2> QED
    BY <2>2 DEF LogOf
<1>4. PICK after : after = supply[t] + injected + (IF is_buy THEN amount ELSE -amount)
  OBVIOUS
<1>5. /\ after \in 0..MaxSupply /\ state' = state
      /\ supply' = [supply EXCEPT ![t] = after]
      /\ peak' = [peak EXCEPT ![t] = IF peak[t] < after THEN after ELSE peak[t]]
      /\ quote' = [quote EXCEPT ![t] = <<"curve", after>>]
      /\ Emit((IF injected > 0 THEN <<d>> ELSE <<>>) \o <<e>>)
  BY <1>2, <1>3, <1>4 DEF Trade
<1>6. /\ SameBlock /\ (logs' = Append(logs, e) \/ logs' = Append(Append(logs, d), e))
      /\ Len(logs') <= MaxLogs /\ committed + Len(logs') <= MaxHistory
  BY <1>1, <1>5, EmitTrade
<1>7. logs' \in Seq(Log)
  <2>1. logs \in Seq(Log) /\ Append(logs, d) \in Seq(Log)
    BY <1>1 DEF TypeInv
  <2> QED
    BY <1>6, <2>1
<1>8. TypeInv'
  <2>1. after \in Nat
    BY <1>5, MarketAssumption
  <2>2. <<"curve", after>> \in Prices
    BY <2>1 DEF Prices
  <2>3. peak[t] \in Nat
    BY <1>1 DEF TypeInv
  <2>4. supply' \in [Tokens -> Nat] /\ peak' \in [Tokens -> Nat]
    BY <1>1, <1>5, <2>1, <2>3 DEF TypeInv
  <2>5. quote' \in [Tokens -> Prices] /\ state' \in [Tokens -> States]
    BY <1>1, <1>5, <2>2 DEF TypeInv
  <2> QED
    BY <1>1, <1>6, <1>7, <2>4, <2>5, OpenType
<1>9. CountsPending'
  <2>1. /\ d.kind \notin {"NewToken", "TokenListedToDex"}
        /\ e.kind \notin {"NewToken", "TokenListedToDex"}
    BY <1>2, <1>3
  <2> QED
    BY <1>1, <1>5, <1>6, <2>1, CountsKept
<1>10. RowsPending'
  BY <1>1, TradeRows
<1> QED
  BY <1>6, <1>8, <1>9, <1>10 DEF OpenInv

\* The end of a block keeps the types.
LEMMA EndBlockType ==
    ASSUME TypeInv, RowsPending, EndBlock
    PROVE  TypeInv'
<1>1. ASSUME NEW t \in Tokens
      PROVE  /\ LastStatus(t) = state[t] /\ LastSupply(t) = supply[t] /\ MaxSupplyOf(t) = peak[t]
             /\ LastPrice(t) = quote[t] /\ SupplyAt(Len(logs), t) = supply[t]
  BY DEF RowsPending, TokenPending
<1>2. /\ state \in [Tokens -> States] /\ supply \in [Tokens -> Nat] /\ peak \in [Tokens -> Nat]
      /\ quote \in [Tokens -> Prices]
  BY DEF TypeInv
<1>3. /\ db'.status \in [Tokens -> States] /\ db'.price \in [Tokens -> Prices]
  BY <1>1, <1>2, EndBlockRows
<1>4. /\ db'.supply \in [Tokens -> Int] /\ db'.max_supply \in [Tokens -> Int] /\ curve' \in [Tokens -> Int]
  BY <1>1, <1>2, EndBlockRows
<1>5. db'.buy_times \in [Tokens -> Nat] /\ db'.sell_times \in [Tokens -> Nat]
  <2>1. \A t \in Tokens : Times(t, TRUE) \in Nat /\ Times(t, FALSE) \in Nat
    BY TimesAre
  <2>2. \A t \in Tokens : db.buy_times[t] \in Nat /\ db.sell_times[t] \in Nat
    BY DEF TypeInv
  <2>3. \A t \in Tokens : /\ db.buy_times[t] + Times(t, TRUE) \in Nat
                        /\ db.sell_times[t] + Times(t, FALSE) \in Nat
    <3>1. ASSUME NEW t \in Tokens
          PROVE  /\ db.buy_times[t] + Times(t, TRUE) \in Nat
                 /\ db.sell_times[t] + Times(t, FALSE) \in Nat
      <4>1. PICK b \in Nat : b = db.buy_times[t]
        BY <2>2
      <4>2. PICK s \in Nat : s = db.sell_times[t]
        BY <2>2
      <4>3. PICK c \in Nat : c = Times(t, TRUE)
        BY <2>1
      <4>4. PICK d \in Nat : d = Times(t, FALSE)
        BY <2>1
      <4>5. b + c \in Nat /\ s + d \in Nat
        OBVIOUS
      <4>6. db.buy_times[t] + Times(t, TRUE) = b + c
        BY ONLY <4>1, <4>3
      <4>7. db.sell_times[t] + Times(t, FALSE) = s + d
        BY ONLY <4>2, <4>4
      <4> QED
        BY <4>5, <4>6, <4>7
    <3> QED
      BY <3>1
  <2>4. [t \in Tokens |-> db.buy_times[t] + Times(t, TRUE)] \in [Tokens -> Nat]
    BY <2>3
  <2>5. [t \in Tokens |-> db.sell_times[t] + Times(t, FALSE)] \in [Tokens -> Nat]
    BY <2>3
  <2> QED
    BY <2>4, <2>5, EndBlockCounts
<1>6. db'.token_counts \in Nat /\ db'.listed_counts \in Nat
  <2>1. AllAgree /\ logs \in Seq(Log)
    BY AllViews DEF TypeInv
  <2>2. Cardinality(Creations) \in Nat /\ Cardinality(Listings) \in Nat
    BY <2>1, AllType DEF AllAgree
  <2>3. db.token_counts \in Nat /\ db.listed_counts \in Nat
    BY DEF TypeInv
  <2> QED
    BY <2>2, <2>3, EndBlockCounts
<1>7. addresses' \subseteq Tokens
  <2>1. \A n \in Creations : logs[n].token \in Tokens
    BY DEF Creations, All, Of
  <2>2. {logs[n].token : n \in Creations} \subseteq Tokens
    BY <2>1
  <2>3. addresses \subseteq Tokens
    BY DEF TypeInv
  <2> QED
    BY <2>2, <2>3, EndBlockRows
<1>8. counters' \in [Counters -> Nat]
  <2>1. ASSUME NEW kinds PROVE Cardinality(OfLegacy(kinds)) \in Nat
    <3>1. OfLegacy(kinds) \subseteq 1..Len(logs) /\ Len(logs) \in Nat
      BY DEF OfLegacy, Of, TypeInv
    <3>2. PICK len \in Nat : len = Len(logs)
      BY <3>1
    <3>3. IsFiniteSet(1..len)
      BY FS_Interval
    <3> QED
      BY <3>1, <3>2, <3>3, FS_Subset, FS_CardinalityType
  <2>2. ASSUME NEW k \in Counters
        PROVE  counters[k] + Cardinality(
                 CASE k = "token" -> OfLegacy({"NewToken"})
                   [] k = "token_trade" -> OfLegacy({"Trade", "Swap"})
                   [] k = "listed_token" -> OfLegacy({"TokenListedToDex"})) \in Nat
    <3>1. PICK own : own = CASE k = "token" -> OfLegacy({"NewToken"})
                             [] k = "token_trade" -> OfLegacy({"Trade", "Swap"})
                             [] k = "listed_token" -> OfLegacy({"TokenListedToDex"})
      OBVIOUS
    <3>2. \/ own = OfLegacy({"NewToken"}) \/ own = OfLegacy({"Trade", "Swap"})
          \/ own = OfLegacy({"TokenListedToDex"})
      BY <3>1 DEF Counters
    <3>3. Cardinality(own) \in Nat
      BY <2>1, <3>2
    <3>4. PICK a \in Nat : a = counters[k]
      BY DEF TypeInv
    <3>5. PICK c \in Nat : c = Cardinality(own)
      BY <3>3
    <3>6. a + c \in Nat
      OBVIOUS
    <3> QED
      BY ONLY <3>1, <3>4, <3>5, <3>6
  <2> QED
    BY <2>2, EndBlockCounters
<1>9. /\ logs' \in Seq(Log) /\ Len(logs') = 0 /\ committed' \in Nat
      /\ committed' <= MaxHistory /\ block' \in Nat /\ block' >= FirstBlock
  <2>1. logs' = <<>> /\ committed' = committed + Len(logs) /\ block' = block + 1
    BY EndBlockRows
  <2>2. /\ committed \in Nat /\ Len(logs) \in Nat /\ committed + Len(logs) <= MaxHistory
        /\ block \in Nat /\ block >= FirstBlock
    BY DEF TypeInv
  <2>3. FirstBlock \in Nat
    BY MarketAssumption
  <2> QED
    BY <2>1, <2>2, <2>3
<1>10. Len(logs') <= MaxLogs /\ committed' + Len(logs') <= MaxHistory
  <2>1. MaxLogs \in Nat
    BY MarketAssumption
  <2> QED
    BY <1>9, <2>1
<1>11. /\ state' = state /\ supply' = supply /\ peak' = peak /\ quote' = quote
  BY EndBlockRows
<1> QED
  BY <1>2, <1>3, <1>4, <1>5, <1>6, <1>7, <1>8, <1>9, <1>10, <1>11 DEF TypeInv

\* The end of a block keeps the whole invariant.
LEMMA EndBlockIInv ==
    ASSUME IInv, EndBlock
    PROVE  IInv'
<1>1. TypeInv /\ RowsPending /\ CountsPending /\ TradesPlaced /\ TradesNumberedOnce
  BY DEF IInv
<1>2. IndexesDiffer /\ LegacyInOrder /\ TimesAddUp
  BY <1>1, NumberedParts DEF NumberedInParts
<1>3. TypeInv' /\ RowsPending' /\ CountsPending' /\ TradesPlaced'
  BY <1>1, EndBlockType, EndBlockPending, EndBlockCountsPending, EndBlockPlaced
<1>4. IndexesDiffer' /\ LegacyInOrder' /\ TimesAddUp'
  BY <1>1, <1>2, IndexesDifferAfter, LegacyInOrderAfter, TimesAddUpAfter
<1>5. NumberedInParts'
  BY NumberedParts, PTL
<1>6. TradesNumberedOnce'
  BY <1>4, <1>5 DEF NumberedInParts
<1> QED
  BY <1>3, <1>6 DEF IInv

\* A step of an open block.
LEMMA OpenStep ==
    ASSUME OpenInv, NEW t \in Tokens, NEW is_buy \in BOOLEAN,
           NEW amount \in Nat, NEW injected \in Nat,
           \/ NewToken(t) \/ Trade(t, is_buy, amount, injected) \/ StrangerTrade(t, is_buy)
           \/ QueueListing(t) \/ RecoverListing(t) \/ ListToDex(t) \/ Swap(t, is_buy)
    PROVE  OpenInv' /\ SameBlock
<1>1. CASE NewToken(t)
  <2>1. state[t] = "NONE" /\ ListingStep("NewToken", t, "BONDING_CURVE")
    BY <1>1, ListingSteps DEF NewToken
  <2> QED
    BY <2>1, ListingOpen
<1>2. CASE Trade(t, is_buy, amount, injected)
  BY <1>2, TradeOpen
<1>3. CASE StrangerTrade(t, is_buy)
  BY <1>3, StrangerOpen
<1>4. CASE QueueListing(t)
  <2>1. state[t] # "NONE" /\ ListingStep("TokenListingQueued", t, "LISTING_PENDING")
    BY <1>4, ListingSteps DEF QueueListing
  <2> QED
    BY <2>1, ListingOpen
<1>5. CASE RecoverListing(t)
  <2>1. state[t] # "NONE" /\ ListingStep("FailedListingRecovered", t, "BONDING_CURVE")
    BY <1>5, ListingSteps DEF RecoverListing
  <2> QED
    BY <2>1, ListingOpen
<1>6. CASE ListToDex(t)
  <2>1. state[t] # "NONE" /\ ListingStep("TokenListedToDex", t, "LISTED")
    BY <1>6, ListingSteps DEF ListToDex
  <2> QED
    BY <2>1, ListingOpen
<1>7. CASE Swap(t, is_buy)
  BY <1>7, SwapOpen
<1> QED
  BY <1>1, <1>2, <1>3, <1>4, <1>5, <1>6, <1>7

\* The invariant is inductive.
LEMMA NextIInv == IInv /\ [Next]_vars => IInv'
<1> SUFFICES ASSUME IInv, [Next]_vars PROVE IInv'
  OBVIOUS
<1>1. OpenInv /\ Numbers
  BY DEF IInv, OpenInv, Numbers
<1>2. (IInv <=> OpenInv /\ Numbers)
  BY DEF IInv, OpenInv, Numbers
<1>3. ASSUME OpenInv', SameBlock PROVE IInv'
  BY <1>1, <1>3, NumbersKept DEF IInv, OpenInv, Numbers
<1>4. CASE UNCHANGED vars
  <2>1. UNCHANGED <<state, supply, peak, quote, logs, committed, addresses, curve, counters, block, db>>
    BY <1>4 DEF vars, contracts, stores
  <2>2. SameBlock
    BY <2>1 DEF SameBlock, stores
  <2>3. TypeInv'
    BY <1>1, <2>1 DEF OpenInv, TypeInv
  <2>4. RowsPending'
    <3> SUFFICES ASSUME NEW u \in Tokens PROVE TokenPending(u)'
      BY DEF RowsPending
    <3>1. PICK con : con = ContractOf(u)
      OBVIOUS
    <3>2. PendingIn(logs', addresses, curve[u], committed, RowOf(u), con, u)
      BY <1>1, <2>1, <3>1, OwnRow DEF OpenInv
    <3>3. con = [supply |-> supply'[u], peak |-> peak'[u], quote |-> quote'[u], state |-> state'[u]]
      BY <2>1, <3>1 DEF ContractOf
    <3> QED
      BY <2>2, <3>2, <3>3, Stepped
  <2>5. CountsPending'
    <3>1. AllAgree /\ AllAgree'
      BY AllViews, PTL
    <3>2. Creations' = Creations /\ Listings' = Listings
      BY <2>1, <3>1 DEF AllAgree
    <3> QED
      BY <1>1, <2>1, <3>2 DEF OpenInv, CountsPending
  <2> QED
    BY <1>3, <2>2, <2>3, <2>4, <2>5 DEF OpenInv
<1>5. CASE EndBlock
  BY <1>5, EndBlockIInv
<1>6. CASE \E t \in Tokens, is_buy \in BOOLEAN, amount \in 1..MaxSupply, injected \in 0..1 :
             Trade(t, is_buy, amount, injected)
  BY <1>1, <1>3, <1>6, OpenStep
<1>7. ASSUME NEW t \in Tokens, NEW is_buy \in BOOLEAN,
             \/ NewToken(t) \/ StrangerTrade(t, is_buy)
             \/ QueueListing(t) \/ RecoverListing(t) \/ ListToDex(t) \/ Swap(t, is_buy)
      PROVE  IInv'
  <2>1. 0 \in Nat
    OBVIOUS
  <2> QED
    BY <1>1, <1>3, <1>7, <2>1, OpenStep
<1>8. TRUE \in BOOLEAN
  OBVIOUS
<1> QED
  BY <1>4, <1>5, <1>6, <1>7, <1>8 DEF Next

\* The inductive invariant holds at every moment.
THEOREM Invariance == Spec => []IInv
BY InitIInv, NextIInv, PTL DEF Spec

(***************************************************************************)
(* Between blocks a token's row has the curve's supply, the highest supply *)
(* after a trade and the last price: legacy_db_out, v11_db_out and         *)
(* v14_core_db_out, for all tokens, amounts and lengths of blocks.         *)
(***************************************************************************)
THEOREM RowsAlwaysFollowCurve == Spec => []RowsFollowCurve
<1>1. IInv => RowsFollowCurve
  <2> SUFFICES ASSUME IInv, logs = <<>>
               PROVE  db.supply = supply /\ db.max_supply = peak /\ db.price = quote
    BY DEF RowsFollowCurve
  <2>1. TypeInv /\ RowsPending
    BY DEF IInv
  <2>2. ASSUME NEW t \in Tokens
        PROVE  db.supply[t] = supply[t] /\ db.max_supply[t] = peak[t] /\ db.price[t] = quote[t]
    <3>1. /\ LastSupply(t) = supply[t] /\ MaxSupplyOf(t) = peak[t] /\ LastPrice(t) = quote[t]
      BY <2>1 DEF RowsPending, TokenPending
    <3>2. \A kinds : Of(kinds, t) = {}
      BY DEF Of
    <3>3. LastSupply(t) = db.supply[t] /\ LastPrice(t) = db.price[t]
      BY <3>2 DEF LastSupply, LastPrice, Publishing
    <3>4. MaxSupplyOf(t) = db.max_supply[t]
      <4>1. PICK peaks : peaks = {db.max_supply[t]}
        OBVIOUS
      <4>2. MaxSupplyOf(t) = Max(peaks)
        <5>1. {db.max_supply[t]} \cup {SupplyAt(n, t) : n \in Publishing(t)} = peaks
          BY <3>2, <4>1 DEF Publishing
        <5> QED
          BY <5>1 DEF MaxSupplyOf
      <4>3. db.max_supply[t] \in Int
        BY <2>1 DEF TypeInv
      <4>4. IsFiniteSet(peaks) /\ peaks \subseteq Int /\ peaks # {}
        BY <4>1, <4>3, FS_Singleton
      <4>5. Max(peaks) \in peaks
        BY <4>4, GreatestMember
      <4> QED
        BY <4>1, <4>2, <4>5
    <3> QED
      BY <3>1, <3>3, <3>4
  <2>3. /\ db.supply \in [Tokens -> Int] /\ db.max_supply \in [Tokens -> Int]
        /\ db.price \in [Tokens -> Prices]
        /\ supply \in [Tokens -> Nat] /\ peak \in [Tokens -> Nat] /\ quote \in [Tokens -> Prices]
    BY <2>1 DEF TypeInv
  <2> QED
    BY <2>2, <2>3
<1> QED
  BY <1>1, Invariance, PTL

(***************************************************************************)
(* Between blocks listing states and the summary's counts are those of the *)
(* contracts: the listing handlers of the three writers and pump_summary.  *)
(***************************************************************************)
THEOREM ListingAlwaysFollows == Spec => []ListingFollows
<1>1. IInv => ListingFollows
  <2> SUFFICES ASSUME IInv, logs = <<>>
               PROVE  /\ db.status = state
                      /\ db.token_counts = Cardinality({t \in Tokens : state[t] # "NONE"})
                      /\ db.listed_counts = Cardinality({t \in Tokens : state[t] = "LISTED"})
    BY DEF ListingFollows
  <2>1. TypeInv /\ RowsPending /\ CountsPending
    BY DEF IInv
  <2>2. ASSUME NEW t \in Tokens PROVE db.status[t] = state[t]
    <3>1. LastStatus(t) = state[t]
      BY <2>1 DEF RowsPending, TokenPending
    <3>2. Of(ListingKinds, t) = {}
      BY DEF Of
    <3> QED
      BY <3>1, <3>2 DEF LastStatus
  <2>3. db.status \in [Tokens -> States] /\ state \in [Tokens -> States]
    BY <2>1 DEF TypeInv
  <2>4. db.status = state
    BY <2>2, <2>3
  <2>5. Creations = {} /\ Listings = {} /\ Cardinality({}) = 0
    BY FS_EmptySet DEF Creations, Listings, All, Of
  <2>6. db.token_counts \in Nat /\ db.listed_counts \in Nat
    BY <2>1 DEF TypeInv
  <2> QED
    BY <2>1, <2>4, <2>5, <2>6 DEF CountsPending
<1> QED
  BY <1>1, Invariance, PTL

(***************************************************************************)
(* Trade rows never share an index, the legacy ones are numbered without a *)
(* gap over trades and swaps, and buys and sells add up to the rows:       *)
(* token_trade of store_entity_indexes and additive_entity_index.          *)
(***************************************************************************)
THEOREM TradesAlwaysNumberedOnce == Spec => []TradesNumberedOnce
<1>1. IInv => TradesNumberedOnce
  BY DEF IInv
<1> QED
  BY <1>1, Invariance, PTL

-----------------------------------------------------------------------------
(***************************************************************************)
(* The components and buybacks of V14 tokens.  A log counts if it is no    *)
(* repetition and not from a stranger; that is what static_events,         *)
(* dynamic_events and normalize find out.                                  *)
(***************************************************************************)
ComponentKinds ==
    {"NewToken", "ComponentPairCreated", "NutboxStakingPoolLinked", "ComponentPoolTaxBurned",
     "SwapFeeCollected", "BuybackExecuted", "BuybackRewardNotified", "BuybackRewardClaimed"}
ComponentSources == {"pump", "hook", Stranger} \cup V14Tokens
ComponentLog ==
    [kind : ComponentKinds, source : ComponentSources, pair : V14!Pairs, amount : Nat, id : Nat]
ComponentRows == [configured : BOOLEAN, pair : BOOLEAN, pool : BOOLEAN, tax : Int]
Buybacks == [fees : Nat, spent : Nat, bought : Nat, notified : Nat, claimed : Nat]
BuybackRows == [native_reserve : Int, fees : Int, spent : Int, bought : Int, notified : Int, claimed : Int]

\* A pair or a buyback is that of a token the Pump has announced.
ChainType ==
    /\ born \subseteq V14Tokens
    /\ paired \subseteq V14!Pairs /\ \A p \in paired : p[1] \in born
    /\ linked \in [V14!Pairs -> {"no", "early", "late"}]
    /\ taxed \in [V14!Pairs -> Nat]
    /\ buyback \in [V14Tokens -> Buybacks]
    /\ \A t \in V14Tokens \ born : buyback[t] = V14!NoBuyback

ComponentsType ==
    /\ ChainType
    /\ logs14 \in Seq(ComponentLog)
    /\ addresses14 \subseteq V14Tokens /\ components \subseteq V14!Pairs
    /\ db14.components \in [V14!Pairs -> ComponentRows]
    /\ db14.states \in [V14Tokens -> BuybackRows]
    /\ db14.pools \subseteq V14!Pairs

\* A repeated log has the index of its first copy, and a token emits only
\* after it was announced.
LogsPlaced ==
    \A n \in DOMAIN logs14 :
        /\ logs14[n].id \in 1..n /\ logs14[logs14[n].id] = logs14[n]
        /\ logs14[n].source \in V14Tokens => V14!Dynamic(n)

Counted(kind) ==
    {n \in DOMAIN logs14 : logs14[n].kind = kind /\ logs14[n].id = n /\ logs14[n].source # Stranger}
OfPair(kind, p) == {n \in Counted(kind) : logs14[n].pair = p}
OfToken(kind, t) == {n \in Counted(kind) : logs14[n].pair[1] = t}
Amounts(S) == SumFunctionOnSet([n \in DOMAIN logs14 |-> logs14[n].amount], S)
PairKnown(n) ==
    \/ logs14[n].pair \in components
    \/ \E m \in Counted("ComponentPairCreated") : m <= n /\ logs14[m].pair = logs14[n].pair

\* What the open block has for a pair, and for a token.
OpenPair(p) == OfPair("ComponentPairCreated", p) # {}
OpenLink(p) == OfPair("NutboxStakingPoolLinked", p) # {}
OpenLate(p) == \E n \in OfPair("NutboxStakingPoolLinked", p) : PairKnown(n)
OpenTax(p) == Amounts(OfPair("ComponentPoolTaxBurned", p))
TaxKnown(p) == \A n \in OfPair("ComponentPoolTaxBurned", p) : PairKnown(n)
OpenToken(t) == OfToken("NewToken", t) # {}
OpenFees(t) == Amounts(OfToken("SwapFeeCollected", t))
OpenSpent(t) == Amounts(OfToken("BuybackExecuted", t))
OpenBought(t) == Cardinality(OfToken("BuybackExecuted", t))
OpenNotified(t) == Amounts(OfToken("BuybackRewardNotified", t))
OpenClaimed(t) == Amounts(OfToken("BuybackRewardClaimed", t))

\* What the open block will make of the rows of a pair and of a token, and
\* what the stores will hold, is what the contracts have.
PairPending(p) ==
    /\ p \in paired <=> p \in components \/ OpenPair(p)
    /\ p \in paired <=> db14.components[p].pair \/ OpenPair(p)
    /\ p[1] \in born <=> db14.components[p].configured \/ OpenToken(p[1])
    /\ linked[p] = "late" <=> db14.components[p].pool \/ OpenLate(p)
    /\ linked[p] # "no" <=> p \in db14.pools \/ OpenLink(p)
    /\ taxed[p] = db14.components[p].tax + OpenTax(p)
    /\ TaxKnown(p)

BuybackPending(t) ==
    /\ t \in born <=> t \in addresses14 \/ OpenToken(t)
    /\ buyback[t].fees = db14.states[t].fees + OpenFees(t)
    /\ buyback[t].spent = db14.states[t].spent + OpenSpent(t)
    /\ buyback[t].fees - buyback[t].spent = db14.states[t].native_reserve + OpenFees(t) - OpenSpent(t)
    /\ buyback[t].bought = db14.states[t].bought + OpenBought(t)
    /\ buyback[t].notified = db14.states[t].notified + OpenNotified(t)
    /\ buyback[t].claimed = db14.states[t].claimed + OpenClaimed(t)

ComponentsInv ==
    /\ ~ halted /\ ComponentsType /\ LogsPlaced
    /\ \A p \in V14!Pairs : PairPending(p)
    /\ \A t \in V14Tokens : BuybackPending(t)

\* A log is counted if its index is its place and no stranger has emitted it.
Counts(log) == log.id = Len(logs14) + 1 /\ log.source # Stranger
Raises(log, kind, p) == Counts(log) /\ log.kind = kind /\ log.pair = p
RaisesToken(log, kind, t) == Counts(log) /\ log.kind = kind /\ log.pair[1] = t

\* Places in a block.
LEMMA Places ==
  ASSUME ComponentsType
  PROVE  /\ Len(logs14) \in Nat /\ DOMAIN logs14 = 1..Len(logs14)
         /\ Len(logs14) + 1 \notin DOMAIN logs14
         /\ \A n \in DOMAIN logs14 : logs14[n] \in ComponentLog /\ n \in Nat
         /\ \A n \in DOMAIN logs14 : logs14[n].amount \in Nat
         /\ \A n \in DOMAIN logs14 : logs14[n].pair \in V14!Pairs
<1>1. logs14 \in Seq(ComponentLog)
  BY DEF ComponentsType
<1>2. /\ Len(logs14) \in Nat /\ DOMAIN logs14 = 1..Len(logs14)
      /\ \A n \in DOMAIN logs14 : logs14[n] \in ComponentLog
  BY <1>1
<1>3. \A e \in ComponentLog : e.amount \in Nat /\ e.pair \in V14!Pairs
  BY DEF ComponentLog
<1> QED
  BY <1>2, <1>3

\* The logs of a block after one more.
LEMMA OneMoreLog ==
  ASSUME ComponentsType, NEW log \in ComponentLog, V14!EmitLog(log)
  PROVE  /\ logs14' \in Seq(ComponentLog)
         /\ DOMAIN logs14' = DOMAIN logs14 \cup {Len(logs14) + 1}
         /\ \A n \in DOMAIN logs14 : logs14'[n] = logs14[n]
         /\ logs14'[Len(logs14) + 1] = log
         /\ addresses14' = addresses14 /\ components' = components
         /\ halted' = halted /\ db14' = db14
<1>1. logs14 \in Seq(ComponentLog)
  BY DEF ComponentsType
<1>2. logs14' = Append(logs14, log)
  BY DEF V14!EmitLog
<1>3. addresses14' = addresses14 /\ components' = components /\ halted' = halted /\ db14' = db14
  BY DEF V14!EmitLog, V14!stores
<1>4. /\ logs14' \in Seq(ComponentLog) /\ Len(logs14') = Len(logs14) + 1
      /\ \A n \in 1..Len(logs14) : logs14'[n] = logs14[n]
      /\ logs14'[Len(logs14) + 1] = log
  BY <1>1, <1>2, AppendProperties
<1>5. Len(logs14) \in Nat /\ DOMAIN logs14 = 1..Len(logs14) /\ DOMAIN logs14' = 1..(Len(logs14) + 1)
  BY <1>1, <1>4, LenProperties
<1>6. DOMAIN logs14' = DOMAIN logs14 \cup {Len(logs14) + 1}
  BY <1>5
<1> QED
  BY <1>3, <1>4, <1>5, <1>6

\* The counted logs of a kind after one more log.
LEMMA CountedMore ==
  ASSUME ComponentsType, NEW log \in ComponentLog, V14!EmitLog(log), NEW kind
  PROVE  Counted(kind)' = IF Counts(log) /\ log.kind = kind
                          THEN Counted(kind) \cup {Len(logs14) + 1} ELSE Counted(kind)
<1>1. PICK n : n = Len(logs14) + 1
  OBVIOUS
<1>2. /\ DOMAIN logs14' = DOMAIN logs14 \cup {n}
      /\ \A m \in DOMAIN logs14 : logs14'[m] = logs14[m]
      /\ logs14'[n] = log
  BY <1>1, OneMoreLog
<1>3. n \notin DOMAIN logs14
  BY <1>1, Places
<1>4. Counts(log) <=> log.id = n /\ log.source # Stranger
  BY <1>1 DEF Counts
<1> QED
  BY <1>1, <1>2, <1>3, <1>4 DEF Counted

LEMMA OfPairMore ==
  ASSUME ComponentsType, NEW log \in ComponentLog, V14!EmitLog(log), NEW kind, NEW p
  PROVE  OfPair(kind, p)' = IF Raises(log, kind, p)
                            THEN OfPair(kind, p) \cup {Len(logs14) + 1} ELSE OfPair(kind, p)
<1>1. PICK n : n = Len(logs14) + 1
  OBVIOUS
<1>2. (\A m \in DOMAIN logs14 : logs14'[m] = logs14[m]) /\ logs14'[n] = log
  BY <1>1, OneMoreLog
<1>3. Counted(kind) \subseteq DOMAIN logs14
  BY DEF Counted
<1>4. Counted(kind)' = IF Counts(log) /\ log.kind = kind THEN Counted(kind) \cup {n} ELSE Counted(kind)
  BY <1>1, CountedMore
<1> QED
  BY <1>1, <1>2, <1>3, <1>4 DEF OfPair, Raises

LEMMA OfTokenMore ==
  ASSUME ComponentsType, NEW log \in ComponentLog, V14!EmitLog(log), NEW kind, NEW t
  PROVE  OfToken(kind, t)' = IF RaisesToken(log, kind, t)
                             THEN OfToken(kind, t) \cup {Len(logs14) + 1} ELSE OfToken(kind, t)
<1>1. PICK n : n = Len(logs14) + 1
  OBVIOUS
<1>2. (\A m \in DOMAIN logs14 : logs14'[m] = logs14[m]) /\ logs14'[n] = log
  BY <1>1, OneMoreLog
<1>3. Counted(kind) \subseteq DOMAIN logs14
  BY DEF Counted
<1>4. Counted(kind)' = IF Counts(log) /\ log.kind = kind THEN Counted(kind) \cup {n} ELSE Counted(kind)
  BY <1>1, CountedMore
<1> QED
  BY <1>1, <1>2, <1>3, <1>4 DEF OfToken, RaisesToken

\* A set of places is finite, and what its logs carry is a natural number
\* of things.
LEMMA AmountsType ==
  ASSUME ComponentsType, NEW S, S \subseteq DOMAIN logs14
  PROVE  IsFiniteSet(S) /\ Amounts(S) \in Int /\ Cardinality(S) \in Nat
<1>1. PICK k \in Nat : DOMAIN logs14 = 1..k
  BY Places
<1>2. IsFiniteSet(S)
  BY <1>1, FS_Interval, FS_Subset
<1>3. NumericOn([n \in DOMAIN logs14 |-> logs14[n].amount], S)
  BY Places DEF NumericOn
<1> QED
  BY <1>2, <1>3, SumType, FS_CardinalityType DEF Amounts

\* What some logs carry after one more log, counted among them or not.
LEMMA AmountsMore ==
  ASSUME ComponentsType, NEW log \in ComponentLog, V14!EmitLog(log),
         NEW S, S \subseteq DOMAIN logs14
  PROVE  /\ SumFunctionOnSet([n \in DOMAIN logs14' |-> logs14'[n].amount], S) = Amounts(S)
         /\ SumFunctionOnSet([n \in DOMAIN logs14' |-> logs14'[n].amount], S \cup {Len(logs14) + 1})
              = Amounts(S) + log.amount
         /\ Cardinality(S \cup {Len(logs14) + 1}) = Cardinality(S) + 1
<1>1. PICK k : k = Len(logs14) + 1
  OBVIOUS
<1>2. PICK g : g = [n \in DOMAIN logs14' |-> logs14'[n].amount]
  OBVIOUS
<1>3. PICK f : f = [n \in DOMAIN logs14 |-> logs14[n].amount]
  OBVIOUS
<1>4. /\ DOMAIN logs14' = DOMAIN logs14 \cup {k} /\ logs14'[k] = log
      /\ \A m \in DOMAIN logs14 : logs14'[m] = logs14[m]
  BY <1>1, OneMoreLog
<1>5. k \notin DOMAIN logs14 /\ k \notin S
  BY <1>1, Places
<1>6. IsFiniteSet(S) /\ Amounts(S) \in Int /\ IsFiniteSet(S \cup {k})
  BY AmountsType, FS_AddElement
<1>7. Amounts(S) = SumFunctionOnSet(f, S)
  BY <1>3 DEF Amounts
<1>8. (\A n \in S : g[n] = f[n]) /\ g[k] = log.amount
  BY <1>2, <1>3, <1>4
<1>9. SumFunctionOnSet(g, S) = SumFunctionOnSet(f, S)
  BY <1>6, <1>8, SumSame
<1>10. log.amount \in Nat
  BY DEF ComponentLog
<1>11. NumericOn(g, S \cup {k})
  <2>1. ASSUME NEW n \in S PROVE g[n] \in Int
    <3>1. n \in DOMAIN logs14 /\ g[n] = logs14[n].amount
      BY <1>3, <1>8
    <3>2. logs14[n].amount \in Nat
      BY <3>1, Places
    <3> QED
      BY <3>1, <3>2
  <2> QED
    BY <2>1, <1>8, <1>10 DEF NumericOn
<1>12. (S \cup {k}) \ {k} = S
  BY <1>5
<1>13. SumFunctionOnSet(g, S \cup {k}) = g[k] + SumFunctionOnSet(g, S)
  BY <1>6, <1>11, <1>12, SumElement
<1>14. Cardinality(S \cup {k}) = Cardinality(S) + 1
  BY <1>5, <1>6, FS_AddElement
<1> QED
  BY <1>1, <1>2, <1>6, <1>7, <1>8, <1>9, <1>10, <1>13, <1>14

\* A kind's counted logs are places of the block.
LEMMA OfPlaces ==
  ASSUME NEW kind, NEW x
  PROVE  OfPair(kind, x) \subseteq DOMAIN logs14 /\ OfToken(kind, x) \subseteq DOMAIN logs14
BY DEF OfPair, OfToken, Counted

\* What a pair's, and a token's, logs of a kind carry after one more log.
LEMMA PairAmountMore ==
  ASSUME ComponentsType, NEW log \in ComponentLog, V14!EmitLog(log), NEW kind, NEW p
  PROVE  Amounts(OfPair(kind, p))' =
           Amounts(OfPair(kind, p)) + IF Raises(log, kind, p) THEN log.amount ELSE 0
<1>1. PICK S : S = OfPair(kind, p)
  OBVIOUS
<1>2. S \subseteq DOMAIN logs14
  BY <1>1, OfPlaces
<1>3. OfPair(kind, p)' = IF Raises(log, kind, p) THEN S \cup {Len(logs14) + 1} ELSE S
  BY <1>1, OfPairMore
<1>4. Amounts(S) \in Int
  BY <1>2, AmountsType
<1>5. CASE Raises(log, kind, p)
  <2>1. OfPair(kind, p)' = S \cup {Len(logs14) + 1}
    BY <1>3, <1>5
  <2>2. Amounts(OfPair(kind, p))' = Amounts(S) + log.amount
    BY <1>2, <2>1, AmountsMore DEF Amounts
  <2> QED
    BY <1>1, <1>5, <2>2
<1>6. CASE ~ Raises(log, kind, p)
  <2>1. OfPair(kind, p)' = S
    BY <1>3, <1>6
  <2>2. Amounts(OfPair(kind, p))' = Amounts(S)
    BY <1>2, <2>1, AmountsMore DEF Amounts
  <2> QED
    BY <1>1, <1>4, <1>6, <2>2
<1> QED
  BY <1>5, <1>6

LEMMA TokenAmountMore ==
  ASSUME ComponentsType, NEW log \in ComponentLog, V14!EmitLog(log), NEW kind, NEW t
  PROVE  Amounts(OfToken(kind, t))' =
           Amounts(OfToken(kind, t)) + IF RaisesToken(log, kind, t) THEN log.amount ELSE 0
<1>1. PICK S : S = OfToken(kind, t)
  OBVIOUS
<1>2. S \subseteq DOMAIN logs14
  BY <1>1, OfPlaces
<1>3. OfToken(kind, t)' = IF RaisesToken(log, kind, t) THEN S \cup {Len(logs14) + 1} ELSE S
  BY <1>1, OfTokenMore
<1>4. Amounts(S) \in Int
  BY <1>2, AmountsType
<1>5. CASE RaisesToken(log, kind, t)
  <2>1. OfToken(kind, t)' = S \cup {Len(logs14) + 1}
    BY <1>3, <1>5
  <2>2. Amounts(OfToken(kind, t))' = Amounts(S) + log.amount
    BY <1>2, <2>1, AmountsMore DEF Amounts
  <2> QED
    BY <1>1, <1>5, <2>2
<1>6. CASE ~ RaisesToken(log, kind, t)
  <2>1. OfToken(kind, t)' = S
    BY <1>3, <1>6
  <2>2. Amounts(OfToken(kind, t))' = Amounts(S)
    BY <1>2, <2>1, AmountsMore DEF Amounts
  <2> QED
    BY <1>1, <1>4, <1>6, <2>2
<1> QED
  BY <1>5, <1>6

LEMMA BoughtMore ==
  ASSUME ComponentsType, NEW log \in ComponentLog, V14!EmitLog(log), NEW t
  PROVE  OpenBought(t)' = OpenBought(t) + IF RaisesToken(log, "BuybackExecuted", t) THEN 1 ELSE 0
<1>1. PICK S : S = OfToken("BuybackExecuted", t)
  OBVIOUS
<1>2. S \subseteq DOMAIN logs14
  BY <1>1, OfPlaces
<1>3. OfToken("BuybackExecuted", t)' =
        IF RaisesToken(log, "BuybackExecuted", t) THEN S \cup {Len(logs14) + 1} ELSE S
  BY <1>1, OfTokenMore
<1>4. Cardinality(S) \in Nat /\ Cardinality(S \cup {Len(logs14) + 1}) = Cardinality(S) + 1
  BY <1>2, AmountsType, AmountsMore
<1>5. OpenBought(t) = Cardinality(S) /\ OpenBought(t)' = Cardinality(OfToken("BuybackExecuted", t)')
  BY <1>1 DEF OpenBought
<1>6. CASE RaisesToken(log, "BuybackExecuted", t)
  <2>1. OfToken("BuybackExecuted", t)' = S \cup {Len(logs14) + 1}
    BY <1>3, <1>6
  <2> QED
    BY <1>4, <1>5, <1>6, <2>1
<1>7. CASE ~ RaisesToken(log, "BuybackExecuted", t)
  <2>1. OfToken("BuybackExecuted", t)' = S
    BY <1>3, <1>7
  <2> QED
    BY <1>4, <1>5, <1>7, <2>1
<1> QED
  BY <1>6, <1>7

\* A pair is known at a log if its own log came before: known at the last
\* place if it is in the store or announced in the block.
LEMMA KnownMore ==
  ASSUME ComponentsType, NEW log \in ComponentLog, V14!EmitLog(log), NEW p
  PROVE  /\ \A n \in DOMAIN logs14 : PairKnown(n)' <=> PairKnown(n)
         /\ log.kind # "ComponentPairCreated" /\ log.pair = p =>
              \A k : k = Len(logs14) + 1 => (PairKnown(k)' <=> p \in components \/ OpenPair(p))
<1>1. PICK k : k = Len(logs14) + 1
  OBVIOUS
<1>2. PICK S : S = Counted("ComponentPairCreated")
  OBVIOUS
<1>3. /\ DOMAIN logs14' = DOMAIN logs14 \cup {k} /\ logs14'[k] = log /\ components' = components
      /\ \A m \in DOMAIN logs14 : logs14'[m] = logs14[m]
  BY <1>1, OneMoreLog
<1>4. k \notin DOMAIN logs14 /\ \A n \in DOMAIN logs14 : n \in Nat /\ n <= k /\ ~ (k <= n)
  BY <1>1, Places
<1>5. Counted("ComponentPairCreated")' =
        IF Counts(log) /\ log.kind = "ComponentPairCreated" THEN S \cup {k} ELSE S
  BY <1>1, <1>2, CountedMore
<1>6. S \subseteq DOMAIN logs14
  BY <1>2 DEF Counted
<1>7. \A n \in DOMAIN logs14 : PairKnown(n)' <=> PairKnown(n)
  BY <1>2, <1>3, <1>4, <1>5, <1>6 DEF PairKnown
<1>8. ASSUME log.kind # "ComponentPairCreated", log.pair = p
      PROVE  PairKnown(k)' <=> p \in components \/ OpenPair(p)
  <2>1. Counted("ComponentPairCreated")' = S
    BY <1>5, <1>8
  <2>2. PairKnown(k)' <=> p \in components \/ \E m \in S : m <= k /\ logs14'[m].pair = p
    BY <1>3, <1>8, <2>1 DEF PairKnown
  <2>3. OpenPair(p) <=> \E m \in S : logs14[m].pair = p
    BY <1>2 DEF OpenPair, OfPair
  <2>4. \A m \in S : m <= k /\ logs14'[m].pair = logs14[m].pair
    BY <1>3, <1>4, <1>6
  <2> QED
    BY <2>2, <2>3, <2>4
<1> QED
  BY <1>1, <1>7, <1>8

LEMMA LateMore ==
  ASSUME ComponentsType, NEW log \in ComponentLog, V14!EmitLog(log), NEW p
  PROVE  /\ OpenLate(p)' <=> \/ OpenLate(p)
                             \/ /\ Raises(log, "NutboxStakingPoolLinked", p)
                                /\ p \in components \/ OpenPair(p)
         /\ TaxKnown(p)' <=> /\ TaxKnown(p)
                             /\ Raises(log, "ComponentPoolTaxBurned", p) =>
                                  p \in components \/ OpenPair(p)
<1>1. PICK k : k = Len(logs14) + 1
  OBVIOUS
<1>2. ASSUME NEW kind, kind # "ComponentPairCreated"
      PROVE  /\ OfPair(kind, p) \subseteq DOMAIN logs14
             /\ OfPair(kind, p)' = IF Raises(log, kind, p) THEN OfPair(kind, p) \cup {k} ELSE OfPair(kind, p)
             /\ Raises(log, kind, p) => (PairKnown(k)' <=> p \in components \/ OpenPair(p))
  <2>1. OfPair(kind, p) \subseteq DOMAIN logs14
    BY OfPlaces
  <2>2. OfPair(kind, p)' = IF Raises(log, kind, p) THEN OfPair(kind, p) \cup {k} ELSE OfPair(kind, p)
    BY <1>1, OfPairMore
  <2>3. ASSUME Raises(log, kind, p) PROVE PairKnown(k)' <=> p \in components \/ OpenPair(p)
    <3>1. log.kind # "ComponentPairCreated" /\ log.pair = p
      BY <1>2, <2>3 DEF Raises
    <3> QED
      BY <1>1, <3>1, KnownMore
  <2> QED
    BY <2>1, <2>2, <2>3
<1>3. \A n \in DOMAIN logs14 : PairKnown(n)' <=> PairKnown(n)
  BY KnownMore
<1>4. OpenLate(p)' <=> \/ OpenLate(p)
                       \/ /\ Raises(log, "NutboxStakingPoolLinked", p)
                          /\ p \in components \/ OpenPair(p)
  <2>1. PICK kind : kind = "NutboxStakingPoolLinked"
    OBVIOUS
  <2>2. kind # "ComponentPairCreated"
    BY <2>1
  <2>3. /\ OpenLate(p)' <=> \E n \in OfPair(kind, p)' : PairKnown(n)'
        /\ OpenLate(p) <=> \E n \in OfPair(kind, p) : PairKnown(n)
    BY <2>1 DEF OpenLate
  <2>4. (\E n \in OfPair(kind, p)' : PairKnown(n)')
          <=> (\E n \in OfPair(kind, p) : PairKnown(n)) \/ (Raises(log, kind, p) /\ PairKnown(k)')
    BY <1>2, <1>3, <2>2
  <2> QED
    BY <1>2, <2>1, <2>2, <2>3, <2>4
<1>5. TaxKnown(p)' <=> /\ TaxKnown(p)
                       /\ Raises(log, "ComponentPoolTaxBurned", p) =>
                            p \in components \/ OpenPair(p)
  <2>1. PICK kind : kind = "ComponentPoolTaxBurned"
    OBVIOUS
  <2>2. kind # "ComponentPairCreated"
    BY <2>1
  <2>3. /\ TaxKnown(p)' <=> \A n \in OfPair(kind, p)' : PairKnown(n)'
        /\ TaxKnown(p) <=> \A n \in OfPair(kind, p) : PairKnown(n)
    BY <2>1 DEF TaxKnown
  <2>4. (\A n \in OfPair(kind, p)' : PairKnown(n)')
          <=> (\A n \in OfPair(kind, p) : PairKnown(n)) /\ (Raises(log, kind, p) => PairKnown(k)')
    BY <1>2, <1>3, <2>2
  <2> QED
    BY <1>2, <2>1, <2>2, <2>3, <2>4
<1> QED
  BY <1>4, <1>5

\* What the open block has for a pair, and for a token, after one more log.
LEMMA PairColumns ==
  ASSUME ComponentsType, NEW log \in ComponentLog, V14!EmitLog(log), NEW p
  PROVE  /\ OpenPair(p)' <=> OpenPair(p) \/ Raises(log, "ComponentPairCreated", p)
         /\ OpenLink(p)' <=> OpenLink(p) \/ Raises(log, "NutboxStakingPoolLinked", p)
         /\ OpenTax(p)' = OpenTax(p) + IF Raises(log, "ComponentPoolTaxBurned", p) THEN log.amount ELSE 0
         /\ OpenTax(p) \in Int
<1>1. OpenPair(p)' <=> OpenPair(p) \/ Raises(log, "ComponentPairCreated", p)
  BY OfPairMore DEF OpenPair
<1>2. OpenLink(p)' <=> OpenLink(p) \/ Raises(log, "NutboxStakingPoolLinked", p)
  BY OfPairMore DEF OpenLink
<1>3. OpenTax(p)' = OpenTax(p) + IF Raises(log, "ComponentPoolTaxBurned", p) THEN log.amount ELSE 0
  BY PairAmountMore DEF OpenTax
<1>4. OpenTax(p) \in Int
  BY OfPlaces, AmountsType DEF OpenTax
<1> QED
  BY <1>1, <1>2, <1>3, <1>4

LEMMA TokenColumns ==
  ASSUME ComponentsType, NEW log \in ComponentLog, V14!EmitLog(log), NEW t
  PROVE  /\ OpenToken(t)' <=> OpenToken(t) \/ RaisesToken(log, "NewToken", t)
         /\ OpenFees(t)' = OpenFees(t) + IF RaisesToken(log, "SwapFeeCollected", t) THEN log.amount ELSE 0
         /\ OpenSpent(t)' = OpenSpent(t) + IF RaisesToken(log, "BuybackExecuted", t) THEN log.amount ELSE 0
         /\ OpenNotified(t)' = OpenNotified(t)
              + IF RaisesToken(log, "BuybackRewardNotified", t) THEN log.amount ELSE 0
         /\ OpenClaimed(t)' = OpenClaimed(t)
              + IF RaisesToken(log, "BuybackRewardClaimed", t) THEN log.amount ELSE 0
<1>1. OpenToken(t)' <=> OpenToken(t) \/ RaisesToken(log, "NewToken", t)
  BY OfTokenMore DEF OpenToken
<1>2. OpenFees(t)' = OpenFees(t) + IF RaisesToken(log, "SwapFeeCollected", t) THEN log.amount ELSE 0
  BY TokenAmountMore DEF OpenFees
<1>3. OpenSpent(t)' = OpenSpent(t) + IF RaisesToken(log, "BuybackExecuted", t) THEN log.amount ELSE 0
  BY TokenAmountMore DEF OpenSpent
<1>4. OpenNotified(t)' = OpenNotified(t)
        + IF RaisesToken(log, "BuybackRewardNotified", t) THEN log.amount ELSE 0
  BY TokenAmountMore DEF OpenNotified
<1>5. OpenClaimed(t)' = OpenClaimed(t)
        + IF RaisesToken(log, "BuybackRewardClaimed", t) THEN log.amount ELSE 0
  BY TokenAmountMore DEF OpenClaimed
<1> QED
  BY <1>1, <1>2, <1>3, <1>4, <1>5

LEMMA TokenColumnsType ==
  ASSUME ComponentsType, NEW t
  PROVE  /\ OpenFees(t) \in Int /\ OpenSpent(t) \in Int /\ OpenBought(t) \in Int
         /\ OpenNotified(t) \in Int /\ OpenClaimed(t) \in Int
BY OfPlaces, AmountsType DEF OpenFees, OpenSpent, OpenBought, OpenNotified, OpenClaimed

\* A log that says of a pair what the contracts did keeps its row pending.
LEMMA PairStep ==
  ASSUME ComponentsType, NEW log \in ComponentLog, V14!EmitLog(log),
         NEW p \in V14!Pairs, PairPending(p),
         p \in paired' <=> p \in paired \/ Raises(log, "ComponentPairCreated", p),
         p[1] \in born' <=> p[1] \in born \/ RaisesToken(log, "NewToken", p[1]),
         Raises(log, "NutboxStakingPoolLinked", p) =>
           linked[p] = "no" /\ linked'[p] = IF p \in paired THEN "late" ELSE "early",
         ~ Raises(log, "NutboxStakingPoolLinked", p) => linked'[p] = linked[p],
         Raises(log, "ComponentPoolTaxBurned", p) => p \in paired /\ taxed'[p] = taxed[p] + log.amount,
         ~ Raises(log, "ComponentPoolTaxBurned", p) => taxed'[p] = taxed[p]
  PROVE  PairPending(p)'
<1>1. components' = components /\ db14' = db14
  BY OneMoreLog
<1>2. p \in paired' <=> p \in components' \/ OpenPair(p)'
  BY <1>1, PairColumns DEF PairPending
<1>3. p \in paired' <=> db14'.components[p].pair \/ OpenPair(p)'
  BY <1>1, PairColumns DEF PairPending
<1>4. p[1] \in born' <=> db14'.components[p].configured \/ OpenToken(p[1])'
  BY <1>1, TokenColumns DEF PairPending
<1>5. linked'[p] = "late" <=> db14'.components[p].pool \/ OpenLate(p)'
  <2>1. CASE Raises(log, "NutboxStakingPoolLinked", p)
    BY <1>1, <2>1, LateMore DEF PairPending
  <2>2. CASE ~ Raises(log, "NutboxStakingPoolLinked", p)
    BY <1>1, <2>2, LateMore DEF PairPending
  <2> QED
    BY <2>1, <2>2
<1>6. linked'[p] # "no" <=> p \in db14'.pools \/ OpenLink(p)'
  <2>1. CASE Raises(log, "NutboxStakingPoolLinked", p)
    <3>1. linked'[p] # "no"
      BY <2>1
    <3> QED
      BY <2>1, <3>1, PairColumns
  <2>2. CASE ~ Raises(log, "NutboxStakingPoolLinked", p)
    BY <1>1, <2>2, PairColumns DEF PairPending
  <2> QED
    BY <2>1, <2>2
<1>7. taxed'[p] = db14'.components[p].tax + OpenTax(p)'
  <2>1. db14.components[p].tax \in Int /\ OpenTax(p) \in Int /\ log.amount \in Int
    BY PairColumns DEF ComponentsType, ComponentRows, ComponentLog
  <2>2. taxed[p] = db14.components[p].tax + OpenTax(p)
    BY DEF PairPending
  <2>3. CASE Raises(log, "ComponentPoolTaxBurned", p)
    <3>1. OpenTax(p)' = OpenTax(p) + log.amount
      BY <2>3, PairColumns
    <3> QED
      BY <1>1, <2>1, <2>2, <2>3, <3>1
  <2>4. CASE ~ Raises(log, "ComponentPoolTaxBurned", p)
    <3>1. OpenTax(p)' = OpenTax(p) + 0
      BY <2>4, PairColumns
    <3> QED
      BY <1>1, <2>1, <2>2, <2>4, <3>1
  <2> QED
    BY <2>3, <2>4
<1>8. TaxKnown(p)'
  BY LateMore DEF PairPending
<1> QED
  BY <1>2, <1>3, <1>4, <1>5, <1>6, <1>7, <1>8 DEF PairPending

\* A fee and a cost move a reserve as they move what it is the rest of.
LEMMA ReserveMoves ==
  ASSUME NEW f \in Int, NEW s \in Int, NEW r \in Int, NEW openF \in Int, NEW openS \in Int,
         NEW fee \in Int, NEW cost \in Int, NEW fees \in Int, NEW spent \in Int,
         fees = f + openF, spent = s + openS, fees - spent = r + openF - openS
  PROVE  /\ fees + fee = f + (openF + fee) /\ spent + cost = s + (openS + cost)
         /\ (fees + fee) - (spent + cost) = r + (openF + fee) - (openS + cost)
OBVIOUS

\* The same of a token.
LEMMA TokenStep ==
  ASSUME ComponentsType, NEW log \in ComponentLog, V14!EmitLog(log),
         NEW t \in V14Tokens, BuybackPending(t),
         t \in born' <=> t \in born \/ RaisesToken(log, "NewToken", t),
         buyback'[t].fees = buyback[t].fees + IF RaisesToken(log, "SwapFeeCollected", t) THEN log.amount ELSE 0,
         buyback'[t].spent = buyback[t].spent + IF RaisesToken(log, "BuybackExecuted", t) THEN log.amount ELSE 0,
         buyback'[t].bought = buyback[t].bought + IF RaisesToken(log, "BuybackExecuted", t) THEN 1 ELSE 0,
         buyback'[t].notified = buyback[t].notified
           + IF RaisesToken(log, "BuybackRewardNotified", t) THEN log.amount ELSE 0,
         buyback'[t].claimed = buyback[t].claimed
           + IF RaisesToken(log, "BuybackRewardClaimed", t) THEN log.amount ELSE 0
  PROVE  BuybackPending(t)'
<1>1. addresses14' = addresses14 /\ db14' = db14
  BY OneMoreLog
<1>2. PICK row : row = db14.states[t]
  OBVIOUS
<1>3. /\ row.native_reserve \in Int /\ row.fees \in Int /\ row.spent \in Int
      /\ row.bought \in Int /\ row.notified \in Int /\ row.claimed \in Int
  <2>1. row \in BuybackRows
    BY <1>2 DEF ComponentsType
  <2> QED
    BY <2>1 DEF BuybackRows
<1>4. log.amount \in Int
  BY DEF ComponentLog
<1>5. /\ OpenFees(t) \in Int /\ OpenSpent(t) \in Int /\ OpenBought(t) \in Int
      /\ OpenNotified(t) \in Int /\ OpenClaimed(t) \in Int
  BY TokenColumnsType
<1>6. t \in born' <=> t \in addresses14' \/ OpenToken(t)'
  BY <1>1, TokenColumns DEF BuybackPending
<1>7. /\ buyback'[t].fees = row.fees + OpenFees(t)'
      /\ buyback'[t].spent = row.spent + OpenSpent(t)'
      /\ buyback'[t].fees - buyback'[t].spent = row.native_reserve + OpenFees(t)' - OpenSpent(t)'
  <2>1. PICK fee \in Int : fee = IF RaisesToken(log, "SwapFeeCollected", t) THEN log.amount ELSE 0
    BY <1>4
  <2>2. PICK cost \in Int : cost = IF RaisesToken(log, "BuybackExecuted", t) THEN log.amount ELSE 0
    BY <1>4
  <2>3. OpenFees(t)' = OpenFees(t) + fee /\ buyback'[t].fees = buyback[t].fees + fee
    BY <2>1, TokenColumns
  <2>4. OpenSpent(t)' = OpenSpent(t) + cost /\ buyback'[t].spent = buyback[t].spent + cost
    BY <2>2, TokenColumns
  <2>5. /\ buyback[t].fees = row.fees + OpenFees(t) /\ buyback[t].spent = row.spent + OpenSpent(t)
        /\ buyback[t].fees - buyback[t].spent = row.native_reserve + OpenFees(t) - OpenSpent(t)
    BY <1>2 DEF BuybackPending
  <2>6. buyback[t].fees \in Int /\ buyback[t].spent \in Int
    BY <1>3, <1>5, <2>5
  <2>7. PICK fees \in Int, spent \in Int : fees = buyback[t].fees /\ spent = buyback[t].spent
    BY <2>6
  <2>8. PICK openF \in Int, openS \in Int : openF = OpenFees(t) /\ openS = OpenSpent(t)
    BY <1>5
  <2>9. PICK f \in Int, s \in Int, r \in Int : f = row.fees /\ s = row.spent /\ r = row.native_reserve
    BY <1>3
  <2>10. fees = f + openF /\ spent = s + openS /\ fees - spent = r + openF - openS
    BY <2>5, <2>7, <2>8, <2>9
  <2>11. /\ fees + fee = f + (openF + fee) /\ spent + cost = s + (openS + cost)
         /\ (fees + fee) - (spent + cost) = r + (openF + fee) - (openS + cost)
    BY <2>10, ReserveMoves
  <2>12. /\ buyback'[t].fees = fees + fee /\ OpenFees(t)' = openF + fee
         /\ buyback'[t].spent = spent + cost /\ OpenSpent(t)' = openS + cost
    BY <2>3, <2>4, <2>7, <2>8
  <2> QED
    BY <2>9, <2>11, <2>12
<1>8. buyback'[t].bought = row.bought + OpenBought(t)'
  <2>1. PICK one \in Int : one = IF RaisesToken(log, "BuybackExecuted", t) THEN 1 ELSE 0
    OBVIOUS
  <2>2. OpenBought(t)' = OpenBought(t) + one /\ buyback'[t].bought = buyback[t].bought + one
    BY <2>1, BoughtMore
  <2>3. buyback[t].bought = row.bought + OpenBought(t)
    BY <1>2 DEF BuybackPending
  <2> QED
    BY <1>3, <1>5, <2>2, <2>3
<1>9. buyback'[t].notified = row.notified + OpenNotified(t)'
  <2>1. PICK more \in Int : more = IF RaisesToken(log, "BuybackRewardNotified", t) THEN log.amount ELSE 0
    BY <1>4
  <2>2. OpenNotified(t)' = OpenNotified(t) + more /\ buyback'[t].notified = buyback[t].notified + more
    BY <2>1, TokenColumns
  <2>3. buyback[t].notified = row.notified + OpenNotified(t)
    BY <1>2 DEF BuybackPending
  <2> QED
    BY <1>3, <1>5, <2>2, <2>3
<1>10. buyback'[t].claimed = row.claimed + OpenClaimed(t)'
  <2>1. PICK more \in Int : more = IF RaisesToken(log, "BuybackRewardClaimed", t) THEN log.amount ELSE 0
    BY <1>4
  <2>2. OpenClaimed(t)' = OpenClaimed(t) + more /\ buyback'[t].claimed = buyback[t].claimed + more
    BY <2>1, TokenColumns
  <2>3. buyback[t].claimed = row.claimed + OpenClaimed(t)
    BY <1>2 DEF BuybackPending
  <2> QED
    BY <1>3, <1>5, <2>2, <2>3
<1> QED
  BY <1>1, <1>2, <1>6, <1>7, <1>8, <1>9, <1>10 DEF BuybackPending

\* A token that the Pump has announced is known at the end of the block.
AnnouncedToken(t) ==
    t \in addresses14 \/ \E m \in DOMAIN logs14 : logs14[m].kind = "NewToken" /\ logs14[m].pair[1] = t

LEMMA PlacedMore ==
  ASSUME ComponentsType, LogsPlaced, NEW log \in ComponentLog, V14!EmitLog(log),
         \/ log.id = Len(logs14) + 1
         \/ log.id \in DOMAIN logs14 /\ logs14[log.id] = log,
         log.source \in V14Tokens => AnnouncedToken(log.source)
  PROVE  LogsPlaced'
<1>1. PICK k : k = Len(logs14) + 1
  OBVIOUS
<1>2. /\ DOMAIN logs14' = DOMAIN logs14 \cup {k} /\ logs14'[k] = log /\ addresses14' = addresses14
      /\ \A m \in DOMAIN logs14 : logs14'[m] = logs14[m]
  BY <1>1, OneMoreLog
<1>3. Len(logs14) \in Nat /\ DOMAIN logs14 = 1..Len(logs14)
  BY Places
<1>4. k \in Nat /\ DOMAIN logs14 = 1..(k - 1) /\ k \in 1..k
  BY <1>1, <1>3
<1>5. ASSUME NEW n \in DOMAIN logs14
      PROVE  /\ logs14'[n].id \in 1..n /\ logs14'[logs14'[n].id] = logs14'[n]
             /\ logs14'[n].source \in V14Tokens => V14!Dynamic(n)'
  <2>1. logs14'[n] = logs14[n] /\ n \in 1..(k - 1) /\ n \in Nat
    BY <1>2, <1>4, <1>5
  <2>2. PICK i : i = logs14[n].id
    OBVIOUS
  <2>3. i \in 1..n /\ logs14[i] = logs14[n]
    BY <2>2 DEF LogsPlaced
  <2>4. i \in DOMAIN logs14
    BY <1>4, <2>1, <2>3
  <2>5. logs14'[i] = logs14[i]
    BY <1>2, <2>4
  <2>6. ASSUME logs14[n].source \in V14Tokens PROVE V14!Dynamic(n)'
    <3>1. V14!Dynamic(n)
      BY <2>6 DEF LogsPlaced
    <3>2. \A m \in 1..(n - 1) : m \in DOMAIN logs14
      BY <1>4, <2>1
    <3> QED
      BY <1>2, <2>1, <3>1, <3>2 DEF V14!Dynamic
  <2> QED
    BY <2>1, <2>2, <2>3, <2>5, <2>6
<1>6. logs14'[k].id \in 1..k /\ logs14'[logs14'[k].id] = logs14'[k]
  <2>1. CASE log.id = k
    BY <1>2, <1>4, <2>1
  <2>2. CASE log.id \in DOMAIN logs14 /\ logs14[log.id] = log
    <3>1. PICK i : i = log.id
      OBVIOUS
    <3>2. i \in DOMAIN logs14 /\ logs14[i] = log
      BY <2>2, <3>1
    <3>3. i \in 1..k /\ logs14'[i] = log
      BY <1>2, <1>4, <3>2
    <3> QED
      BY <1>2, <3>1, <3>3
  <2> QED
    BY <1>1, <2>1, <2>2
<1>7. ASSUME logs14'[k].source \in V14Tokens PROVE V14!Dynamic(k)'
  <2>1. AnnouncedToken(log.source)
    BY <1>2, <1>7
  <2> QED
    BY <1>2, <1>4, <2>1 DEF AnnouncedToken, V14!Dynamic
<1> QED
  BY <1>2, <1>5, <1>6, <1>7 DEF LogsPlaced

LEMMA TypeMore ==
  ASSUME ComponentsType, NEW log \in ComponentLog, V14!EmitLog(log), ChainType'
  PROVE  ComponentsType'
BY OneMoreLog DEF ComponentsType

\* A log of a contract.
LEMMA LogIs ==
  ASSUME ComponentsType, NEW kind \in ComponentKinds, NEW source \in ComponentSources,
         NEW pair \in V14!Pairs, NEW amount \in Nat
  PROVE  \E log \in ComponentLog :
           /\ log = V14!LogOf(kind, source, pair, amount)
           /\ log.kind = kind /\ log.source = source /\ log.pair = pair /\ log.amount = amount
           /\ log.id = Len(logs14) + 1
<1>1. PICK log : log = V14!LogOf(kind, source, pair, amount)
  OBVIOUS
<1>2. log = [kind |-> kind, source |-> source, pair |-> pair, amount |-> amount, id |-> Len(logs14) + 1]
  BY <1>1 DEF V14!LogOf
<1>3. Len(logs14) + 1 \in Nat
  BY Places
<1>4. log \in ComponentLog
  BY <1>2, <1>3 DEF ComponentLog
<1> QED
  BY <1>1, <1>2, <1>4

LEMMA SomePairOf ==
  ASSUME NEW t \in V14Tokens
  PROVE  V14!SomePair(t) \in V14!Pairs /\ V14!SomePair(t)[1] = t
<1>1. (CHOOSE a \in Assets : TRUE) \in Assets
  BY ComponentsAssumption
<1> QED
  BY <1>1 DEF V14!SomePair, V14!Pairs

LEMMA PairIs ==
  ASSUME NEW p \in V14!Pairs
  PROVE  p[1] \in V14Tokens
BY DEF V14!Pairs

\* Who counts: the Pump, the hook and the tokens are no strangers.
LEMMA NoStranger ==
  /\ "pump" # Stranger /\ "hook" # Stranger /\ Stranger \notin V14Tokens
  /\ "pump" \notin V14Tokens /\ "hook" \notin V14Tokens
  /\ "pump" \in ComponentSources /\ "hook" \in ComponentSources /\ Stranger \in ComponentSources
  /\ V14Tokens \subseteq ComponentSources
BY ComponentsAssumption DEF ComponentSources

\* A token that emits was announced before.
LEMMA BornIsAnnounced ==
  ASSUME ComponentsInv, NEW t \in born
  PROVE  t \in V14Tokens /\ AnnouncedToken(t)
<1>1. t \in V14Tokens
  BY DEF ComponentsInv, ComponentsType, ChainType
<1>2. t \in addresses14 \/ OpenToken(t)
  BY <1>1 DEF ComponentsInv, BuybackPending
<1> QED
  BY <1>1, <1>2 DEF AnnouncedToken, OpenToken, OfToken, Counted

\* A log that does not count changes nothing.
LEMMA QuietStep ==
  ASSUME ComponentsInv, NEW log \in ComponentLog, V14!EmitLog(log), UNCHANGED V14!chain,
         ~ Counts(log), LogsPlaced'
  PROVE  ComponentsInv'
<1>1. born' = born /\ paired' = paired /\ linked' = linked /\ taxed' = taxed /\ buyback' = buyback
  BY DEF V14!chain
<1>2. ComponentsType /\ LogsPlaced /\ ~ halted
  BY DEF ComponentsInv
<1>3. ~ halted'
  BY <1>2, OneMoreLog
<1>4. ComponentsType'
  <2>1. ChainType'
    BY <1>1, <1>2 DEF ComponentsType, ChainType
  <2> QED
    BY <1>2, <2>1, TypeMore
<1>5. \A kind, x : ~ Raises(log, kind, x) /\ ~ RaisesToken(log, kind, x)
  BY DEF Raises, RaisesToken
<1>6. ASSUME NEW p \in V14!Pairs PROVE PairPending(p)'
  <2>1. PairPending(p)
    BY DEF ComponentsInv
  <2> QED
    BY <1>1, <1>2, <1>5, <2>1, PairStep
<1>7. ASSUME NEW t \in V14Tokens PROVE BuybackPending(t)'
  <2>1. BuybackPending(t)
    BY DEF ComponentsInv
  <2>2. buyback[t] \in Buybacks
    BY <1>2 DEF ComponentsType, ChainType
  <2>3. /\ buyback[t].fees \in Nat /\ buyback[t].spent \in Nat /\ buyback[t].bought \in Nat
        /\ buyback[t].notified \in Nat /\ buyback[t].claimed \in Nat
    BY <2>2 DEF Buybacks
  <2> QED
    BY <1>1, <1>2, <1>5, <2>1, <2>3, TokenStep
<1> QED
  BY <1>3, <1>4, <1>6, <1>7 DEF ComponentsInv

LEMMA ForgeStep ==
  ASSUME ComponentsInv, NEW kind \in {"ComponentPairCreated", "ComponentPoolTaxBurned"},
         NEW p \in V14!Pairs, V14!Forge(kind, p)
  PROVE  ComponentsInv'
<1>1. ComponentsType /\ LogsPlaced
  BY DEF ComponentsInv
<1>2. PICK log \in ComponentLog :
        /\ log = V14!LogOf(kind, Stranger, p, 1)
        /\ log.source = Stranger /\ log.id = Len(logs14) + 1
  <2>1. kind \in ComponentKinds /\ Stranger \in ComponentSources /\ 1 \in Nat
    BY NoStranger DEF ComponentKinds
  <2> QED
    BY <1>1, <2>1, LogIs
<1>3. V14!EmitLog(log) /\ UNCHANGED V14!chain
  BY <1>2 DEF V14!Forge
<1>4. LogsPlaced'
  BY <1>1, <1>2, <1>3, NoStranger, PlacedMore
<1>5. ~ Counts(log)
  BY <1>2 DEF Counts
<1> QED
  BY <1>3, <1>4, <1>5, QuietStep

LEMMA RepeatStep ==
  ASSUME ComponentsInv, V14!Repeat
  PROVE  ComponentsInv'
<1>1. ComponentsType /\ LogsPlaced
  BY DEF ComponentsInv
<1>2. logs14 # <<>> /\ V14!EmitLog(logs14[Len(logs14)]) /\ UNCHANGED V14!chain
  BY DEF V14!Repeat
<1>3. PICK k : k = Len(logs14)
  OBVIOUS
<1>4. k \in Nat /\ k \in DOMAIN logs14 /\ DOMAIN logs14 = 1..k
  <2>1. logs14 \in Seq(ComponentLog)
    BY <1>1 DEF ComponentsType
  <2> QED
    BY <1>2, <1>3, <2>1
<1>5. PICK log \in ComponentLog : log = logs14[k]
  BY <1>1, <1>4, Places
<1>6. V14!EmitLog(log)
  BY <1>2, <1>3, <1>5
<1>7. log.id \in 1..k /\ logs14[log.id] = log
  BY <1>1, <1>4, <1>5 DEF LogsPlaced
<1>8. ~ Counts(log)
  BY <1>3, <1>4, <1>7 DEF Counts
<1>9. ASSUME log.source \in V14Tokens PROVE AnnouncedToken(log.source)
  <2>1. V14!Dynamic(k)
    BY <1>1, <1>4, <1>5, <1>9 DEF LogsPlaced
  <2> QED
    BY <1>4, <1>5, <2>1 DEF V14!Dynamic, AnnouncedToken
<1>10. LogsPlaced'
  BY <1>1, <1>4, <1>6, <1>7, <1>9, PlacedMore
<1> QED
  BY <1>2, <1>6, <1>8, <1>10, QuietStep

BuybackKinds == {"SwapFeeCollected", "BuybackExecuted", "BuybackRewardNotified", "BuybackRewardClaimed"}

\* A log that is not about buybacks, and one that is.
LEMMA BuybacksKept ==
  ASSUME ComponentsInv, NEW log \in ComponentLog, V14!EmitLog(log), buyback' = buyback,
         log.kind \notin BuybackKinds,
         \A t \in V14Tokens : t \in born' <=> t \in born \/ RaisesToken(log, "NewToken", t)
  PROVE  \A t \in V14Tokens : BuybackPending(t)'
<1> SUFFICES ASSUME NEW t \in V14Tokens PROVE BuybackPending(t)'
  OBVIOUS
<1>1. ComponentsType /\ BuybackPending(t)
  BY DEF ComponentsInv
<1>2. buyback[t] \in Buybacks
  BY <1>1 DEF ComponentsType, ChainType
<1>3. /\ buyback[t].fees \in Nat /\ buyback[t].spent \in Nat /\ buyback[t].bought \in Nat
      /\ buyback[t].notified \in Nat /\ buyback[t].claimed \in Nat
  BY <1>2 DEF Buybacks
<1>4. \A kind \in BuybackKinds : ~ RaisesToken(log, kind, t)
  BY DEF RaisesToken
<1>5. /\ ~ RaisesToken(log, "SwapFeeCollected", t) /\ ~ RaisesToken(log, "BuybackExecuted", t)
      /\ ~ RaisesToken(log, "BuybackRewardNotified", t) /\ ~ RaisesToken(log, "BuybackRewardClaimed", t)
  BY <1>4 DEF BuybackKinds
<1> QED
  BY <1>1, <1>3, <1>5, TokenStep

LEMMA PairsKept ==
  ASSUME ComponentsInv, NEW log \in ComponentLog, V14!EmitLog(log),
         log.kind \in BuybackKinds, UNCHANGED <<born, paired, linked, taxed>>
  PROVE  \A p \in V14!Pairs : PairPending(p)'
<1> SUFFICES ASSUME NEW p \in V14!Pairs PROVE PairPending(p)'
  OBVIOUS
<1>1. ComponentsType /\ PairPending(p)
  BY DEF ComponentsInv
<1>2. /\ log.kind # "NewToken" /\ log.kind # "ComponentPairCreated"
      /\ log.kind # "NutboxStakingPoolLinked" /\ log.kind # "ComponentPoolTaxBurned"
  BY DEF BuybackKinds
<1>3. /\ ~ Raises(log, "ComponentPairCreated", p) /\ ~ RaisesToken(log, "NewToken", p[1])
      /\ ~ Raises(log, "NutboxStakingPoolLinked", p) /\ ~ Raises(log, "ComponentPoolTaxBurned", p)
  BY <1>2 DEF Raises, RaisesToken
<1> QED
  BY <1>1, <1>3, PairStep

LEMMA CreateStep ==
  ASSUME ComponentsInv, NEW t \in V14Tokens, V14!Create(t)
  PROVE  ComponentsInv'
<1>1. ComponentsType /\ LogsPlaced /\ ChainType /\ ~ halted
  BY DEF ComponentsInv, ComponentsType
<1>2. PICK log \in ComponentLog :
        /\ log = V14!LogOf("NewToken", "pump", V14!SomePair(t), 0)
        /\ log.kind = "NewToken" /\ log.source = "pump" /\ log.pair[1] = t
        /\ log.id = Len(logs14) + 1
  <2>1. "NewToken" \in ComponentKinds /\ "pump" \in ComponentSources /\ 0 \in Nat
    BY NoStranger DEF ComponentKinds
  <2> QED
    BY <1>1, <2>1, LogIs, SomePairOf
<1>3. /\ V14!EmitLog(log) /\ born' = born \cup {t}
      /\ paired' = paired /\ linked' = linked /\ taxed' = taxed /\ buyback' = buyback
  BY <1>2 DEF V14!Create
<1>4. LogsPlaced'
  BY <1>1, <1>2, <1>3, NoStranger, PlacedMore
<1>5. ComponentsType' /\ ~ halted'
  <2>1. ChainType'
    BY <1>1, <1>3 DEF ChainType
  <2> QED
    BY <1>1, <1>3, <2>1, TypeMore, OneMoreLog
<1>6. \A u : RaisesToken(log, "NewToken", u) <=> u = t
  BY <1>2, NoStranger DEF RaisesToken, Counts
<1>7. ASSUME NEW p \in V14!Pairs PROVE PairPending(p)'
  <2>1. PairPending(p)
    BY DEF ComponentsInv
  <2>2. /\ ~ Raises(log, "ComponentPairCreated", p) /\ ~ Raises(log, "NutboxStakingPoolLinked", p)
        /\ ~ Raises(log, "ComponentPoolTaxBurned", p)
    BY <1>2 DEF Raises
  <2>3. p[1] \in born' <=> p[1] \in born \/ RaisesToken(log, "NewToken", p[1])
    BY <1>3, <1>6
  <2> QED
    BY <1>1, <1>3, <2>1, <2>2, <2>3, PairStep
<1>8. \A u \in V14Tokens : BuybackPending(u)'
  <2>1. log.kind \notin BuybackKinds
    BY <1>2 DEF BuybackKinds
  <2>2. \A u \in V14Tokens : u \in born' <=> u \in born \/ RaisesToken(log, "NewToken", u)
    BY <1>3, <1>6
  <2> QED
    BY <1>3, <2>1, <2>2, BuybacksKept
<1> QED
  BY <1>4, <1>5, <1>7, <1>8 DEF ComponentsInv

LEMMA CreatePairStep ==
  ASSUME ComponentsInv, NEW p \in V14!Pairs, V14!CreatePair(p)
  PROVE  ComponentsInv'
<1>1. ComponentsType /\ LogsPlaced /\ ChainType /\ ~ halted
  BY DEF ComponentsInv, ComponentsType
<1>2. p[1] \in born /\ p[1] \in V14Tokens
  BY PairIs DEF V14!CreatePair
<1>3. PICK log \in ComponentLog :
        /\ log = V14!LogOf("ComponentPairCreated", p[1], p, 0)
        /\ log.kind = "ComponentPairCreated" /\ log.source = p[1] /\ log.pair = p
        /\ log.id = Len(logs14) + 1
  <2>1. "ComponentPairCreated" \in ComponentKinds /\ p[1] \in ComponentSources /\ 0 \in Nat
    BY <1>2, NoStranger DEF ComponentKinds
  <2> QED
    BY <1>1, <2>1, LogIs
<1>4. /\ V14!EmitLog(log) /\ paired' = paired \cup {p}
      /\ born' = born /\ linked' = linked /\ taxed' = taxed /\ buyback' = buyback
  BY <1>3 DEF V14!CreatePair
<1>5. LogsPlaced'
  BY <1>1, <1>2, <1>3, <1>4, BornIsAnnounced, PlacedMore
<1>6. ComponentsType' /\ ~ halted'
  <2>1. ChainType'
    BY <1>1, <1>2, <1>4 DEF ChainType
  <2> QED
    BY <1>1, <1>4, <2>1, TypeMore, OneMoreLog
<1>7. \A q : ~ RaisesToken(log, "NewToken", q)
  BY <1>3 DEF RaisesToken
<1>8. \A q : Raises(log, "ComponentPairCreated", q) <=> q = p
  BY <1>2, <1>3, NoStranger DEF Raises, Counts
<1>9. ASSUME NEW q \in V14!Pairs PROVE PairPending(q)'
  <2>1. PairPending(q)
    BY DEF ComponentsInv
  <2>2. /\ ~ Raises(log, "NutboxStakingPoolLinked", q) /\ ~ Raises(log, "ComponentPoolTaxBurned", q)
        /\ ~ RaisesToken(log, "NewToken", q[1])
    BY <1>3 DEF Raises, RaisesToken
  <2>3. q \in paired' <=> q \in paired \/ Raises(log, "ComponentPairCreated", q)
    BY <1>4, <1>8
  <2> QED
    BY <1>1, <1>4, <2>1, <2>2, <2>3, PairStep
<1>10. \A u \in V14Tokens : BuybackPending(u)'
  <2>1. log.kind \notin BuybackKinds
    BY <1>3 DEF BuybackKinds
  <2> QED
    BY <1>4, <1>7, <2>1, BuybacksKept
<1> QED
  BY <1>5, <1>6, <1>9, <1>10 DEF ComponentsInv

LEMMA LinkPoolStep ==
  ASSUME ComponentsInv, NEW p \in V14!Pairs, V14!LinkPool(p)
  PROVE  ComponentsInv'
<1>1. ComponentsType /\ LogsPlaced /\ ChainType /\ ~ halted
  BY DEF ComponentsInv, ComponentsType
<1>2. PICK log \in ComponentLog :
        /\ log = V14!LogOf("NutboxStakingPoolLinked", "pump", p, 0)
        /\ log.kind = "NutboxStakingPoolLinked" /\ log.source = "pump" /\ log.pair = p
        /\ log.id = Len(logs14) + 1
  <2>1. "NutboxStakingPoolLinked" \in ComponentKinds /\ "pump" \in ComponentSources /\ 0 \in Nat
    BY NoStranger DEF ComponentKinds
  <2> QED
    BY <1>1, <2>1, LogIs
<1>3. PICK when \in {"late", "early"} : when = IF p \in paired THEN "late" ELSE "early"
  OBVIOUS
<1>4. /\ V14!EmitLog(log) /\ linked[p] = "no" /\ linked' = [linked EXCEPT ![p] = when]
      /\ born' = born /\ paired' = paired /\ taxed' = taxed /\ buyback' = buyback
  BY <1>2, <1>3 DEF V14!LinkPool
<1>5. LogsPlaced'
  BY <1>1, <1>2, <1>4, NoStranger, PlacedMore
<1>6. linked' \in [V14!Pairs -> {"no", "early", "late"}] /\ linked'[p] = when
      /\ \A q \in V14!Pairs \ {p} : linked'[q] = linked[q]
  BY <1>1, <1>3, <1>4 DEF ChainType
<1>7. ComponentsType' /\ ~ halted'
  <2>1. ChainType'
    BY <1>1, <1>4, <1>6 DEF ChainType
  <2> QED
    BY <1>1, <1>4, <2>1, TypeMore, OneMoreLog
<1>8. \A q : ~ RaisesToken(log, "NewToken", q)
  BY <1>2 DEF RaisesToken
<1>9. \A q : Raises(log, "NutboxStakingPoolLinked", q) <=> q = p
  BY <1>2, NoStranger DEF Raises, Counts
<1>10. ASSUME NEW q \in V14!Pairs PROVE PairPending(q)'
  <2>1. PairPending(q)
    BY DEF ComponentsInv
  <2>2. /\ ~ Raises(log, "ComponentPairCreated", q) /\ ~ Raises(log, "ComponentPoolTaxBurned", q)
        /\ ~ RaisesToken(log, "NewToken", q[1])
    BY <1>2 DEF Raises, RaisesToken
  <2>3. /\ Raises(log, "NutboxStakingPoolLinked", q) =>
             linked[q] = "no" /\ linked'[q] = IF q \in paired THEN "late" ELSE "early"
        /\ ~ Raises(log, "NutboxStakingPoolLinked", q) => linked'[q] = linked[q]
    BY <1>3, <1>4, <1>6, <1>9
  <2> QED
    BY <1>1, <1>4, <2>1, <2>2, <2>3, PairStep
<1>11. \A u \in V14Tokens : BuybackPending(u)'
  <2>1. log.kind \notin BuybackKinds
    BY <1>2 DEF BuybackKinds
  <2> QED
    BY <1>4, <1>8, <2>1, BuybacksKept
<1> QED
  BY <1>5, <1>7, <1>10, <1>11 DEF ComponentsInv

LEMMA BurnTaxStep ==
  ASSUME ComponentsInv, NEW p \in V14!Pairs, V14!BurnTax(p)
  PROVE  ComponentsInv'
<1>1. ComponentsType /\ LogsPlaced /\ ChainType /\ ~ halted
  BY DEF ComponentsInv, ComponentsType
<1>2. p \in paired /\ p[1] \in born /\ p[1] \in V14Tokens
  BY <1>1, PairIs DEF V14!BurnTax, ChainType
<1>3. PICK log \in ComponentLog :
        /\ log = V14!LogOf("ComponentPoolTaxBurned", p[1], p, 1)
        /\ log.kind = "ComponentPoolTaxBurned" /\ log.source = p[1] /\ log.pair = p
        /\ log.amount = 1 /\ log.id = Len(logs14) + 1
  <2>1. "ComponentPoolTaxBurned" \in ComponentKinds /\ p[1] \in ComponentSources /\ 1 \in Nat
    BY <1>2, NoStranger DEF ComponentKinds
  <2> QED
    BY <1>1, <2>1, LogIs
<1>4. /\ V14!EmitLog(log) /\ taxed' = [taxed EXCEPT ![p] = @ + 1]
      /\ born' = born /\ paired' = paired /\ linked' = linked /\ buyback' = buyback
  BY <1>3 DEF V14!BurnTax
<1>5. LogsPlaced'
  BY <1>1, <1>2, <1>3, <1>4, BornIsAnnounced, PlacedMore
<1>6. taxed' \in [V14!Pairs -> Nat] /\ taxed'[p] = taxed[p] + 1
      /\ \A q \in V14!Pairs \ {p} : taxed'[q] = taxed[q]
  BY <1>1, <1>4 DEF ChainType
<1>7. ComponentsType' /\ ~ halted'
  <2>1. ChainType'
    BY <1>1, <1>4, <1>6 DEF ChainType
  <2> QED
    BY <1>1, <1>4, <2>1, TypeMore, OneMoreLog
<1>8. \A q : ~ RaisesToken(log, "NewToken", q)
  BY <1>3 DEF RaisesToken
<1>9. \A q : Raises(log, "ComponentPoolTaxBurned", q) <=> q = p
  BY <1>2, <1>3, NoStranger DEF Raises, Counts
<1>10. ASSUME NEW q \in V14!Pairs PROVE PairPending(q)'
  <2>1. PairPending(q)
    BY DEF ComponentsInv
  <2>2. /\ ~ Raises(log, "ComponentPairCreated", q) /\ ~ Raises(log, "NutboxStakingPoolLinked", q)
        /\ ~ RaisesToken(log, "NewToken", q[1])
    BY <1>3 DEF Raises, RaisesToken
  <2>3. /\ Raises(log, "ComponentPoolTaxBurned", q) => q \in paired /\ taxed'[q] = taxed[q] + log.amount
        /\ ~ Raises(log, "ComponentPoolTaxBurned", q) => taxed'[q] = taxed[q]
    BY <1>2, <1>3, <1>6, <1>9
  <2> QED
    BY <1>1, <1>4, <2>1, <2>2, <2>3, PairStep
<1>11. \A u \in V14Tokens : BuybackPending(u)'
  <2>1. log.kind \notin BuybackKinds
    BY <1>3 DEF BuybackKinds
  <2> QED
    BY <1>4, <1>8, <2>1, BuybacksKept
<1> QED
  BY <1>5, <1>7, <1>10, <1>11 DEF ComponentsInv

\* A log of a token's buyback that says what the contracts did.
LEMMA BuybackStep ==
  ASSUME ComponentsInv, NEW log \in ComponentLog, V14!EmitLog(log), NEW t \in born,
         log.kind \in BuybackKinds, log.source \in {"hook", t}, log.pair[1] = t,
         log.id = Len(logs14) + 1,
         UNCHANGED <<born, paired, linked, taxed>>,
         buyback' \in [V14Tokens -> Buybacks],
         \A u \in V14Tokens \ {t} : buyback'[u] = buyback[u],
         buyback'[t].fees = buyback[t].fees + IF log.kind = "SwapFeeCollected" THEN log.amount ELSE 0,
         buyback'[t].spent = buyback[t].spent + IF log.kind = "BuybackExecuted" THEN log.amount ELSE 0,
         buyback'[t].bought = buyback[t].bought + IF log.kind = "BuybackExecuted" THEN 1 ELSE 0,
         buyback'[t].notified = buyback[t].notified
           + IF log.kind = "BuybackRewardNotified" THEN log.amount ELSE 0,
         buyback'[t].claimed = buyback[t].claimed
           + IF log.kind = "BuybackRewardClaimed" THEN log.amount ELSE 0
  PROVE  ComponentsInv'
<1>1. ComponentsType /\ LogsPlaced /\ ChainType /\ ~ halted
  BY DEF ComponentsInv, ComponentsType
<1>2. t \in V14Tokens /\ AnnouncedToken(t)
  BY BornIsAnnounced
<1>3. LogsPlaced'
  BY <1>1, <1>2, NoStranger, PlacedMore
<1>4. ComponentsType' /\ ~ halted'
  <2>1. ChainType'
    BY <1>1 DEF ChainType
  <2> QED
    BY <1>1, <2>1, TypeMore, OneMoreLog
<1>5. \A p \in V14!Pairs : PairPending(p)'
  BY PairsKept
<1>6. \A kind, u : RaisesToken(log, kind, u) <=> log.kind = kind /\ u = t
  BY <1>2, NoStranger DEF RaisesToken, Counts
<1>7. log.kind # "NewToken"
  BY DEF BuybackKinds
<1>8. ASSUME NEW u \in V14Tokens PROVE BuybackPending(u)'
  <2>1. BuybackPending(u)
    BY DEF ComponentsInv
  <2>2. u \in born' <=> u \in born \/ RaisesToken(log, "NewToken", u)
    BY <1>6, <1>7
  <2>3. CASE u = t
    <3>1. \A kind : RaisesToken(log, kind, u) <=> log.kind = kind
      BY <1>6, <2>3
    <3> QED
      BY <1>1, <2>1, <2>2, <2>3, <3>1, TokenStep
  <2>4. CASE u # t
    <3>1. \A kind : ~ RaisesToken(log, kind, u)
      BY <1>6, <2>4
    <3>2. buyback[u] \in Buybacks /\ buyback'[u] = buyback[u]
      BY <1>1, <2>4 DEF ChainType
    <3>3. /\ buyback[u].fees \in Nat /\ buyback[u].spent \in Nat /\ buyback[u].bought \in Nat
          /\ buyback[u].notified \in Nat /\ buyback[u].claimed \in Nat
      BY <3>2 DEF Buybacks
    <3> QED
      BY <1>1, <2>1, <2>2, <3>1, <3>2, <3>3, TokenStep
  <2> QED
    BY <2>3, <2>4
<1> QED
  BY <1>3, <1>4, <1>5, <1>8 DEF ComponentsInv

\* What a buyback of a token holds.
LEMMA BuybackOf ==
  ASSUME ComponentsInv, NEW t \in V14Tokens
  PROVE  /\ buyback[t] \in Buybacks
         /\ buyback[t].fees \in Nat /\ buyback[t].spent \in Nat /\ buyback[t].bought \in Nat
         /\ buyback[t].notified \in Nat /\ buyback[t].claimed \in Nat
         /\ t \notin born => /\ buyback[t].fees = 0 /\ buyback[t].spent = 0 /\ buyback[t].bought = 0
                             /\ buyback[t].notified = 0 /\ buyback[t].claimed = 0
<1>1. ChainType
  BY DEF ComponentsInv, ComponentsType
<1>2. buyback[t] \in Buybacks
  BY <1>1 DEF ChainType
<1>3. t \notin born => buyback[t] = V14!NoBuyback
  BY <1>1 DEF ChainType
<1> QED
  BY <1>2, <1>3 DEF Buybacks, V14!NoBuyback

LEMMA CollectFeeStep ==
  ASSUME ComponentsInv, NEW t \in V14Tokens, NEW amount \in Nat, V14!CollectFee(t, amount)
  PROVE  ComponentsInv'
<1>1. ComponentsType /\ buyback \in [V14Tokens -> Buybacks]
  BY DEF ComponentsInv, ComponentsType, ChainType
<1>2. PICK log \in ComponentLog :
        /\ log = V14!LogOf("SwapFeeCollected", "hook", V14!SomePair(t), amount)
        /\ log.kind = "SwapFeeCollected" /\ log.source = "hook" /\ log.pair[1] = t
        /\ log.amount = amount /\ log.id = Len(logs14) + 1
  <2>1. "SwapFeeCollected" \in ComponentKinds /\ "hook" \in ComponentSources
    BY NoStranger DEF ComponentKinds
  <2> QED
    BY <1>1, <2>1, LogIs, SomePairOf
<1>3. /\ V14!EmitLog(log) /\ t \in born /\ UNCHANGED <<born, paired, linked, taxed>>
      /\ buyback' = [buyback EXCEPT ![t].fees = @ + amount]
  BY <1>2 DEF V14!CollectFee
<1>4. PICK after : after = [buyback[t] EXCEPT !.fees = @ + amount]
  OBVIOUS
<1>5. /\ after \in Buybacks /\ after.fees = buyback[t].fees + amount /\ after.spent = buyback[t].spent
      /\ after.bought = buyback[t].bought /\ after.notified = buyback[t].notified
      /\ after.claimed = buyback[t].claimed
  BY <1>4, BuybackOf DEF Buybacks
<1>6. /\ buyback' \in [V14Tokens -> Buybacks] /\ buyback'[t] = after
      /\ \A u \in V14Tokens \ {t} : buyback'[u] = buyback[u]
  BY <1>1, <1>3, <1>4, <1>5
<1>7. log.kind \in BuybackKinds
  BY <1>2 DEF BuybackKinds
<1>8. /\ log.kind = "SwapFeeCollected" /\ log.amount = amount /\ amount \in Nat
      /\ buyback[t].fees \in Nat /\ buyback[t].spent \in Nat /\ buyback[t].bought \in Nat
      /\ buyback[t].notified \in Nat /\ buyback[t].claimed \in Nat
  BY <1>2, BuybackOf
<1>9. buyback'[t] = after
  BY <1>6
<1>10. t \in born
  BY <1>3
<1>11. log.source \in {"hook", t} /\ log.pair[1] = t /\ log.id = Len(logs14) + 1
  BY <1>2
<1>12. /\ buyback' \in [V14Tokens -> Buybacks]
       /\ \A u \in V14Tokens \ {t} : buyback'[u] = buyback[u]
  BY <1>6
<1>13. /\ buyback'[t].fees = buyback[t].fees + IF log.kind = "SwapFeeCollected" THEN log.amount ELSE 0
       /\ buyback'[t].spent = buyback[t].spent + IF log.kind = "BuybackExecuted" THEN log.amount ELSE 0
       /\ buyback'[t].bought = buyback[t].bought + IF log.kind = "BuybackExecuted" THEN 1 ELSE 0
       /\ buyback'[t].notified = buyback[t].notified
            + IF log.kind = "BuybackRewardNotified" THEN log.amount ELSE 0
       /\ buyback'[t].claimed = buyback[t].claimed
            + IF log.kind = "BuybackRewardClaimed" THEN log.amount ELSE 0
  <2>1. buyback'[t].fees = buyback[t].fees + IF log.kind = "SwapFeeCollected" THEN log.amount ELSE 0
    BY <1>5, <1>8, <1>9
  <2>2. buyback'[t].spent = buyback[t].spent + IF log.kind = "BuybackExecuted" THEN log.amount ELSE 0
    BY <1>5, <1>8, <1>9
  <2>3. buyback'[t].bought = buyback[t].bought + IF log.kind = "BuybackExecuted" THEN 1 ELSE 0
    BY <1>5, <1>8, <1>9
  <2>4. buyback'[t].notified = buyback[t].notified
          + IF log.kind = "BuybackRewardNotified" THEN log.amount ELSE 0
    BY <1>5, <1>8, <1>9
  <2>5. buyback'[t].claimed = buyback[t].claimed
          + IF log.kind = "BuybackRewardClaimed" THEN log.amount ELSE 0
    BY <1>5, <1>8, <1>9
  <2> QED
    BY <2>1, <2>2, <2>3, <2>4, <2>5
<1>14. V14!EmitLog(log) /\ UNCHANGED <<born, paired, linked, taxed>>
  BY <1>3
<1> QED
  BY <1>7, <1>10, <1>11, <1>12, <1>13, <1>14, BuybackStep

LEMMA ExecuteStep ==
  ASSUME ComponentsInv, NEW t \in V14Tokens, NEW amount \in 1..2, V14!Execute(t, amount)
  PROVE  ComponentsInv'
<1>1. ComponentsType /\ buyback \in [V14Tokens -> Buybacks]
  BY DEF ComponentsInv, ComponentsType, ChainType
<1>2. PICK log \in ComponentLog :
        /\ log = V14!LogOf("BuybackExecuted", "hook", V14!SomePair(t), amount)
        /\ log.kind = "BuybackExecuted" /\ log.source = "hook" /\ log.pair[1] = t
        /\ log.amount = amount /\ log.id = Len(logs14) + 1
  <2>1. "BuybackExecuted" \in ComponentKinds /\ "hook" \in ComponentSources
    BY NoStranger DEF ComponentKinds
  <2> QED
    BY <1>1, <2>1, LogIs, SomePairOf
<1>3. /\ V14!EmitLog(log) /\ amount <= buyback[t].fees - buyback[t].spent
      /\ UNCHANGED <<born, paired, linked, taxed>>
      /\ buyback' = [buyback EXCEPT ![t].spent = @ + amount, ![t].bought = @ + 1]
  BY <1>2 DEF V14!Execute
<1>4. t \in born
  BY <1>3, BuybackOf
<1>5. PICK after : after = [buyback[t] EXCEPT !.spent = @ + amount, !.bought = @ + 1]
  OBVIOUS
<1>6. /\ after \in Buybacks /\ after.fees = buyback[t].fees /\ after.spent = buyback[t].spent + amount
      /\ after.bought = buyback[t].bought + 1 /\ after.notified = buyback[t].notified
      /\ after.claimed = buyback[t].claimed
  <2>1. PICK b \in Buybacks : b = buyback[t]
    BY BuybackOf
  <2>2. amount \in Nat
    OBVIOUS
  <2>3. after = [b EXCEPT !.spent = b.spent + amount, !.bought = b.bought + 1]
    BY <1>5, <2>1
  <2>4. after = [fees |-> b.fees, spent |-> b.spent + amount, bought |-> b.bought + 1,
                 notified |-> b.notified, claimed |-> b.claimed]
    BY <2>3 DEF Buybacks
  <2> QED
    BY <2>1, <2>2, <2>4 DEF Buybacks
<1>7. /\ buyback' \in [V14Tokens -> Buybacks] /\ buyback'[t] = after
      /\ \A u \in V14Tokens \ {t} : buyback'[u] = buyback[u]
  BY <1>1, <1>3, <1>5, <1>6
<1>8. log.kind \in BuybackKinds
  BY <1>2 DEF BuybackKinds
<1>9. /\ log.kind = "BuybackExecuted" /\ log.amount = amount /\ amount \in Nat
      /\ buyback[t].fees \in Nat /\ buyback[t].notified \in Nat /\ buyback[t].claimed \in Nat
  BY <1>2, BuybackOf
<1>10. /\ after.fees = buyback[t].fees + IF log.kind = "SwapFeeCollected" THEN log.amount ELSE 0
       /\ after.spent = buyback[t].spent + IF log.kind = "BuybackExecuted" THEN log.amount ELSE 0
       /\ after.bought = buyback[t].bought + IF log.kind = "BuybackExecuted" THEN 1 ELSE 0
       /\ after.notified = buyback[t].notified
            + IF log.kind = "BuybackRewardNotified" THEN log.amount ELSE 0
       /\ after.claimed = buyback[t].claimed
            + IF log.kind = "BuybackRewardClaimed" THEN log.amount ELSE 0
  BY <1>6, <1>9
<1> QED
  BY <1>2, <1>3, <1>4, <1>7, <1>8, <1>10, BuybackStep

LEMMA NotifyStep ==
  ASSUME ComponentsInv, NEW t \in V14Tokens, V14!Notify(t)
  PROVE  ComponentsInv'
<1>1. ComponentsType /\ buyback \in [V14Tokens -> Buybacks]
  BY DEF ComponentsInv, ComponentsType, ChainType
<1>2. PICK log \in ComponentLog :
        /\ log = V14!LogOf("BuybackRewardNotified", t, V14!SomePair(t), 1)
        /\ log.kind = "BuybackRewardNotified" /\ log.source = t /\ log.pair[1] = t
        /\ log.amount = 1 /\ log.id = Len(logs14) + 1
  <2>1. "BuybackRewardNotified" \in ComponentKinds /\ t \in ComponentSources /\ 1 \in Nat
    BY NoStranger DEF ComponentKinds
  <2> QED
    BY <1>1, <2>1, LogIs, SomePairOf
<1>3. /\ V14!EmitLog(log) /\ buyback[t].notified < buyback[t].bought
      /\ UNCHANGED <<born, paired, linked, taxed>>
      /\ buyback' = [buyback EXCEPT ![t].notified = @ + 1]
  BY <1>2 DEF V14!Notify
<1>4. t \in born
  BY <1>3, BuybackOf
<1>5. PICK after : after = [buyback[t] EXCEPT !.notified = @ + 1]
  OBVIOUS
<1>6. /\ after \in Buybacks /\ after.fees = buyback[t].fees /\ after.spent = buyback[t].spent
      /\ after.bought = buyback[t].bought /\ after.notified = buyback[t].notified + 1
      /\ after.claimed = buyback[t].claimed
  BY <1>5, BuybackOf DEF Buybacks
<1>7. /\ buyback' \in [V14Tokens -> Buybacks] /\ buyback'[t] = after
      /\ \A u \in V14Tokens \ {t} : buyback'[u] = buyback[u]
  BY <1>1, <1>3, <1>5, <1>6
<1>8. log.kind \in BuybackKinds
  BY <1>2 DEF BuybackKinds
<1>9. /\ log.kind = "BuybackRewardNotified" /\ log.amount = 1 /\ 1 \in Nat
      /\ buyback[t].fees \in Nat /\ buyback[t].spent \in Nat /\ buyback[t].bought \in Nat
      /\ buyback[t].notified \in Nat /\ buyback[t].claimed \in Nat
  BY <1>2, BuybackOf
<1>10. /\ after.fees = buyback[t].fees + IF log.kind = "SwapFeeCollected" THEN log.amount ELSE 0
       /\ after.spent = buyback[t].spent + IF log.kind = "BuybackExecuted" THEN log.amount ELSE 0
       /\ after.bought = buyback[t].bought + IF log.kind = "BuybackExecuted" THEN 1 ELSE 0
       /\ after.notified = buyback[t].notified
            + IF log.kind = "BuybackRewardNotified" THEN log.amount ELSE 0
       /\ after.claimed = buyback[t].claimed
            + IF log.kind = "BuybackRewardClaimed" THEN log.amount ELSE 0
  BY <1>6, <1>9
<1> QED
  BY <1>2, <1>3, <1>4, <1>7, <1>8, <1>10, BuybackStep

LEMMA ClaimStep ==
  ASSUME ComponentsInv, NEW t \in V14Tokens, V14!Claim(t)
  PROVE  ComponentsInv'
<1>1. ComponentsType /\ buyback \in [V14Tokens -> Buybacks]
  BY DEF ComponentsInv, ComponentsType, ChainType
<1>2. PICK log \in ComponentLog :
        /\ log = V14!LogOf("BuybackRewardClaimed", t, V14!SomePair(t), 1)
        /\ log.kind = "BuybackRewardClaimed" /\ log.source = t /\ log.pair[1] = t
        /\ log.amount = 1 /\ log.id = Len(logs14) + 1
  <2>1. "BuybackRewardClaimed" \in ComponentKinds /\ t \in ComponentSources /\ 1 \in Nat
    BY NoStranger DEF ComponentKinds
  <2> QED
    BY <1>1, <2>1, LogIs, SomePairOf
<1>3. /\ V14!EmitLog(log) /\ buyback[t].claimed < buyback[t].notified
      /\ UNCHANGED <<born, paired, linked, taxed>>
      /\ buyback' = [buyback EXCEPT ![t].claimed = @ + 1]
  BY <1>2 DEF V14!Claim
<1>4. t \in born
  BY <1>3, BuybackOf
<1>5. PICK after : after = [buyback[t] EXCEPT !.claimed = @ + 1]
  OBVIOUS
<1>6. /\ after \in Buybacks /\ after.fees = buyback[t].fees /\ after.spent = buyback[t].spent
      /\ after.bought = buyback[t].bought /\ after.notified = buyback[t].notified
      /\ after.claimed = buyback[t].claimed + 1
  BY <1>5, BuybackOf DEF Buybacks
<1>7. /\ buyback' \in [V14Tokens -> Buybacks] /\ buyback'[t] = after
      /\ \A u \in V14Tokens \ {t} : buyback'[u] = buyback[u]
  BY <1>1, <1>3, <1>5, <1>6
<1>8. log.kind \in BuybackKinds
  BY <1>2 DEF BuybackKinds
<1>9. /\ log.kind = "BuybackRewardClaimed" /\ log.amount = 1 /\ 1 \in Nat
      /\ buyback[t].fees \in Nat /\ buyback[t].spent \in Nat /\ buyback[t].bought \in Nat
      /\ buyback[t].notified \in Nat /\ buyback[t].claimed \in Nat
  BY <1>2, BuybackOf
<1>10. /\ after.fees = buyback[t].fees + IF log.kind = "SwapFeeCollected" THEN log.amount ELSE 0
       /\ after.spent = buyback[t].spent + IF log.kind = "BuybackExecuted" THEN log.amount ELSE 0
       /\ after.bought = buyback[t].bought + IF log.kind = "BuybackExecuted" THEN 1 ELSE 0
       /\ after.notified = buyback[t].notified
            + IF log.kind = "BuybackRewardNotified" THEN log.amount ELSE 0
       /\ after.claimed = buyback[t].claimed
            + IF log.kind = "BuybackRewardClaimed" THEN log.amount ELSE 0
  BY <1>6, <1>9
<1> QED
  BY <1>2, <1>3, <1>4, <1>7, <1>8, <1>10, BuybackStep


\* What the readers find in the block is what counts.
LEMMA ReadersAgree ==
  ASSUME ComponentsType, LogsPlaced
  PROVE  /\ \A kind : V14!Of(kind) = Counted(kind)
         /\ \A kind, p : V14!About(kind, p) = OfPair(kind, p)
         /\ \A kind, t : V14!AboutToken(kind, t) = OfToken(kind, t)
         /\ \A n : V14!ComponentAt(n) <=> PairKnown(n)
<1>1. PICK k \in Nat : k = Len(logs14) /\ DOMAIN logs14 = 1..k
  BY Places
<1>2. ASSUME NEW n \in DOMAIN logs14
      PROVE  V14!FirstOf(n) <=> logs14[n].id = n
  <2>1. PICK i : i = logs14[n].id
    OBVIOUS
  <2>2. i \in 1..n /\ logs14[i] = logs14[n] /\ n \in Nat
    BY <1>1, <2>1 DEF LogsPlaced
  <2>3. \A m \in 1..(n - 1) : logs14[m].id \in 1..m
    BY <1>1 DEF LogsPlaced
  <2>4. CASE i = n
    <3>1. \A m \in 1..(n - 1) : logs14[m].id # n
      BY <2>2, <2>3
    <3> QED
      BY <2>1, <2>4, <3>1 DEF V14!FirstOf
  <2>5. CASE i # n
    <3>1. i \in 1..(n - 1) /\ logs14[i].id = logs14[n].id
      BY <2>2, <2>5
    <3> QED
      BY <2>1, <2>5, <3>1 DEF V14!FirstOf
  <2> QED
    BY <2>4, <2>5
<1>3. ASSUME NEW n \in DOMAIN logs14
      PROVE  V14!Static(n) \/ V14!Dynamic(n) <=> logs14[n].source # Stranger
  <2>1. logs14[n].source \in ComponentSources /\ n \in Nat
    BY Places DEF ComponentLog
  <2>2. logs14[n].source \in V14Tokens => V14!Dynamic(n)
    BY DEF LogsPlaced
  <2>3. ASSUME V14!Dynamic(n) PROVE logs14[n].source \in V14Tokens
    <3>1. CASE logs14[n].source \in addresses14
      BY <3>1 DEF ComponentsType
    <3>2. CASE \E m \in 1..(n - 1) : logs14[m].kind = "NewToken" /\ logs14[m].pair[1] = logs14[n].source
      <4>1. PICK m \in 1..(n - 1) : logs14[m].pair[1] = logs14[n].source
        BY <3>2
      <4>2. m \in DOMAIN logs14
        BY <1>1, <2>1, <4>1
      <4>3. logs14[m].pair \in V14!Pairs
        BY <4>2, Places
      <4> QED
        BY <4>1, <4>3, PairIs
    <3> QED
      BY <2>3, <3>1, <3>2 DEF V14!Dynamic
  <2> QED
    BY <2>1, <2>2, <2>3, NoStranger DEF V14!Static, ComponentSources
<1>4. ASSUME NEW kind PROVE V14!Of(kind) = Counted(kind)
  BY <1>2, <1>3 DEF V14!Of, Counted
<1>5. ASSUME NEW kind, NEW p PROVE V14!About(kind, p) = OfPair(kind, p)
  BY <1>4 DEF V14!About, OfPair
<1>6. ASSUME NEW kind, NEW t PROVE V14!AboutToken(kind, t) = OfToken(kind, t)
  BY <1>4 DEF V14!AboutToken, OfToken
<1>7. ASSUME NEW n PROVE V14!ComponentAt(n) <=> PairKnown(n)
  <2>1. V14!Of("ComponentPairCreated") = Counted("ComponentPairCreated")
    BY <1>4
  <2> QED
    BY <2>1 DEF V14!ComponentAt, PairKnown
<1> QED
  BY <1>4, <1>5, <1>6, <1>7

\* An empty block has nothing for any pair or token.
NothingOpen ==
    /\ \A p : ~ OpenPair(p) /\ ~ OpenLink(p) /\ ~ OpenLate(p) /\ OpenTax(p) = 0 /\ TaxKnown(p)
    /\ \A t : /\ ~ OpenToken(t) /\ OpenFees(t) = 0 /\ OpenSpent(t) = 0 /\ OpenBought(t) = 0
              /\ OpenNotified(t) = 0 /\ OpenClaimed(t) = 0

LEMMA EmptyIsNothing == logs14 = <<>> => NothingOpen
<1> SUFFICES ASSUME logs14 = <<>> PROVE NothingOpen
  OBVIOUS
<1>1. \A kind, x : OfPair(kind, x) = {} /\ OfToken(kind, x) = {}
  BY DEF OfPair, OfToken, Counted
<1>2. Amounts({}) = 0 /\ Cardinality({}) = 0
  BY SumEmpty, FS_EmptySet DEF Amounts
<1> QED
  BY <1>1, <1>2 DEF NothingOpen, OpenPair, OpenLink, OpenLate, OpenTax, TaxKnown, OpenToken,
                    OpenFees, OpenSpent, OpenBought, OpenNotified, OpenClaimed

\* The rows that the end of a block writes are the contracts'.
LEMMA RowsWritten ==
  ASSUME ComponentsInv
  PROVE  /\ ~ V14!Panics
         /\ \A p \in V14!Pairs : V14!ComponentRow(p) =
              [configured |-> p[1] \in born, pair |-> p \in paired,
               pool |-> linked[p] = "late", tax |-> taxed[p]]
         /\ \A t \in V14Tokens :
              V14!StateRow(t) = V14!Funded(buyback[t].fees - buyback[t].spent, buyback[t])
         /\ db14.pools \cup V14!PoolLinks = {p \in V14!Pairs : linked[p] # "no"}
<1>1. ComponentsType /\ LogsPlaced
  BY DEF ComponentsInv
<1>2. \A S : V14!Total(S) = Amounts(S)
  BY DEF V14!Total, Amounts, SumFunctionOnSet, FoldFunctionOnSet, MapThenFoldSet,
         V14!SumFunctionOnSet, V14!FoldFunctionOnSet, V14!MapThenFoldSet
<1>3. ~ V14!Panics
  <2> SUFFICES ASSUME V14!Panics PROVE FALSE
    OBVIOUS
  <2>1. PICK kind : kind = "ComponentPoolTaxBurned"
    OBVIOUS
  <2>2. PICK n \in V14!Of(kind) : ~ V14!ComponentAt(n)
    BY <2>1 DEF V14!Panics
  <2>3. n \in Counted(kind) /\ ~ PairKnown(n)
    BY <1>1, <2>2, ReadersAgree
  <2>4. n \in DOMAIN logs14 /\ n \in OfPair(kind, logs14[n].pair)
    BY <2>3 DEF Counted, OfPair
  <2>5. logs14[n].pair \in V14!Pairs
    BY <1>1, <2>4, Places
  <2>6. TaxKnown(logs14[n].pair)
    BY <2>5 DEF ComponentsInv, PairPending
  <2> QED
    BY <2>1, <2>3, <2>4, <2>6 DEF TaxKnown
<1>4. ASSUME NEW p \in V14!Pairs
      PROVE  V14!ComponentRow(p) =
               [configured |-> p[1] \in born, pair |-> p \in paired,
                pool |-> linked[p] = "late", tax |-> taxed[p]]
  <2>1. PairPending(p)
    BY DEF ComponentsInv
  <2>2. PICK row \in ComponentRows : row = db14.components[p]
    BY <1>1 DEF ComponentsType
  <2>3. row.configured \in BOOLEAN /\ row.pair \in BOOLEAN /\ row.pool \in BOOLEAN
    BY DEF ComponentRows
  <2>4. V14!Configured(p) = (p[1] \in born)
    <3>1. V14!AboutToken("NewToken", p[1]) = OfToken("NewToken", p[1])
      BY <1>1, ReadersAgree
    <3>2. V14!Configured(p) <=> row.configured \/ OpenToken(p[1])
      BY <2>2, <3>1 DEF V14!Configured, OpenToken
    <3>3. V14!Configured(p) \in BOOLEAN
      BY <2>2, <2>3 DEF V14!Configured
    <3> QED
      BY <2>1, <2>2, <3>2, <3>3 DEF PairPending
  <2>5. (row.pair \/ V14!About("ComponentPairCreated", p) # {}) = (p \in paired)
    <3>1. V14!About("ComponentPairCreated", p) = OfPair("ComponentPairCreated", p)
      BY <1>1, ReadersAgree
    <3> QED
      BY <2>1, <2>2, <2>3, <3>1 DEF PairPending, OpenPair
  <2>6. V14!ComponentLinked(p) = (linked[p] = "late")
    <3>1. V14!About("NutboxStakingPoolLinked", p) = OfPair("NutboxStakingPoolLinked", p)
      BY <1>1, ReadersAgree
    <3>2. \A n : V14!ComponentAt(n) <=> PairKnown(n)
      BY <1>1, ReadersAgree
    <3>3. V14!ComponentLinked(p) <=> row.pool \/ OpenLate(p)
      BY <2>2, <3>1, <3>2 DEF V14!ComponentLinked, OpenLate
    <3>4. V14!ComponentLinked(p) \in BOOLEAN
      BY <2>2, <2>3 DEF V14!ComponentLinked
    <3> QED
      BY <2>1, <2>2, <3>3, <3>4 DEF PairPending
  <2>7. row.tax + V14!Total(V14!About("ComponentPoolTaxBurned", p)) = taxed[p]
    <3>1. V14!About("ComponentPoolTaxBurned", p) = OfPair("ComponentPoolTaxBurned", p)
      BY <1>1, ReadersAgree
    <3>2. taxed[p] = row.tax + OpenTax(p)
      BY <2>1, <2>2 DEF PairPending
    <3> QED
      BY <1>2, <3>1, <3>2 DEF OpenTax
  <2> QED
    BY <2>2, <2>4, <2>5, <2>6, <2>7 DEF V14!ComponentRow
<1>5. ASSUME NEW t \in V14Tokens
      PROVE  V14!StateRow(t) = V14!Funded(buyback[t].fees - buyback[t].spent, buyback[t])
  <2>1. BuybackPending(t)
    BY DEF ComponentsInv
  <2>2. PICK row : row = db14.states[t]
    OBVIOUS
  <2>3. \A kind : V14!AboutToken(kind, t) = OfToken(kind, t)
    BY <1>1, ReadersAgree
  <2>4. /\ V14!Total(V14!AboutToken("SwapFeeCollected", t)) = OpenFees(t)
        /\ V14!Total(V14!AboutToken("BuybackExecuted", t)) = OpenSpent(t)
        /\ Cardinality(V14!AboutToken("BuybackExecuted", t)) = OpenBought(t)
        /\ V14!Total(V14!AboutToken("BuybackRewardNotified", t)) = OpenNotified(t)
        /\ V14!Total(V14!AboutToken("BuybackRewardClaimed", t)) = OpenClaimed(t)
    BY <1>2, <2>3 DEF OpenFees, OpenSpent, OpenBought, OpenNotified, OpenClaimed
  <2>5. /\ buyback[t].fees = row.fees + OpenFees(t)
        /\ buyback[t].spent = row.spent + OpenSpent(t)
        /\ buyback[t].fees - buyback[t].spent = row.native_reserve + OpenFees(t) - OpenSpent(t)
        /\ buyback[t].bought = row.bought + OpenBought(t)
        /\ buyback[t].notified = row.notified + OpenNotified(t)
        /\ buyback[t].claimed = row.claimed + OpenClaimed(t)
    BY <2>1, <2>2 DEF BuybackPending
  <2>6. V14!Reserve(t) = row.native_reserve + OpenFees(t) - OpenSpent(t)
    BY <2>2, <2>4 DEF V14!Reserve
  <2> QED
    BY <2>2, <2>4, <2>5, <2>6 DEF V14!StateRow, V14!Funded, V14!Cardinality, Cardinality
<1>6. db14.pools \cup V14!PoolLinks = {p \in V14!Pairs : linked[p] # "no"}
  <2>1. PICK kind : kind = "NutboxStakingPoolLinked"
    OBVIOUS
  <2>2. V14!PoolLinks = {logs14[n].pair : n \in Counted(kind)}
    BY <1>1, <2>1, ReadersAgree DEF V14!PoolLinks
  <2>3. \A n \in Counted(kind) : logs14[n].pair \in V14!Pairs
    BY <1>1, Places DEF Counted
  <2>4. \A p : p \in V14!PoolLinks <=> OpenLink(p)
    BY <2>1, <2>2 DEF OpenLink, OfPair
  <2>5. V14!PoolLinks \subseteq V14!Pairs /\ db14.pools \subseteq V14!Pairs
    BY <1>1, <2>2, <2>3 DEF ComponentsType
  <2>6. \A p \in V14!Pairs : linked[p] # "no" <=> p \in db14.pools \/ OpenLink(p)
    BY DEF ComponentsInv, PairPending
  <2> QED
    BY <2>4, <2>5, <2>6
<1> QED
  BY <1>3, <1>4, <1>5, <1>6

LEMMA EndBlockComponents ==
  ASSUME ComponentsInv, V14!EndBlock
  PROVE  ComponentsInv'
<1>1. ComponentsType /\ LogsPlaced /\ ChainType
  BY DEF ComponentsInv, ComponentsType
<1>2. /\ born' = born /\ paired' = paired /\ linked' = linked /\ taxed' = taxed /\ buyback' = buyback
      /\ logs14' = <<>> /\ ~ halted'
      /\ addresses14' = addresses14 \cup {logs14[n].pair[1] : n \in V14!Of("NewToken")}
      /\ components' = components \cup {logs14[n].pair : n \in V14!Of("ComponentPairCreated")}
      /\ db14' = [components |-> [p \in V14!Pairs |-> V14!ComponentRow(p)],
                  pools |-> db14.pools \cup V14!PoolLinks,
                  states |-> [t \in V14Tokens |-> V14!StateRow(t)]]
  BY RowsWritten DEF V14!EndBlock, V14!chain
<1>3. /\ addresses14' = addresses14 \cup {logs14[n].pair[1] : n \in Counted("NewToken")}
      /\ components' = components \cup {logs14[n].pair : n \in Counted("ComponentPairCreated")}
  BY <1>1, <1>2, ReadersAgree
<1>4. ASSUME NEW kind, NEW n \in Counted(kind)
      PROVE  logs14[n].pair \in V14!Pairs /\ logs14[n].pair[1] \in V14Tokens
  BY <1>1, Places, PairIs DEF Counted
<1>5. addresses14' \subseteq V14Tokens /\ components' \subseteq V14!Pairs
  <2>1. PICK kind : kind = "NewToken"
    OBVIOUS
  <2>2. PICK other : other = "ComponentPairCreated"
    OBVIOUS
  <2>3. \A n \in Counted(kind) : logs14[n].pair[1] \in V14Tokens
    BY <1>4
  <2>4. \A n \in Counted(other) : logs14[n].pair \in V14!Pairs
    BY <1>4
  <2> QED
    BY <1>1, <1>3, <2>1, <2>2, <2>3, <2>4 DEF ComponentsType
<1>6. \A t : t \in addresses14' <=> t \in addresses14 \/ OpenToken(t)
  BY <1>3 DEF OpenToken, OfToken
<1>7. \A p : p \in components' <=> p \in components \/ OpenPair(p)
  BY <1>3 DEF OpenPair, OfPair
<1>8. \A p \in V14!Pairs : db14'.components[p] =
        [configured |-> p[1] \in born, pair |-> p \in paired,
         pool |-> linked[p] = "late", tax |-> taxed[p]]
  BY <1>2, RowsWritten
<1>9. \A t \in V14Tokens :
        db14'.states[t] = V14!Funded(buyback[t].fees - buyback[t].spent, buyback[t])
  BY <1>2, RowsWritten
<1>10. db14'.pools = {p \in V14!Pairs : linked[p] # "no"}
  BY <1>2, RowsWritten
<1>11. ComponentsType'
  <2>1. ChainType'
    BY <1>1, <1>2 DEF ChainType
  <2>2. logs14' \in Seq(ComponentLog)
    BY <1>2
  <2>3. db14'.components \in [V14!Pairs -> ComponentRows]
    <3>1. ASSUME NEW p \in V14!Pairs PROVE db14'.components[p] \in ComponentRows
      <4>1. taxed[p] \in Int
        BY <1>1 DEF ChainType
      <4>2. PICK row : row = db14'.components[p]
        OBVIOUS
      <4>3. row = [configured |-> p[1] \in born, pair |-> p \in paired,
                   pool |-> linked[p] = "late", tax |-> taxed[p]]
        BY <1>8, <4>2
      <4>4. (p[1] \in born) \in BOOLEAN /\ (p \in paired) \in BOOLEAN /\ (linked[p] = "late") \in BOOLEAN
        OBVIOUS
      <4>5. row \in ComponentRows
        BY <4>1, <4>3, <4>4 DEF ComponentRows
      <4> QED
        BY <4>2, <4>5
    <3>2. db14'.components = [p \in V14!Pairs |-> V14!ComponentRow(p)]
      BY <1>2
    <3> QED
      BY <3>1, <3>2
  <2>4. db14'.states \in [V14Tokens -> BuybackRows]
    <3>1. ASSUME NEW t \in V14Tokens PROVE db14'.states[t] \in BuybackRows
      <4>1. db14'.states[t] = V14!Funded(buyback[t].fees - buyback[t].spent, buyback[t])
        BY <1>9
      <4> QED
        BY <4>1, BuybackOf DEF V14!Funded, BuybackRows
    <3>2. db14'.states = [t \in V14Tokens |-> V14!StateRow(t)]
      BY <1>2
    <3> QED
      BY <3>1, <3>2
  <2>5. db14'.pools \subseteq V14!Pairs
    BY <1>10
  <2> QED
    BY <1>5, <2>1, <2>2, <2>3, <2>4, <2>5 DEF ComponentsType
<1>12. LogsPlaced'
  BY <1>2 DEF LogsPlaced
<1>13. NothingOpen'
  <2>1. (logs14 = <<>> => NothingOpen) /\ (logs14 = <<>> => NothingOpen)'
    BY EmptyIsNothing, PTL
  <2> QED
    BY <1>2, <2>1
<1>14. ASSUME NEW p \in V14!Pairs PROVE PairPending(p)'
  <2>1. PairPending(p) /\ p[1] \in V14Tokens
    BY PairIs DEF ComponentsInv
  <2>2. /\ ~ OpenPair(p)' /\ ~ OpenLink(p)' /\ ~ OpenLate(p)' /\ OpenTax(p)' = 0 /\ TaxKnown(p)'
        /\ ~ OpenToken(p[1])'
    BY <1>13 DEF NothingOpen
  <2>3. taxed[p] \in Nat
    BY <1>1 DEF ChainType
  <2>4. p \in paired' <=> p \in components'
    BY <1>2, <1>7, <2>1 DEF PairPending
  <2>5. PICK row : row = db14'.components[p]
    OBVIOUS
  <2>6. row = [configured |-> p[1] \in born, pair |-> p \in paired,
               pool |-> linked[p] = "late", tax |-> taxed[p]]
    BY <1>8, <2>5
  <2>7. /\ row.configured <=> p[1] \in born
        /\ row.pair <=> p \in paired
        /\ row.pool <=> linked[p] = "late"
        /\ row.tax = taxed[p]
    BY <2>6
  <2>8. linked[p] # "no" <=> p \in db14'.pools
    BY <1>10
  <2>9. taxed'[p] = row.tax + OpenTax(p)'
    BY <1>2, <2>2, <2>3, <2>7
  <2> QED
    BY <1>2, <2>2, <2>4, <2>5, <2>7, <2>8, <2>9 DEF PairPending
<1>15. ASSUME NEW t \in V14Tokens PROVE BuybackPending(t)'
  <2>1. BuybackPending(t)
    BY DEF ComponentsInv
  <2>2. /\ ~ OpenToken(t)' /\ OpenFees(t)' = 0 /\ OpenSpent(t)' = 0 /\ OpenBought(t)' = 0
        /\ OpenNotified(t)' = 0 /\ OpenClaimed(t)' = 0
    BY <1>13 DEF NothingOpen
  <2>3. t \in born' <=> t \in addresses14' \/ OpenToken(t)'
    BY <1>2, <1>6, <2>1, <2>2 DEF BuybackPending
  <2>4. db14'.states[t] = V14!Funded(buyback[t].fees - buyback[t].spent, buyback[t])
    BY <1>9
  <2>5. /\ buyback[t].fees \in Nat /\ buyback[t].spent \in Nat /\ buyback[t].bought \in Nat
        /\ buyback[t].notified \in Nat /\ buyback[t].claimed \in Nat
    BY BuybackOf
  <2>6. buyback' = buyback
    BY <1>2
  <2> QED
    BY <2>2, <2>3, <2>4, <2>5, <2>6 DEF BuybackPending, V14!Funded
<1> QED
  BY <1>2, <1>11, <1>12, <1>14, <1>15 DEF ComponentsInv

LEMMA InitComponents ==
  ASSUME V14!Init
  PROVE  ComponentsInv
<1>1. /\ born = {} /\ paired = {} /\ linked = [p \in V14!Pairs |-> "no"]
      /\ taxed = [p \in V14!Pairs |-> 0] /\ buyback = [t \in V14Tokens |-> V14!NoBuyback]
      /\ logs14 = <<>> /\ addresses14 = {} /\ components = {} /\ ~ halted
      /\ db14 = [components |-> [p \in V14!Pairs |-> V14!NoComponent], pools |-> {},
                 states |-> [t \in V14Tokens |-> V14!Funded(0, V14!NoBuyback)]]
  BY DEF V14!Init
<1>2. NothingOpen
  BY <1>1, EmptyIsNothing
<1>3. ComponentsType
  <2>1. ChainType
    BY <1>1 DEF ChainType, Buybacks, V14!NoBuyback
  <2>2. logs14 \in Seq(ComponentLog)
    BY <1>1
  <2>3. V14!NoComponent \in ComponentRows /\ V14!Funded(0, V14!NoBuyback) \in BuybackRows
    BY DEF V14!NoComponent, ComponentRows, V14!Funded, V14!NoBuyback, BuybackRows
  <2> QED
    BY <1>1, <2>1, <2>2, <2>3 DEF ComponentsType
<1>4. LogsPlaced
  BY <1>1 DEF LogsPlaced
<1>5. ASSUME NEW p \in V14!Pairs PROVE PairPending(p)
  <2>1. db14.components[p] = V14!NoComponent
    BY <1>1
  <2> QED
    BY <1>1, <1>2, <2>1 DEF PairPending, NothingOpen, V14!NoComponent
<1>6. ASSUME NEW t \in V14Tokens PROVE BuybackPending(t)
  <2>1. db14.states[t] = V14!Funded(0, V14!NoBuyback)
    BY <1>1
  <2> QED
    BY <1>1, <1>2, <2>1 DEF BuybackPending, NothingOpen, V14!Funded, V14!NoBuyback
<1> QED
  BY <1>1, <1>3, <1>4, <1>5, <1>6 DEF ComponentsInv

LEMMA NextComponents ==
  ASSUME ComponentsInv, V14!Next
  PROVE  ComponentsInv'
<1>1. CASE \E t \in V14Tokens : V14!Create(t)
  BY <1>1, CreateStep
<1>2. CASE \E p \in V14!Pairs : V14!CreatePair(p)
  BY <1>2, CreatePairStep
<1>3. CASE \E p \in V14!Pairs : V14!LinkPool(p)
  BY <1>3, LinkPoolStep
<1>4. CASE \E p \in V14!Pairs : V14!BurnTax(p)
  BY <1>4, BurnTaxStep
<1>5. CASE \E kind \in {"ComponentPairCreated", "ComponentPoolTaxBurned"}, p \in V14!Pairs :
             V14!Forge(kind, p)
  BY <1>5, ForgeStep
<1>6. CASE \E t \in V14Tokens, amount \in 1..2 : V14!CollectFee(t, amount)
  <2>1. PICK t \in V14Tokens, amount \in 1..2 : V14!CollectFee(t, amount)
    BY <1>6
  <2>2. amount \in Nat
    OBVIOUS
  <2> QED
    BY <2>1, <2>2, CollectFeeStep
<1>7. CASE \E t \in V14Tokens, amount \in 1..2 : V14!Execute(t, amount)
  BY <1>7, ExecuteStep
<1>8. CASE \E t \in V14Tokens : V14!Notify(t)
  BY <1>8, NotifyStep
<1>9. CASE \E t \in V14Tokens : V14!Claim(t)
  BY <1>9, ClaimStep
<1>10. CASE V14!Repeat
  BY <1>10, RepeatStep
<1>11. CASE V14!EndBlock
  BY <1>11, EndBlockComponents
<1> QED
  BY <1>1, <1>2, <1>3, <1>4, <1>5, <1>6, <1>7, <1>8, <1>9, <1>10, <1>11 DEF V14!Next

\* A step of the curves leaves the components alone.
LEMMA CurveStep ==
  ASSUME ComponentsInv, UNCHANGED vars14
  PROVE  ComponentsInv'
<1>1. /\ born' = born /\ paired' = paired /\ linked' = linked /\ taxed' = taxed /\ buyback' = buyback
      /\ logs14' = logs14 /\ addresses14' = addresses14 /\ components' = components
      /\ halted' = halted /\ db14' = db14
  BY DEF vars14
<1>2. ~ halted' /\ ComponentsType'
  BY <1>1 DEF ComponentsInv, ComponentsType, ChainType
<1>3. LogsPlaced'
  BY <1>1 DEF ComponentsInv, LogsPlaced, V14!Dynamic
<1>4. \A kind, x : OfPair(kind, x)' = OfPair(kind, x) /\ OfToken(kind, x)' = OfToken(kind, x)
  BY <1>1 DEF OfPair, OfToken, Counted
<1>5. \A n : PairKnown(n)' <=> PairKnown(n)
  BY <1>1 DEF PairKnown, Counted
<1>6. \A p \in V14!Pairs : PairPending(p)'
  BY <1>1, <1>4, <1>5
  DEF ComponentsInv, PairPending, OpenPair, OpenLink, OpenLate, OpenTax, TaxKnown, OpenToken, Amounts
<1>7. \A t \in V14Tokens : BuybackPending(t)'
  BY <1>1, <1>4
  DEF ComponentsInv, BuybackPending, OpenToken, OpenFees, OpenSpent, OpenBought, OpenNotified,
      OpenClaimed, Amounts
<1> QED
  BY <1>2, <1>3, <1>6, <1>7 DEF ComponentsInv

(***************************************************************************)
(* Between blocks the component, pool and buyback rows of V14 tokens are   *)
(* those of the contracts, and the expect on a taxed pair never panics:    *)
(* map_v14_component_events, map_v14_buyback_events and v14_core_db_out.   *)
(***************************************************************************)
THEOREM ComponentsAlwaysFollow == MarketSpec => []ComponentsFollow
<1>1. MarketInit => ComponentsInv
  BY InitComponents DEF MarketInit
<1>2. ComponentsInv /\ [MarketNext]_<<part, vars, vars14>> => ComponentsInv'
  <2> SUFFICES ASSUME ComponentsInv, [MarketNext]_<<part, vars, vars14>> PROVE ComponentsInv'
    OBVIOUS
  <2>1. V14!Next \/ UNCHANGED vars14
    BY DEF MarketNext
  <2> QED
    BY <2>1, NextComponents, CurveStep
<1>3. ComponentsInv => ComponentsFollow
  <2> SUFFICES ASSUME ComponentsInv, logs14 = <<>>
               PROVE  /\ db14.pools = {p \in V14!Pairs : linked[p] # "no"}
                      /\ \A p \in V14!Pairs : db14.components[p] =
                           [configured |-> p[1] \in born, pair |-> p \in paired,
                            pool |-> linked[p] = "late", tax |-> taxed[p]]
                      /\ \A t \in V14Tokens :
                           db14.states[t] = V14!Funded(buyback[t].fees - buyback[t].spent, buyback[t])
    BY DEF ComponentsInv, ComponentsFollow, V14!ComponentsFollow
  <2>1. ComponentsType /\ NothingOpen
    BY EmptyIsNothing DEF ComponentsInv
  <2>2. db14.pools = {p \in V14!Pairs : linked[p] # "no"}
    <3>1. \A p \in V14!Pairs : linked[p] # "no" <=> p \in db14.pools
      BY <2>1 DEF ComponentsInv, PairPending, NothingOpen
    <3>2. db14.pools \subseteq V14!Pairs
      BY <2>1 DEF ComponentsType
    <3> QED
      BY <3>1, <3>2
  <2>3. ASSUME NEW p \in V14!Pairs
        PROVE  db14.components[p] =
                 [configured |-> p[1] \in born, pair |-> p \in paired,
                  pool |-> linked[p] = "late", tax |-> taxed[p]]
    <3>1. PICK row \in ComponentRows : row = db14.components[p]
      BY <2>1 DEF ComponentsType
    <3>2. /\ p \in paired <=> row.pair
          /\ p[1] \in born <=> row.configured
          /\ linked[p] = "late" <=> row.pool
          /\ taxed[p] = row.tax + 0
      BY <2>1, <3>1 DEF ComponentsInv, PairPending, NothingOpen
    <3>3. row.tax \in Int
      BY DEF ComponentRows
    <3>4. row.configured \in BOOLEAN /\ row.pair \in BOOLEAN /\ row.pool \in BOOLEAN
      BY DEF ComponentRows
    <3>5. /\ row.configured = (p[1] \in born) /\ row.pair = (p \in paired)
          /\ row.pool = (linked[p] = "late") /\ row.tax = taxed[p]
      BY <3>2, <3>3, <3>4
    <3>6. row = [configured |-> row.configured, pair |-> row.pair, pool |-> row.pool, tax |-> row.tax]
      BY DEF ComponentRows
    <3> QED
      BY <3>1, <3>5, <3>6
  <2>4. ASSUME NEW t \in V14Tokens
        PROVE  db14.states[t] = V14!Funded(buyback[t].fees - buyback[t].spent, buyback[t])
    <3>1. PICK row \in BuybackRows : row = db14.states[t]
      BY <2>1 DEF ComponentsType
    <3>2. /\ row.native_reserve \in Int /\ row.fees \in Int /\ row.spent \in Int
          /\ row.bought \in Int /\ row.notified \in Int /\ row.claimed \in Int
      BY DEF BuybackRows
    <3>3. /\ buyback[t].fees = row.fees + 0 /\ buyback[t].spent = row.spent + 0
          /\ buyback[t].fees - buyback[t].spent = row.native_reserve + 0 - 0
          /\ buyback[t].bought = row.bought + 0 /\ buyback[t].notified = row.notified + 0
          /\ buyback[t].claimed = row.claimed + 0
      BY <2>1, <3>1 DEF ComponentsInv, BuybackPending, NothingOpen
    <3>4. row = [native_reserve |-> row.native_reserve, fees |-> row.fees, spent |-> row.spent,
                 bought |-> row.bought, notified |-> row.notified, claimed |-> row.claimed]
      BY DEF BuybackRows
    <3> QED
      BY <3>1, <3>2, <3>3, <3>4 DEF V14!Funded
  <2> QED
    BY <2>2, <2>3, <2>4
<1> QED
  BY <1>1, <1>2, <1>3, PTL DEF MarketSpec

=============================================================================

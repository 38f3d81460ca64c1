---------------------------- MODULE LedgerProofs ----------------------------
(***************************************************************************)
(* The two ledgers whose totals are sums of what accounts hold: IPShare's  *)
(* shares and stakes, and the NFTs and baskets staked in Nutbox mining.    *)
(*                                                                         *)
(* First the invariants of IPShareLedger for every finite set of accounts, *)
(* every amount and blocks of every length: the relation counts, then the  *)
(* supplies, the indexes and the joined accounts.  Then those of           *)
(* NutboxMining, for all finite sets of NFTs, batches, baskets and members *)
(* and blocks of every length: the NFT pool, then the parent pool and its  *)
(* children, then the community's count of both.                           *)
(***************************************************************************)
EXTENDS IPShareLedger, NutboxMining, FiniteFacts, SequenceTheorems

(***************************************************************************)
(* The four counts agree with two relations.  CountsMatch says it of the   *)
(* committed tables; the open block keeps it true of the counts that its   *)
(* deltas add up to and of the stores' present balances (PendingAgree).    *)
(***************************************************************************)
CountsAgree(counts, holds, stakings) ==
    \A a \in Accounts :
        /\ counts["holdings_count"][a] = Cardinality(HeldBy(holds, a))
        /\ counts["holders_count"][a] = Cardinality(HoldersOf(holds, a))
        /\ counts["staked_count"][a] = Cardinality(HeldBy(stakings, a))
        /\ counts["stakers_count"][a] = Cardinality(HoldersOf(stakings, a))

PendingCounts ==
    [c \in Counts |-> [a \in Accounts |-> db.counts[c][a] + changes[c][a]]]

PendingAgree == CountsAgree(PendingCounts, shares, staked)

\* A row differs from its store only if the open block has a delta for it.
RowsBehindStores ==
    \A k \in Pairs :
        /\ k \notin Touched({"ipshare", "ipshare_trade"}) => db.holders[k] = shares[k]
        /\ k \notin Touched({"stake"}) => db.stakers[k] = staked[k]

CountsInv ==
    /\ TypeOK
    /\ PendingAgree
    /\ RowsBehindStores
    /\ CountsMatch

-----------------------------------------------------------------------------
\* An account has finitely many relations.
LEMMA HeldByFinite ==
    ASSUME NEW balance, NEW a \in Accounts
    PROVE  /\ IsFiniteSet(HeldBy(balance, a))
           /\ IsFiniteSet(HoldersOf(balance, a))
           /\ Cardinality(HeldBy(balance, a)) \in Nat
           /\ Cardinality(HoldersOf(balance, a)) \in Nat
<1>1. HeldBy(balance, a) \subseteq Accounts /\ HoldersOf(balance, a) \subseteq Accounts
  BY DEF HeldBy, HoldersOf
<1>2. IsFiniteSet(HeldBy(balance, a)) /\ IsFiniteSet(HoldersOf(balance, a))
  BY <1>1, LedgerAssumption, FS_Subset
<1> QED
  BY <1>2, FS_CardinalityType

\* The balances differ at one pair only.
Assigned(old, new, h, s, n) ==
    \A t, u \in Accounts : new[<<t, u>>] = IF t = h /\ u = s THEN n ELSE old[<<t, u>>]

\* EXCEPT changes one balance.
LEMMA ExceptAssigns ==
    ASSUME NEW balance \in [Pairs -> Nat], NEW h \in Accounts, NEW s \in Accounts,
           NEW n \in Nat, NEW new, new = [balance EXCEPT ![<<h, s>>] = n]
    PROVE  Assigned(balance, new, h, s, n)
BY DEF Assigned, Pairs

(***************************************************************************)
(* One new balance changes the number of subjects its owner holds by what  *)
(* apply_relation_count_delta computes, and no other account's.            *)
(***************************************************************************)
LEMMA HeldByStep ==
    ASSUME NEW balance \in [Pairs -> Nat], NEW h \in Accounts, NEW s \in Accounts,
           NEW n \in Nat, NEW a \in Accounts,
           NEW new, Assigned(balance, new, h, s, n)
    PROVE  Cardinality(HeldBy(new, a))
             = Cardinality(HeldBy(balance, a))
               + (IF a = h THEN RelationChange(balance[<<h, s>>], n) ELSE 0)
<1> DEFINE old == HeldBy(balance, a)
           r == RelationChange(balance[<<h, s>>], n)
<1>1. balance[<<h, s>>] \in Nat
  BY DEF Pairs
<1>2. \A t \in Accounts : new[<<a, t>>] = IF a = h /\ t = s THEN n ELSE balance[<<a, t>>]
  BY DEF Assigned
<1>3. IsFiniteSet(old) /\ Cardinality(old) \in Nat
  BY HeldByFinite
<1>7. /\ n > 0 => r = IF balance[<<h, s>>] > 0 THEN 0 ELSE 1
      /\ n = 0 => r = IF balance[<<h, s>>] > 0 THEN -1 ELSE 0
  BY <1>1 DEF RelationChange
<1> HIDE DEF r
<1>4. ASSUME a # h PROVE Cardinality(HeldBy(new, a)) = Cardinality(old)
  <2>1. HeldBy(new, a) = old
    BY <1>2, <1>4 DEF HeldBy
  <2> QED
    BY <1>3, <1>4, <2>1
<1>5. ASSUME a = h, n > 0 PROVE Cardinality(HeldBy(new, a)) = Cardinality(old) + r
  <2>1. HeldBy(new, a) = old \cup {s}
    BY <1>2, <1>5 DEF HeldBy
  <2>2. s \in old <=> balance[<<h, s>>] > 0
    BY <1>5 DEF HeldBy
  <2>3. Cardinality(old \cup {s}) = IF s \in old THEN Cardinality(old) ELSE Cardinality(old) + 1
    BY <1>3, FS_AddElement
  <2> HIDE DEF old
  <2> QED
    BY <1>1, <1>3, <1>5, <1>7, <2>1, <2>2, <2>3
<1>6. ASSUME a = h, n = 0 PROVE Cardinality(HeldBy(new, a)) = Cardinality(old) + r
  <2>1. HeldBy(new, a) = old \ {s}
    BY <1>2, <1>6 DEF HeldBy
  <2>2. s \in old <=> balance[<<h, s>>] > 0
    BY <1>6 DEF HeldBy
  <2>3. Cardinality(old \ {s}) = IF s \in old THEN Cardinality(old) - 1 ELSE Cardinality(old)
    BY <1>3, FS_RemoveElement
  <2> HIDE DEF old
  <2> QED
    BY <1>1, <1>3, <1>6, <1>7, <2>1, <2>2, <2>3
<1>8. Cardinality(HeldBy(new, a)) = Cardinality(old) + (IF a = h THEN r ELSE 0)
  BY <1>3, <1>4, <1>5, <1>6
<1> QED
  BY <1>8 DEF r

\* The same for the subject's side of the relation.
LEMMA HoldersOfStep ==
    ASSUME NEW balance \in [Pairs -> Nat], NEW h \in Accounts, NEW s \in Accounts,
           NEW n \in Nat, NEW a \in Accounts,
           NEW new, Assigned(balance, new, h, s, n)
    PROVE  Cardinality(HoldersOf(new, a))
             = Cardinality(HoldersOf(balance, a))
               + (IF a = s THEN RelationChange(balance[<<h, s>>], n) ELSE 0)
<1> DEFINE old == HoldersOf(balance, a)
           r == RelationChange(balance[<<h, s>>], n)
<1>1. balance[<<h, s>>] \in Nat
  BY DEF Pairs
<1>2. \A t \in Accounts : new[<<t, a>>] = IF t = h /\ a = s THEN n ELSE balance[<<t, a>>]
  BY DEF Assigned
<1>3. IsFiniteSet(old) /\ Cardinality(old) \in Nat
  BY HeldByFinite
<1>7. /\ n > 0 => r = IF balance[<<h, s>>] > 0 THEN 0 ELSE 1
      /\ n = 0 => r = IF balance[<<h, s>>] > 0 THEN -1 ELSE 0
  BY <1>1 DEF RelationChange
<1> HIDE DEF r
<1>4. ASSUME a # s PROVE Cardinality(HoldersOf(new, a)) = Cardinality(old)
  <2>1. HoldersOf(new, a) = old
    BY <1>2, <1>4 DEF HoldersOf
  <2> QED
    BY <1>3, <1>4, <2>1
<1>5. ASSUME a = s, n > 0 PROVE Cardinality(HoldersOf(new, a)) = Cardinality(old) + r
  <2>1. HoldersOf(new, a) = old \cup {h}
    BY <1>2, <1>5 DEF HoldersOf
  <2>2. h \in old <=> balance[<<h, s>>] > 0
    BY <1>5 DEF HoldersOf
  <2>3. Cardinality(old \cup {h}) = IF h \in old THEN Cardinality(old) ELSE Cardinality(old) + 1
    BY <1>3, FS_AddElement
  <2> HIDE DEF old
  <2> QED
    BY <1>1, <1>3, <1>5, <1>7, <2>1, <2>2, <2>3
<1>6. ASSUME a = s, n = 0 PROVE Cardinality(HoldersOf(new, a)) = Cardinality(old) + r
  <2>1. HoldersOf(new, a) = old \ {h}
    BY <1>2, <1>6 DEF HoldersOf
  <2>2. h \in old <=> balance[<<h, s>>] > 0
    BY <1>6 DEF HoldersOf
  <2>3. Cardinality(old \ {h}) = IF h \in old THEN Cardinality(old) - 1 ELSE Cardinality(old)
    BY <1>3, FS_RemoveElement
  <2> HIDE DEF old
  <2> QED
    BY <1>1, <1>3, <1>6, <1>7, <2>1, <2>2, <2>3
<1>8. Cardinality(HoldersOf(new, a)) = Cardinality(old) + (IF a = s THEN r ELSE 0)
  BY <1>3, <1>4, <1>5, <1>6
<1> QED
  BY <1>8 DEF r

-----------------------------------------------------------------------------
\* CountDelta adds the change at one owner and at one subject, and nowhere else.
\* The pending counts become those of CountDelta.
DeltaCounted(f, g, h, s, old, n) == changes' = CountDelta(f, g, <<h, s>>, old, n)

\* What one delta adds to the count that it belongs to.
LEMMA CountDeltaValue ==
    ASSUME NEW f \in Counts, NEW g \in Counts, f # g, TypeOK,
           NEW h \in Accounts, NEW s \in Accounts, NEW old \in Nat, NEW n \in Nat,
           DeltaCounted(f, g, h, s, old, n)
    PROVE  /\ changes' \in [Counts -> [Accounts -> Int]]
           /\ \A a \in Accounts :
                /\ changes'[f][a] = changes[f][a] + (IF a = h THEN RelationChange(old, n) ELSE 0)
                /\ changes'[g][a] = changes[g][a] + (IF a = s THEN RelationChange(old, n) ELSE 0)
           /\ \A c \in Counts \ {f, g} : changes'[c] = changes[c]
<1>1. RelationChange(old, n) \in Int
  BY DEF RelationChange
<1>2. changes \in [Counts -> [Accounts -> Int]]
  BY DEF TypeOK
<1> DEFINE r == RelationChange(old, n)
<1> HIDE DEF r
<1>3. changes' = [[changes EXCEPT ![f] = [changes[f] EXCEPT ![h] = changes[f][h] + r]]
                EXCEPT ![g] = [changes[g] EXCEPT ![s] = changes[g][s] + r]]
  BY <1>2 DEF DeltaCounted, CountDelta, r
<1>4. r \in Int
  BY <1>1 DEF r
<1>5. /\ changes'[f] = [changes[f] EXCEPT ![h] = changes[f][h] + r]
      /\ changes'[g] = [changes[g] EXCEPT ![s] = changes[g][s] + r]
      /\ \A c \in Counts \ {f, g} : changes'[c] = changes[c]
  BY <1>2, <1>3
<1>6. /\ changes'[f] \in [Accounts -> Int]
      /\ changes'[g] \in [Accounts -> Int]
  BY <1>2, <1>4, <1>5
<1>7. changes' \in [Counts -> [Accounts -> Int]]
  BY <1>2, <1>3, <1>5, <1>6
<1>8. \A a \in Accounts :
        /\ changes'[f][a] = changes[f][a] + (IF a = h THEN r ELSE 0)
        /\ changes'[g][a] = changes[g][a] + (IF a = s THEN r ELSE 0)
  BY <1>2, <1>4, <1>5
<1> QED
  BY <1>5, <1>7, <1>8 DEF r

\* What a change of shares adds to the counts.
LEMMA SharesDelta ==
    ASSUME TypeOK, NEW h \in Accounts, NEW s \in Accounts, NEW n \in Nat,
           SetShares(<<h, s>>, n)
    PROVE  /\ changes' \in [Counts -> [Accounts -> Int]]
           /\ \A a \in Accounts :
                /\ changes'["holdings_count"][a]
                     = changes["holdings_count"][a] + (IF a = h THEN RelationChange(shares[<<h, s>>], n) ELSE 0)
                /\ changes'["holders_count"][a]
                     = changes["holders_count"][a] + (IF a = s THEN RelationChange(shares[<<h, s>>], n) ELSE 0)
           /\ \A c \in Counts \ {"holdings_count", "holders_count"} : changes'[c] = changes[c]
<1> DEFINE f == "holdings_count"
           g == "holders_count"
           old == shares[<<h, s>>]
<1>1. f \in Counts /\ g \in Counts /\ f # g
  BY DEF Counts
<1>2. old \in Nat
  BY DEF TypeOK, Pairs
<1>3. DeltaCounted(f, g, h, s, old, n)
  BY DEF SetShares, DeltaCounted
<1> HIDE DEF f, g, old
<1>4. /\ changes' \in [Counts -> [Accounts -> Int]]
      /\ \A a \in Accounts :
           /\ changes'[f][a] = changes[f][a] + (IF a = h THEN RelationChange(old, n) ELSE 0)
           /\ changes'[g][a] = changes[g][a] + (IF a = s THEN RelationChange(old, n) ELSE 0)
      /\ \A c \in Counts \ {f, g} : changes'[c] = changes[c]
  BY <1>1, <1>2, <1>3, CountDeltaValue
<1> QED
  BY <1>4 DEF f, g, old

\* What a change of a stake adds to the counts.
LEMMA StakedDelta ==
    ASSUME TypeOK, NEW h \in Accounts, NEW s \in Accounts, NEW n \in Nat,
           SetStaked(<<h, s>>, n)
    PROVE  /\ changes' \in [Counts -> [Accounts -> Int]]
           /\ \A a \in Accounts :
                /\ changes'["staked_count"][a]
                     = changes["staked_count"][a] + (IF a = h THEN RelationChange(staked[<<h, s>>], n) ELSE 0)
                /\ changes'["stakers_count"][a]
                     = changes["stakers_count"][a] + (IF a = s THEN RelationChange(staked[<<h, s>>], n) ELSE 0)
           /\ \A c \in Counts \ {"staked_count", "stakers_count"} : changes'[c] = changes[c]
<1> DEFINE f == "staked_count"
           g == "stakers_count"
           old == staked[<<h, s>>]
<1>1. f \in Counts /\ g \in Counts /\ f # g
  BY DEF Counts
<1>2. old \in Nat
  BY DEF TypeOK, Pairs
<1>3. DeltaCounted(f, g, h, s, old, n)
  BY DEF SetStaked, DeltaCounted
<1> HIDE DEF f, g, old
<1>4. /\ changes' \in [Counts -> [Accounts -> Int]]
      /\ \A a \in Accounts :
           /\ changes'[f][a] = changes[f][a] + (IF a = h THEN RelationChange(old, n) ELSE 0)
           /\ changes'[g][a] = changes[g][a] + (IF a = s THEN RelationChange(old, n) ELSE 0)
      /\ \A c \in Counts \ {f, g} : changes'[c] = changes[c]
  BY <1>1, <1>2, <1>3, CountDeltaValue
<1> QED
  BY <1>4 DEF f, g, old

\* The event that Emit appends, and what it leaves alone.
Emitted(h, s, is_buy, value) ==
    [account |-> h, subject |-> s, is_buy |-> is_buy, value |-> value]

\* An event goes to the end of those of its kind and advances its counter.
LEMMA EmitAppends ==
    ASSUME TypeOK, NEW kind \in Kinds, NEW h \in Accounts, NEW s \in Accounts,
           NEW is_buy \in BOOLEAN, NEW value \in Nat, Emit(kind, h, s, is_buy, value)
    PROVE  /\ events' \in [Kinds -> Seq(Event)]
           /\ events'[kind] = Append(events[kind], Emitted(h, s, is_buy, value))
           /\ \A k \in Kinds : k # kind => events'[k] = events[k]
           /\ counter' \in [Kinds -> Nat]
           /\ counter'[kind] = counter[kind] + 1
           /\ \A k \in Kinds : k # kind => counter'[k] = counter[k]
           /\ block' = block /\ db' = db
<1>1. /\ events \in [Kinds -> Seq(Event)] /\ counter \in [Kinds -> Nat]
      /\ events[kind] \in Seq(Event)
  BY DEF TypeOK
<1> DEFINE e == Emitted(h, s, is_buy, value)
<1>2. e \in Event
  BY DEF Emitted, Event
<1>3. /\ events' = [events EXCEPT ![kind] = Append(events[kind], e)]
      /\ counter' = [counter EXCEPT ![kind] = counter[kind] + 1]
      /\ block' = block /\ db' = db
  BY <1>1 DEF Emit, Emitted
<1> HIDE DEF e
<1>4. Append(events[kind], e) \in Seq(Event)
  BY <1>1, <1>2
<1>5. counter[kind] + 1 \in Nat
  BY <1>1
<1>6. /\ events' \in [Kinds -> Seq(Event)]
      /\ events'[kind] = Append(events[kind], e)
      /\ \A k \in Kinds : k # kind => events'[k] = events[k]
  BY <1>1, <1>3, <1>4
<1>7. /\ counter' \in [Kinds -> Nat]
      /\ counter'[kind] = counter[kind] + 1
      /\ \A k \in Kinds : k # kind => counter'[k] = counter[k]
  BY <1>1, <1>3, <1>5
<1> QED
  BY <1>3, <1>6, <1>7 DEF e

\* The events of a kind after one more.
LEMMA RangeOfAppend ==
    ASSUME NEW list \in Seq(Event), NEW e
    PROVE  Range(Append(list, e)) = Range(list) \cup {e}
<1>1. /\ DOMAIN list = 1..Len(list) /\ DOMAIN Append(list, e) = 1..(Len(list) + 1)
      /\ \A i \in 1..Len(list) : Append(list, e)[i] = list[i]
      /\ Append(list, e)[Len(list) + 1] = e
      /\ Len(list) \in Nat
  OBVIOUS
<1>2. 1..(Len(list) + 1) = (1..Len(list)) \cup {Len(list) + 1}
  BY <1>1
<1> QED
  BY <1>1, <1>2 DEF Range

\* An event appended to the block touches its own pair and keeps the others'.
LEMMA EmitTouches ==
    ASSUME TypeOK, NEW kind \in Kinds, NEW h \in Accounts, NEW s \in Accounts,
           NEW is_buy \in BOOLEAN, NEW value \in Nat, Emit(kind, h, s, is_buy, value)
    PROVE  /\ \A k \in Kinds : Range(events[k]) \subseteq Range(events'[k])
           /\ Emitted(h, s, is_buy, value) \in Range(events'[kind])
           /\ Touched({"ipshare", "ipshare_trade"}) \subseteq Touched({"ipshare", "ipshare_trade"})'
           /\ Touched({"stake"}) \subseteq Touched({"stake"})'
           /\ kind \in {"ipshare", "ipshare_trade"} =>
                <<h, s>> \in Touched({"ipshare", "ipshare_trade"})'
           /\ kind \in {"stake"} => <<h, s>> \in Touched({"stake"})'
<1> DEFINE e == Emitted(h, s, is_buy, value)
<1>1. /\ events'[kind] = Append(events[kind], e) /\ events[kind] \in Seq(Event)
      /\ \A k \in Kinds : k # kind => events'[k] = events[k]
  BY EmitAppends DEF TypeOK
<1>2. e.account = h /\ e.subject = s
  BY DEF Emitted
<1> HIDE DEF e
<1>3. Range(events'[kind]) = Range(events[kind]) \cup {e}
  BY <1>1, RangeOfAppend
<1>4. \A k \in Kinds : Range(events[k]) \subseteq Range(events'[k])
  BY <1>1, <1>3
<1>5. {"ipshare", "ipshare_trade"} \subseteq Kinds /\ {"stake"} \subseteq Kinds
  BY DEF Kinds
<1>6. ASSUME NEW kinds, kinds \subseteq Kinds
      PROVE  /\ Touched(kinds) \subseteq Touched(kinds)'
             /\ kind \in kinds => <<h, s>> \in Touched(kinds)'
  BY <1>2, <1>3, <1>4, <1>6 DEF Touched
<1>7. /\ Touched({"ipshare", "ipshare_trade"}) \subseteq Touched({"ipshare", "ipshare_trade"})'
      /\ kind \in {"ipshare", "ipshare_trade"} =>
           <<h, s>> \in Touched({"ipshare", "ipshare_trade"})'
  BY <1>5, <1>6
<1>8. /\ Touched({"stake"}) \subseteq Touched({"stake"})'
      /\ kind \in {"stake"} => <<h, s>> \in Touched({"stake"})'
  BY <1>5, <1>6
<1> QED
  BY <1>3, <1>4, <1>7, <1>8 DEF e

-----------------------------------------------------------------------------
\* An event that changes a share balance and emits a log of its pair.
LEMMA SharesStep ==
    ASSUME CountsInv, NEW h \in Accounts, NEW s \in Accounts, NEW n \in Nat,
           NEW kind \in {"ipshare", "ipshare_trade"}, NEW is_buy \in BOOLEAN, NEW value \in Nat,
           supply' \in [Accounts -> Nat],
           SetShares(<<h, s>>, n), Emit(kind, h, s, is_buy, value),
           UNCHANGED <<total, staked>>
    PROVE  CountsInv'
<1>1. /\ shares' = [shares EXCEPT ![<<h, s>>] = n]
      /\ changes' = CountDelta("holdings_count", "holders_count", <<h, s>>, shares[<<h, s>>], n)
      /\ db' = db /\ staked' = staked /\ total' = total
  BY DEF SetShares, Emit
<1>2. <<h, s>> \in Pairs /\ shares[<<h, s>>] \in Nat
  BY DEF CountsInv, TypeOK, Pairs
<1>3. /\ "holdings_count" \in Counts /\ "holders_count" \in Counts
      /\ "staked_count" \in Counts \ {"holdings_count", "holders_count"}
      /\ "stakers_count" \in Counts \ {"holdings_count", "holders_count"}
  BY DEF Counts
<1>4. /\ changes' \in [Counts -> [Accounts -> Int]]
      /\ \A a \in Accounts :
           /\ changes'["holdings_count"][a]
                = changes["holdings_count"][a]
                  + (IF a = h THEN RelationChange(shares[<<h, s>>], n) ELSE 0)
           /\ changes'["holders_count"][a]
                = changes["holders_count"][a]
                  + (IF a = s THEN RelationChange(shares[<<h, s>>], n) ELSE 0)
           /\ changes'["staked_count"][a] = changes["staked_count"][a]
           /\ changes'["stakers_count"][a] = changes["stakers_count"][a]
  <2>1. TypeOK
    BY DEF CountsInv
  <2> QED
    BY <1>3, <2>1, SharesDelta
<1>5. /\ events' \in [Kinds -> Seq(Event)] /\ counter' \in [Kinds -> Nat] /\ block' = block
      /\ <<h, s>> \in Touched({"ipshare", "ipshare_trade"})'
      /\ Touched({"ipshare", "ipshare_trade"}) \subseteq Touched({"ipshare", "ipshare_trade"})'
      /\ Touched({"stake"}) \subseteq Touched({"stake"})'
  <2>1. kind \in Kinds
    BY DEF Kinds
  <2>2. TypeOK
    BY DEF CountsInv
  <2> QED
    BY <2>1, <2>2, EmitTouches, EmitAppends
<1>6. TypeOK'
  BY <1>1, <1>4, <1>5 DEF CountsInv, TypeOK
<1>7. PendingAgree'
  <2> SUFFICES ASSUME NEW a \in Accounts
               PROVE  /\ PendingCounts'["holdings_count"][a] = Cardinality(HeldBy(shares', a))
                      /\ PendingCounts'["holders_count"][a] = Cardinality(HoldersOf(shares', a))
                      /\ PendingCounts'["staked_count"][a] = Cardinality(HeldBy(staked', a))
                      /\ PendingCounts'["stakers_count"][a] = Cardinality(HoldersOf(staked', a))
    BY DEF PendingAgree, CountsAgree
  <2>1. \A c \in Counts : /\ PendingCounts[c][a] = db.counts[c][a] + changes[c][a]
                         /\ PendingCounts'[c][a] = db.counts[c][a] + changes'[c][a]
                         /\ db.counts[c][a] \in Int /\ changes[c][a] \in Int
    BY <1>1 DEF PendingCounts, CountsInv, TypeOK
  <2>2. /\ PendingCounts["holdings_count"][a] = Cardinality(HeldBy(shares, a))
        /\ PendingCounts["holders_count"][a] = Cardinality(HoldersOf(shares, a))
        /\ PendingCounts["staked_count"][a] = Cardinality(HeldBy(staked, a))
        /\ PendingCounts["stakers_count"][a] = Cardinality(HoldersOf(staked, a))
    BY DEF CountsInv, PendingAgree, CountsAgree
  <2>3. RelationChange(shares[<<h, s>>], n) \in Int
    BY <1>2 DEF RelationChange
  <2>4. /\ Cardinality(HeldBy(shares', a))
             = Cardinality(HeldBy(shares, a))
               + (IF a = h THEN RelationChange(shares[<<h, s>>], n) ELSE 0)
        /\ Cardinality(HoldersOf(shares', a))
             = Cardinality(HoldersOf(shares, a))
               + (IF a = s THEN RelationChange(shares[<<h, s>>], n) ELSE 0)
    <3>1. shares \in [Pairs -> Nat]
      BY DEF CountsInv, TypeOK
    <3>2. Assigned(shares, shares', h, s, n)
      BY <1>1, <3>1, ExceptAssigns
    <3> QED
      BY <3>1, <3>2, HeldByStep, HoldersOfStep
  <2>5. PendingCounts'["holdings_count"][a] = Cardinality(HeldBy(shares', a))
    <3>1. /\ PendingCounts["holdings_count"][a] = db.counts["holdings_count"][a] + changes["holdings_count"][a]
          /\ PendingCounts'["holdings_count"][a] = db.counts["holdings_count"][a] + changes'["holdings_count"][a]
          /\ db.counts["holdings_count"][a] \in Int /\ changes["holdings_count"][a] \in Int
      BY <1>3, <2>1
    <3> QED
      BY <1>4, <2>2, <2>3, <2>4, <3>1
  <2>6. PendingCounts'["holders_count"][a] = Cardinality(HoldersOf(shares', a))
    <3>1. /\ PendingCounts["holders_count"][a] = db.counts["holders_count"][a] + changes["holders_count"][a]
          /\ PendingCounts'["holders_count"][a] = db.counts["holders_count"][a] + changes'["holders_count"][a]
          /\ db.counts["holders_count"][a] \in Int /\ changes["holders_count"][a] \in Int
      BY <1>3, <2>1
    <3> QED
      BY <1>4, <2>2, <2>3, <2>4, <3>1
  <2>7. /\ PendingCounts'["staked_count"][a] = Cardinality(HeldBy(staked', a))
        /\ PendingCounts'["stakers_count"][a] = Cardinality(HoldersOf(staked', a))
    <3>1. \A c \in {"staked_count", "stakers_count"} : PendingCounts'[c][a] = PendingCounts[c][a]
      BY <1>3, <1>4, <2>1
    <3>2. staked' = staked
      BY <1>1
    <3> QED
      BY <2>2, <3>1, <3>2
  <2> QED
    BY <2>5, <2>6, <2>7
<1>8. RowsBehindStores'
  BY <1>1, <1>2, <1>5 DEF CountsInv, TypeOK, RowsBehindStores
<1>9. CountsMatch'
  BY <1>1 DEF CountsInv, CountsMatch
<1> QED
  BY <1>6, <1>7, <1>8, <1>9 DEF CountsInv

\* An event that changes a stake and emits a log of its pair.
LEMMA StakedStep ==
    ASSUME CountsInv, NEW h \in Accounts, NEW s \in Accounts, NEW n \in Nat,
           NEW is_buy \in BOOLEAN, NEW value \in Nat,
           SetStaked(<<h, s>>, n), Emit("stake", h, s, is_buy, value),
           total' \in [Accounts -> Nat], UNCHANGED <<supply, shares>>
    PROVE  CountsInv'
<1>1. /\ staked' = [staked EXCEPT ![<<h, s>>] = n]
      /\ changes' = CountDelta("staked_count", "stakers_count", <<h, s>>, staked[<<h, s>>], n)
      /\ db' = db /\ shares' = shares /\ supply' = supply
  BY DEF SetStaked, Emit
<1>2. <<h, s>> \in Pairs /\ staked[<<h, s>>] \in Nat
  BY DEF CountsInv, TypeOK, Pairs
<1>3. /\ "staked_count" \in Counts /\ "stakers_count" \in Counts
      /\ "holdings_count" \in Counts \ {"staked_count", "stakers_count"}
      /\ "holders_count" \in Counts \ {"staked_count", "stakers_count"}
  BY DEF Counts
<1>4. /\ changes' \in [Counts -> [Accounts -> Int]]
      /\ \A a \in Accounts :
           /\ changes'["staked_count"][a]
                = changes["staked_count"][a]
                  + (IF a = h THEN RelationChange(staked[<<h, s>>], n) ELSE 0)
           /\ changes'["stakers_count"][a]
                = changes["stakers_count"][a]
                  + (IF a = s THEN RelationChange(staked[<<h, s>>], n) ELSE 0)
           /\ changes'["holdings_count"][a] = changes["holdings_count"][a]
           /\ changes'["holders_count"][a] = changes["holders_count"][a]
  <2>1. TypeOK
    BY DEF CountsInv
  <2> QED
    BY <1>3, <2>1, StakedDelta
<1>5. /\ events' \in [Kinds -> Seq(Event)] /\ counter' \in [Kinds -> Nat] /\ block' = block
      /\ <<h, s>> \in Touched({"stake"})'
      /\ Touched({"ipshare", "ipshare_trade"}) \subseteq Touched({"ipshare", "ipshare_trade"})'
      /\ Touched({"stake"}) \subseteq Touched({"stake"})'
  <2>1. "stake" \in Kinds
    BY DEF Kinds
  <2>2. TypeOK
    BY DEF CountsInv
  <2> QED
    BY <2>1, <2>2, EmitTouches, EmitAppends
<1>6. TypeOK'
  BY <1>1, <1>4, <1>5 DEF CountsInv, TypeOK
<1>7. PendingAgree'
  <2> SUFFICES ASSUME NEW a \in Accounts
               PROVE  /\ PendingCounts'["holdings_count"][a] = Cardinality(HeldBy(shares', a))
                      /\ PendingCounts'["holders_count"][a] = Cardinality(HoldersOf(shares', a))
                      /\ PendingCounts'["staked_count"][a] = Cardinality(HeldBy(staked', a))
                      /\ PendingCounts'["stakers_count"][a] = Cardinality(HoldersOf(staked', a))
    BY DEF PendingAgree, CountsAgree
  <2>1. \A c \in Counts : /\ PendingCounts[c][a] = db.counts[c][a] + changes[c][a]
                         /\ PendingCounts'[c][a] = db.counts[c][a] + changes'[c][a]
                         /\ db.counts[c][a] \in Int /\ changes[c][a] \in Int
    BY <1>1 DEF PendingCounts, CountsInv, TypeOK
  <2>2. /\ PendingCounts["holdings_count"][a] = Cardinality(HeldBy(shares, a))
        /\ PendingCounts["holders_count"][a] = Cardinality(HoldersOf(shares, a))
        /\ PendingCounts["staked_count"][a] = Cardinality(HeldBy(staked, a))
        /\ PendingCounts["stakers_count"][a] = Cardinality(HoldersOf(staked, a))
    BY DEF CountsInv, PendingAgree, CountsAgree
  <2>3. RelationChange(staked[<<h, s>>], n) \in Int
    BY <1>2 DEF RelationChange
  <2>4. /\ Cardinality(HeldBy(staked', a))
             = Cardinality(HeldBy(staked, a))
               + (IF a = h THEN RelationChange(staked[<<h, s>>], n) ELSE 0)
        /\ Cardinality(HoldersOf(staked', a))
             = Cardinality(HoldersOf(staked, a))
               + (IF a = s THEN RelationChange(staked[<<h, s>>], n) ELSE 0)
    <3>1. staked \in [Pairs -> Nat]
      BY DEF CountsInv, TypeOK
    <3>2. Assigned(staked, staked', h, s, n)
      BY <1>1, <3>1, ExceptAssigns
    <3> QED
      BY <3>1, <3>2, HeldByStep, HoldersOfStep
  <2>5. PendingCounts'["staked_count"][a] = Cardinality(HeldBy(staked', a))
    <3>1. /\ PendingCounts["staked_count"][a] = db.counts["staked_count"][a] + changes["staked_count"][a]
          /\ PendingCounts'["staked_count"][a] = db.counts["staked_count"][a] + changes'["staked_count"][a]
          /\ db.counts["staked_count"][a] \in Int /\ changes["staked_count"][a] \in Int
      BY <1>3, <2>1
    <3> QED
      BY <1>4, <2>2, <2>3, <2>4, <3>1
  <2>6. PendingCounts'["stakers_count"][a] = Cardinality(HoldersOf(staked', a))
    <3>1. /\ PendingCounts["stakers_count"][a] = db.counts["stakers_count"][a] + changes["stakers_count"][a]
          /\ PendingCounts'["stakers_count"][a] = db.counts["stakers_count"][a] + changes'["stakers_count"][a]
          /\ db.counts["stakers_count"][a] \in Int /\ changes["stakers_count"][a] \in Int
      BY <1>3, <2>1
    <3> QED
      BY <1>4, <2>2, <2>3, <2>4, <3>1
  <2>7. /\ PendingCounts'["holdings_count"][a] = Cardinality(HeldBy(shares', a))
        /\ PendingCounts'["holders_count"][a] = Cardinality(HoldersOf(shares', a))
    <3>1. \A c \in {"holdings_count", "holders_count"} : PendingCounts'[c][a] = PendingCounts[c][a]
      BY <1>3, <1>4, <2>1
    <3>2. shares' = shares
      BY <1>1
    <3> QED
      BY <2>2, <3>1, <3>2
  <2> QED
    BY <2>5, <2>6, <2>7
<1>8. RowsBehindStores'
  BY <1>1, <1>2, <1>5 DEF CountsInv, TypeOK, RowsBehindStores
<1>9. CountsMatch'
  BY <1>1 DEF CountsInv, CountsMatch
<1> QED
  BY <1>6, <1>7, <1>8, <1>9 DEF CountsInv

-----------------------------------------------------------------------------
\* The counts agree at first.
LEMMA InitCountsInv == Init => CountsInv
<1> SUFFICES ASSUME Init PROVE CountsInv
  OBVIOUS
<1>1. /\ shares = [k \in Pairs |-> 0] /\ staked = [k \in Pairs |-> 0]
      /\ db.holders = [k \in Pairs |-> 0] /\ db.stakers = [k \in Pairs |-> 0]
      /\ db.counts = NoCounts /\ changes = NoCounts
      /\ supply = [a \in Accounts |-> 0] /\ total = [a \in Accounts |-> 0]
      /\ events = NoEvents /\ counter = [k \in Kinds |-> 0] /\ block = 1
  BY DEF Init
<1>2. TypeOK
  <2>1. NoCounts \in [Counts -> [Accounts -> Int]] /\ NoEvents \in [Kinds -> Seq(Event)]
    BY DEF NoCounts, NoEvents
  <2> QED
    BY <1>1, <2>1 DEF TypeOK
<1>3. \A c \in Counts, a \in Accounts : db.counts[c][a] = 0 /\ PendingCounts[c][a] = 0
  BY <1>1 DEF NoCounts, PendingCounts
<1>4. ASSUME NEW a \in Accounts, NEW balance, balance = [k \in Pairs |-> 0]
      PROVE  Cardinality(HeldBy(balance, a)) = 0 /\ Cardinality(HoldersOf(balance, a)) = 0
  <2>1. HeldBy(balance, a) = {} /\ HoldersOf(balance, a) = {}
    BY <1>4 DEF HeldBy, HoldersOf, Pairs
  <2> QED
    BY <2>1, FS_EmptySet
<1>5. PendingAgree
  BY <1>1, <1>3, <1>4 DEF PendingAgree, CountsAgree, Counts
<1>6. CountsMatch
  BY <1>1, <1>3, <1>4 DEF CountsMatch, Counts
<1>7. RowsBehindStores
  BY <1>1 DEF RowsBehindStores
<1> QED
  BY <1>2, <1>5, <1>6, <1>7 DEF CountsInv

\* The rows of the open block's deltas make the tables equal to the stores.
LEMMA RowsCatchUp ==
    ASSUME TypeOK, RowsBehindStores
    PROVE  /\ RelationRows(db.holders, shares, {"ipshare", "ipshare_trade"}) = shares
           /\ RelationRows(db.stakers, staked, {"stake"}) = staked
<1> DEFINE h == RelationRows(db.holders, shares, {"ipshare", "ipshare_trade"})
           t == RelationRows(db.stakers, staked, {"stake"})
<1>1. \A k \in Pairs : h[k] = shares[k] /\ t[k] = staked[k]
  BY DEF RowsBehindStores, RelationRows
<1>2. h = [k \in Pairs |-> h[k]] /\ t = [k \in Pairs |-> t[k]]
  BY DEF RelationRows
<1>3. shares = [k \in Pairs |-> shares[k]] /\ staked = [k \in Pairs |-> staked[k]]
  BY DEF TypeOK
<1> QED
  BY <1>1, <1>2, <1>3

\* The commit moves the counts and the rows together: what agreed for the
\* stores now agrees for the tables.
LEMMA EndBlockStep ==
    ASSUME CountsInv, EndBlock
    PROVE  CountsInv'
<1>1. /\ shares' = shares /\ staked' = staked /\ supply' = supply /\ total' = total
      /\ events' = NoEvents /\ changes' = NoCounts /\ counter' = counter /\ block' = block + 1
      /\ db'.counts = PendingCounts
      /\ db'.holders = RelationRows(db.holders, shares, {"ipshare", "ipshare_trade"})
      /\ db'.stakers = RelationRows(db.stakers, staked, {"stake"})
  BY DEF EndBlock, PendingCounts
<1>2. db'.holders = shares /\ db'.stakers = staked
  BY <1>1, RowsCatchUp DEF CountsInv
<1>3. PendingCounts \in [Counts -> [Accounts -> Int]]
  BY DEF PendingCounts, CountsInv, TypeOK
<1>4. TypeOK'
  <2>1. NoCounts \in [Counts -> [Accounts -> Int]] /\ NoEvents \in [Kinds -> Seq(Event)]
    BY DEF NoCounts, NoEvents
  <2> QED
    BY <1>1, <1>2, <1>3, <2>1 DEF CountsInv, TypeOK
<1>5. CountsMatch'
  BY <1>1, <1>2 DEF CountsInv, PendingAgree, CountsAgree, CountsMatch
<1>6. PendingAgree'
  <2>1. \A c \in Counts, a \in Accounts : PendingCounts'[c][a] = PendingCounts[c][a]
    BY <1>1, <1>3 DEF PendingCounts, NoCounts
  <2>2. CountsAgree(PendingCounts, shares, staked)
    BY DEF CountsInv, PendingAgree
  <2>3. \A c \in {"holdings_count", "holders_count", "staked_count", "stakers_count"} : c \in Counts
    BY DEF Counts
  <2>4. CountsAgree(PendingCounts', shares', staked')
    BY <1>1, <2>1, <2>2, <2>3 DEF CountsAgree
  <2> QED
    BY <2>4 DEF PendingAgree
<1>7. RowsBehindStores'
  BY <1>1, <1>2 DEF RowsBehindStores
<1> QED
  BY <1>4, <1>5, <1>6, <1>7 DEF CountsInv

\* A step that changes nothing keeps the counts.
LEMMA StutterStep ==
    ASSUME CountsInv, UNCHANGED vars
    PROVE  CountsInv'
<1>1. /\ created' = created /\ supply' = supply /\ total' = total /\ shares' = shares
      /\ staked' = staked /\ counter' = counter /\ events' = events /\ changes' = changes
      /\ block' = block /\ db' = db
  BY DEF vars
<1>2. Touched({"ipshare", "ipshare_trade"})' = Touched({"ipshare", "ipshare_trade"})
      /\ Touched({"stake"})' = Touched({"stake"})
  BY <1>1 DEF Touched
<1>3. TypeOK' /\ RowsBehindStores'
  BY <1>1, <1>2 DEF CountsInv, TypeOK, RowsBehindStores
<1>4. PendingCounts' = PendingCounts
  BY <1>1 DEF PendingCounts
<1>5. PendingAgree' /\ CountsMatch'
  BY <1>1, <1>4 DEF CountsInv, PendingAgree, CountsAgree, CountsMatch
<1> QED
  BY <1>3, <1>5 DEF CountsInv

\* A value capture is logged and changes no balance.
LEMMA CaptureStep ==
    ASSUME CountsInv, NEW a \in Accounts, NEW s \in Accounts, ValueCaptured(a, s)
    PROVE  CountsInv'
<1>1. /\ supply' = supply /\ total' = total /\ shares' = shares /\ staked' = staked
      /\ changes' = changes /\ db' = db
  BY DEF ValueCaptured, Emit
<1>2. /\ events' \in [Kinds -> Seq(Event)] /\ counter' \in [Kinds -> Nat] /\ block' = block
      /\ Touched({"ipshare", "ipshare_trade"}) \subseteq Touched({"ipshare", "ipshare_trade"})'
      /\ Touched({"stake"}) \subseteq Touched({"stake"})'
  <2>1. "value_capture" \in Kinds /\ TRUE \in BOOLEAN /\ 0 \in Nat /\ TypeOK
    BY DEF Kinds, CountsInv
  <2>2. Emit("value_capture", a, s, TRUE, 0)
    BY DEF ValueCaptured
  <2> QED
    BY <2>1, <2>2, EmitTouches, EmitAppends
<1>3. TypeOK' /\ RowsBehindStores'
  BY <1>1, <1>2 DEF CountsInv, TypeOK, RowsBehindStores
<1>4. PendingCounts' = PendingCounts
  BY <1>1 DEF PendingCounts
<1>5. PendingAgree' /\ CountsMatch'
  BY <1>1, <1>4 DEF CountsInv, PendingAgree, CountsAgree, CountsMatch
<1> QED
  BY <1>3, <1>5 DEF CountsInv

\* The invariant of the counts is inductive.
LEMMA NextCountsInv == CountsInv /\ [Next]_vars => CountsInv'
<1> SUFFICES ASSUME CountsInv, [Next]_vars PROVE CountsInv'
  OBVIOUS
<1>a. \A m \in Amounts : m \in Nat
  BY LedgerAssumption
<1>t. /\ shares \in [Pairs -> Nat] /\ staked \in [Pairs -> Nat]
      /\ supply \in [Accounts -> Nat] /\ total \in [Accounts -> Nat]
  BY DEF CountsInv, TypeOK
<1>1. ASSUME NEW s \in Accounts, NEW m \in Amounts, Create(s, m)
      PROVE  CountsInv'
  <2>1. /\ shares[<<s, s>>] + m \in Nat
        /\ supply' \in [Accounts -> Nat]
    BY <1>1, <1>a, <1>t DEF Create, Pairs
  <2>2. /\ SetShares(<<s, s>>, shares[<<s, s>>] + m)
        /\ Emit("ipshare", s, s, TRUE, m)
        /\ UNCHANGED <<total, staked>>
    BY <1>1 DEF Create
  <2> QED
    BY <1>a, <2>1, <2>2, SharesStep
<1>2. ASSUME NEW a \in Accounts, NEW s \in Accounts, NEW m \in Amounts, Buy(a, s, m)
      PROVE  CountsInv'
  <2>1. /\ shares[<<a, s>>] + m \in Nat
        /\ supply' \in [Accounts -> Nat]
        /\ supply'[s] \in Nat
    BY <1>2, <1>a, <1>t DEF Buy, Pairs
  <2>2. /\ SetShares(<<a, s>>, shares[<<a, s>>] + m)
        /\ Emit("ipshare_trade", a, s, TRUE, supply'[s])
        /\ UNCHANGED <<total, staked>>
    BY <1>2 DEF Buy
  <2> QED
    BY <2>1, <2>2, SharesStep
<1>3. ASSUME NEW a \in Accounts, NEW s \in Accounts, NEW m \in Amounts, Sell(a, s, m)
      PROVE  CountsInv'
  <2>1. /\ shares[<<a, s>>] - m \in Nat
        /\ supply' \in [Accounts -> Nat]
        /\ supply'[s] \in Nat
    BY <1>3, <1>a, <1>t DEF Sell, Pairs
  <2>2. /\ SetShares(<<a, s>>, shares[<<a, s>>] - m)
        /\ Emit("ipshare_trade", a, s, FALSE, supply'[s])
        /\ UNCHANGED <<total, staked>>
    BY <1>3 DEF Sell
  <2> QED
    BY <2>1, <2>2, SharesStep
<1>4. ASSUME NEW a \in Accounts, NEW s \in Accounts, NEW m \in Amounts, Stake(a, s, m)
      PROVE  CountsInv'
  <2>1. /\ staked[<<a, s>>] + m \in Nat
        /\ total' \in [Accounts -> Nat]
        /\ total'[s] \in Nat
    BY <1>4, <1>a, <1>t DEF Stake, Pairs
  <2>2. /\ SetStaked(<<a, s>>, staked[<<a, s>>] + m)
        /\ Emit("stake", a, s, TRUE, total'[s])
        /\ UNCHANGED <<supply, shares>>
    BY <1>4 DEF Stake
  <2> QED
    BY <2>1, <2>2, StakedStep
<1>5. ASSUME NEW a \in Accounts, NEW s \in Accounts, NEW m \in Amounts, Unstake(a, s, m)
      PROVE  CountsInv'
  <2>1. /\ staked[<<a, s>>] - m \in Nat
        /\ total' \in [Accounts -> Nat]
        /\ total'[s] \in Nat
    BY <1>5, <1>a, <1>t DEF Unstake, Pairs
  <2>2. /\ SetStaked(<<a, s>>, staked[<<a, s>>] - m)
        /\ Emit("stake", a, s, FALSE, total'[s])
        /\ UNCHANGED <<supply, shares>>
    BY <1>5 DEF Unstake
  <2> QED
    BY <2>1, <2>2, StakedStep
<1> QED
  BY <1>1, <1>2, <1>3, <1>4, <1>5, EndBlockStep, CaptureStep, StutterStep DEF Next

-----------------------------------------------------------------------------
(***************************************************************************)
(* What the open block's events will make of the supply and the stake of a *)
(* subject is what the contract has and what the stores add up to.         *)
(***************************************************************************)
SupplyInv ==
    \A s \in Accounts :
        /\ ShareSupply(s) = supply[s]
        /\ LastValue(events["stake"], s, db.total_staked[s]) = total[s]
        /\ Total(shares, s) = supply[s]
        /\ Total(staked, s) = total[s]

\* What does not exist has no supply and was not traded.
CreatedFirst ==
    \A s \in Accounts \ created :
        /\ supply[s] = 0
        /\ \A n \in DOMAIN events["ipshare_trade"] : events["ipshare_trade"][n].subject # s

\* The committed rows and the open block's events are the counter's events.
IndexInv ==
    \A k \in Kinds :
        /\ db.rows[k] \in Seq(Nat)
        /\ Len(db.rows[k]) + Len(events[k]) = counter[k]

\* A delta of the open block has an event that names its account.
DeltasMentioned ==
    /\ block >= 1
    /\ \A c \in Counts, a \in Accounts : changes[c][a] # 0 => a \in Mentioned

IInv ==
    /\ CountsInv
    /\ SupplyInv
    /\ CreatedFirst
    /\ SupplyIsWhatIsHeld
    /\ IndexInv
    /\ IndexesFollowTheChain
    /\ DeltasMentioned
    /\ CountedAccountsJoined

-----------------------------------------------------------------------------

\* The last event of a subject after one more event of the kind.
LEMMA LastOfAppend ==
    ASSUME NEW list \in Seq(Event), NEW e \in Event, NEW t, NEW old
    PROVE  LastValue(Append(list, e), t, old)
             = IF e.subject = t THEN e.value ELSE LastValue(list, t, old)
<1> DEFINE new == Append(list, e)
           own == {n \in DOMAIN list : list[n].subject = t}
           own2 == {n \in DOMAIN new : new[n].subject = t}
<1>1. /\ Len(list) \in Nat /\ DOMAIN list = 1..Len(list) /\ DOMAIN new = 1..(Len(list) + 1)
      /\ \A i \in 1..Len(list) : new[i] = list[i]
      /\ new[Len(list) + 1] = e
  OBVIOUS
<1> HIDE DEF new
<1>2. LastValue(list, t, old) = IF own = {} THEN old ELSE list[Max(own)].value
  BY DEF LastValue
<1>3. LastValue(new, t, old) = IF own2 = {} THEN old ELSE new[Max(own2)].value
  BY DEF LastValue
<1>4. CASE e.subject = t
  <2>0. PICK len \in Nat : len = Len(list) + 1
    BY <1>1
  <2>1. own2 \subseteq 1..len /\ len \in own2
    BY <1>1, <1>4, <2>0
  <2> HIDE DEF own2
  <2>2. Max(own2) \in own2 /\ \A m \in own2 : m <= Max(own2)
    BY <2>1, GreatestPosition
  <2>3. Max(own2) = len
    <3>1. PICK m : m = Max(own2)
      OBVIOUS
    <3>2. m \in 1..len /\ len <= m
      BY <2>1, <2>2, <3>1
    <3> QED
      BY <3>1, <3>2
  <2> QED
    BY <1>1, <1>3, <1>4, <2>0, <2>1, <2>3 DEF new
<1>5. CASE e.subject # t
  <2>1. own2 = own
    BY <1>1, <1>5
  <2>2. own \subseteq 1..Len(list)
    BY <1>1
  <2> HIDE DEF own, own2
  <2>3. CASE own = {}
    BY <1>2, <1>3, <1>5, <2>1, <2>3 DEF new
  <2>4. CASE own # {}
    <3>1. Max(own) \in own
      BY <1>1, <2>2, <2>4, GreatestPosition
    <3>2. new[Max(own)] = list[Max(own)]
      BY <1>1, <2>2, <3>1
    <3> QED
      BY <1>2, <1>3, <1>5, <2>1, <2>4, <3>2 DEF new
  <2> QED
    BY <2>3, <2>4
<1> QED
  BY <1>4, <1>5

\* A subject without events of the kind keeps its value.
LEMMA LastOfNone ==
    ASSUME NEW list, NEW t, NEW old, \A n \in DOMAIN list : list[n].subject # t
    PROVE  LastValue(list, t, old) = old
BY DEF LastValue

\* One new balance moves the total of its subject, and no other total.
LEMMA TotalStep ==
    ASSUME NEW balance \in [Pairs -> Nat], NEW h \in Accounts, NEW s \in Accounts,
           NEW n \in Nat, NEW new, Assigned(balance, new, h, s, n), NEW t \in Accounts
    PROVE  /\ Total(balance, t) \in Int
           /\ Total(new, t) = Total(balance, t) + (IF t = s THEN n - balance[<<h, s>>] ELSE 0)
<1> DEFINE f == [a \in Accounts |-> balance[<<a, t>>]]
           g == [a \in Accounts |-> new[<<a, t>>]]
<1>1. /\ Total(balance, t) = SumFunctionOnSet(f, Accounts)
      /\ Total(new, t) = SumFunctionOnSet(g, Accounts)
  BY DEF Total, SumFunction
<1>2. \A a \in Accounts : f[a] = balance[<<a, t>>] /\ f[a] \in Nat /\ g[a] = new[<<a, t>>]
  BY DEF Pairs
<1>3. \A a \in Accounts : g[a] = IF t = s /\ a = h THEN n ELSE f[a]
  BY <1>2 DEF Assigned
<1> HIDE DEF f, g
<1>4. IsFiniteSet(Accounts) /\ NumericOn(f, Accounts)
  <2>1. ASSUME NEW a \in Accounts PROVE f[a] \in Int
    <3>1. f[a] \in Nat
      BY <1>2
    <3> QED
      BY <3>1
  <2> QED
    BY <2>1, LedgerAssumption DEF NumericOn
<1>5. SumFunctionOnSet(f, Accounts) \in Int
  BY <1>4, SumType
<1>6. CASE t = s
  <2>1. SumFunctionOnSet(g, Accounts) = SumFunctionOnSet(f, Accounts) - f[h] + g[h]
    <3>1. g[h] \in Int /\ \A y \in Accounts \ {h} : g[y] = f[y]
      BY <1>3, <1>6
    <3> QED
      BY <1>4, <3>1, SumChange
  <2>2. g[h] = n /\ f[h] = balance[<<h, s>>] /\ f[h] \in Nat
    BY <1>2, <1>3, <1>6
  <2> QED
    BY <1>1, <1>5, <1>6, <2>1, <2>2
<1>7. CASE t # s
  <2>1. \A a \in Accounts : f[a] = g[a]
    BY <1>3, <1>7
  <2>2. SumFunctionOnSet(f, Accounts) = SumFunctionOnSet(g, Accounts)
    BY <1>4, <2>1, SumSame
  <2> QED
    BY <1>1, <1>5, <1>7, <2>2
<1> QED
  BY <1>6, <1>7

-----------------------------------------------------------------------------
\* An event that changes a share balance and reports the subject's new supply.
LEMMA SharesSupply ==
    ASSUME TypeOK, SupplyInv, CreatedFirst,
           NEW h \in Accounts, NEW s \in Accounts, NEW n \in Nat,
           NEW kind \in {"ipshare", "ipshare_trade"}, NEW is_buy \in BOOLEAN, NEW value \in Nat,
           kind = "ipshare" <=> s \notin created,
           created' = created \cup {s},
           supply' = [supply EXCEPT ![s] = value],
           value = supply[s] + n - shares[<<h, s>>],
           SetShares(<<h, s>>, n), Emit(kind, h, s, is_buy, value),
           UNCHANGED <<total, staked>>
    PROVE  SupplyInv' /\ CreatedFirst'
<1> DEFINE e == Emitted(h, s, is_buy, value)
<1>0. kind \in Kinds /\ "ipshare" \in Kinds /\ "ipshare_trade" \in Kinds /\ "stake" \in Kinds
  BY DEF Kinds
<1>1. /\ events'[kind] = Append(events[kind], e)
      /\ \A k \in Kinds : k # kind => events'[k] = events[k]
      /\ db' = db
  BY <1>0, EmitAppends
<1>2. /\ total' = total /\ staked' = staked
      /\ shares \in [Pairs -> Nat] /\ supply \in [Accounts -> Nat]
      /\ events \in [Kinds -> Seq(Event)]
      /\ shares' = [shares EXCEPT ![<<h, s>>] = n]
  BY DEF TypeOK, SetShares
<1>3. e \in Event /\ e.subject = s /\ e.value = value
  BY DEF Emitted, Event
<1> HIDE DEF e
<1>4. ASSUME NEW t \in Accounts
      PROVE  supply'[t] = supply[t] + (IF t = s THEN n - shares[<<h, s>>] ELSE 0)
  <2>1. shares[<<h, s>>] \in Nat /\ supply[t] \in Nat
    BY <1>2 DEF Pairs
  <2>2. supply'[t] = IF t = s THEN value ELSE supply[t]
    BY <1>2
  <2> QED
    BY <2>1, <2>2
<1>5. ASSUME NEW t \in Accounts PROVE Total(shares', t) = supply'[t]
  <2>1. Assigned(shares, shares', h, s, n)
    BY <1>2, ExceptAssigns
  <2>2. Total(shares', t) = Total(shares, t) + (IF t = s THEN n - shares[<<h, s>>] ELSE 0)
    <3>1. shares \in [Pairs -> Nat]
      BY <1>2
    <3> QED
      BY <2>1, <3>1, TotalStep
  <2> QED
    BY <1>4, <2>2 DEF SupplyInv
<1>6. ASSUME NEW t \in Accounts PROVE ShareSupply(t)' = supply'[t]
  <2> DEFINE row == db.share_supply[t]
  <2>1. /\ ShareSupply(t) = LastValue(events["ipshare_trade"], t, LastValue(events["ipshare"], t, row))
        /\ ShareSupply(t)' = LastValue(events'["ipshare_trade"], t, LastValue(events'["ipshare"], t, row))
    BY <1>1 DEF ShareSupply
  <2>2. events["ipshare_trade"] \in Seq(Event) /\ events["ipshare"] \in Seq(Event)
    BY <1>0, <1>2
  <2>3. supply'[t] = IF t = s THEN value ELSE supply[t]
    BY <1>2
  <2> HIDE DEF row
  <2>4. CASE kind = "ipshare_trade"
    <3>1. /\ events'["ipshare_trade"] = Append(events["ipshare_trade"], e)
          /\ events'["ipshare"] = events["ipshare"]
      BY <1>0, <1>1, <2>4
    <3>2. ShareSupply(t)' = IF t = s THEN value
                            ELSE LastValue(events["ipshare_trade"], t, LastValue(events["ipshare"], t, row))
      BY <1>3, <2>1, <2>2, <3>1, LastOfAppend
    <3> QED
      BY <2>1, <2>3, <3>2 DEF SupplyInv
  <2>5. CASE kind = "ipshare"
    <3>1. /\ events'["ipshare"] = Append(events["ipshare"], e)
          /\ events'["ipshare_trade"] = events["ipshare_trade"]
      BY <1>0, <1>1, <2>5
    <3>2. LastValue(events'["ipshare"], t, row)
            = IF t = s THEN value ELSE LastValue(events["ipshare"], t, row)
      BY <1>3, <2>2, <3>1, LastOfAppend
    <3>3. t = s => LastValue(events["ipshare_trade"], t, value) = value
      BY <2>5, LastOfNone DEF CreatedFirst
    <3> QED
      BY <2>1, <2>3, <3>1, <3>2, <3>3 DEF SupplyInv
  <2> QED
    BY <2>4, <2>5
<1>7. ASSUME NEW t \in Accounts
      PROVE  LastValue(events["stake"], t, db.total_staked[t])' = total'[t]
  BY <1>0, <1>1, <1>2 DEF SupplyInv
<1>8. SupplyInv'
  <2>1. \A t \in Accounts : Total(staked', t) = total'[t]
    BY <1>2 DEF SupplyInv
  <2>2. \A t \in Accounts : Total(shares, t)' = Total(shares', t) /\ Total(staked, t)' = Total(staked', t)
    BY DEF Total
  <2> QED
    BY <1>5, <1>6, <1>7, <2>1, <2>2 DEF SupplyInv
<1>9. ASSUME NEW t \in Accounts \ created'
      PROVE  /\ supply'[t] = 0
             /\ \A i \in DOMAIN events'["ipshare_trade"] : events'["ipshare_trade"][i].subject # t
  <2>1. t # s /\ t \in Accounts \ created
    OBVIOUS
  <2>2. supply'[t] = 0
    BY <1>2, <2>1 DEF CreatedFirst
  <2>3. events["ipshare_trade"] \in Seq(Event)
    BY <1>0, <1>2
  <2>4. CASE kind = "ipshare_trade"
    <3>1. events'["ipshare_trade"] = Append(events["ipshare_trade"], e)
      BY <1>1, <2>4
    <3>2. \A i \in DOMAIN events["ipshare_trade"] : events["ipshare_trade"][i].subject # t
      BY <2>1 DEF CreatedFirst
    <3> QED
      BY <1>3, <2>1, <2>2, <2>3, <3>1, <3>2
  <2>5. CASE kind = "ipshare"
    BY <1>0, <1>1, <2>1, <2>2, <2>5 DEF CreatedFirst
  <2> QED
    BY <2>4, <2>5
<1> QED
  BY <1>8, <1>9 DEF CreatedFirst

\* An event that changes a stake and reports the subject's new total.
LEMMA StakedSupply ==
    ASSUME TypeOK, SupplyInv, CreatedFirst,
           NEW h \in Accounts, NEW s \in Accounts, NEW n \in Nat,
           NEW is_buy \in BOOLEAN, NEW value \in Nat,
           total' = [total EXCEPT ![s] = value],
           value = total[s] + n - staked[<<h, s>>],
           SetStaked(<<h, s>>, n), Emit("stake", h, s, is_buy, value),
           UNCHANGED <<created, supply, shares>>
    PROVE  SupplyInv' /\ CreatedFirst'
<1> DEFINE e == Emitted(h, s, is_buy, value)
<1>0. "ipshare" \in Kinds /\ "ipshare_trade" \in Kinds /\ "stake" \in Kinds
  BY DEF Kinds
<1>1. /\ events'["stake"] = Append(events["stake"], e)
      /\ events'["ipshare"] = events["ipshare"]
      /\ events'["ipshare_trade"] = events["ipshare_trade"]
      /\ db' = db
  BY <1>0, EmitAppends
<1>2. /\ created' = created /\ supply' = supply /\ shares' = shares
      /\ staked \in [Pairs -> Nat] /\ total \in [Accounts -> Nat]
      /\ events["stake"] \in Seq(Event)
      /\ staked' = [staked EXCEPT ![<<h, s>>] = n]
  BY <1>0 DEF TypeOK, SetStaked
<1>3. e \in Event /\ e.subject = s /\ e.value = value
  BY DEF Emitted, Event
<1> HIDE DEF e
<1>4. ASSUME NEW t \in Accounts
      PROVE  /\ total'[t] = IF t = s THEN value ELSE total[t]
             /\ total'[t] = total[t] + (IF t = s THEN n - staked[<<h, s>>] ELSE 0)
  <2>1. staked[<<h, s>>] \in Nat /\ total[t] \in Nat
    BY <1>2 DEF Pairs
  <2>2. total'[t] = IF t = s THEN value ELSE total[t]
    BY <1>2
  <2> QED
    BY <2>1, <2>2
<1>5. ASSUME NEW t \in Accounts PROVE Total(staked', t) = total'[t]
  <2>1. Assigned(staked, staked', h, s, n)
    BY <1>2, ExceptAssigns
  <2>2. Total(staked', t) = Total(staked, t) + (IF t = s THEN n - staked[<<h, s>>] ELSE 0)
    <3>1. staked \in [Pairs -> Nat]
      BY <1>2
    <3> QED
      BY <2>1, <3>1, TotalStep
  <2> QED
    BY <1>4, <2>2 DEF SupplyInv
<1>6. ASSUME NEW t \in Accounts
      PROVE  LastValue(events["stake"], t, db.total_staked[t])' = total'[t]
  <2>1. LastValue(events["stake"], t, db.total_staked[t])'
          = LastValue(events'["stake"], t, db.total_staked[t])
    BY <1>1
  <2>2. LastValue(events'["stake"], t, db.total_staked[t])
          = IF t = s THEN value ELSE LastValue(events["stake"], t, db.total_staked[t])
    BY <1>1, <1>2, <1>3, LastOfAppend
  <2> QED
    BY <1>4, <2>1, <2>2 DEF SupplyInv
<1>7. \A t \in Accounts : ShareSupply(t)' = supply'[t] /\ Total(shares, t)' = supply'[t]
  BY <1>1, <1>2 DEF SupplyInv, ShareSupply
<1>8. SupplyInv'
  BY <1>5, <1>6, <1>7 DEF SupplyInv
<1> QED
  BY <1>1, <1>2, <1>8 DEF CreatedFirst

\* Every event takes the next index of its kind.
LEMMA EmitIndexes ==
    ASSUME TypeOK, IndexInv, NEW kind \in Kinds, NEW h \in Accounts, NEW s \in Accounts,
           NEW is_buy \in BOOLEAN, NEW value \in Nat, Emit(kind, h, s, is_buy, value)
    PROVE  IndexInv'
<1> SUFFICES ASSUME NEW k \in Kinds
             PROVE  db'.rows[k] \in Seq(Nat) /\ Len(db'.rows[k]) + Len(events'[k]) = counter'[k]
  BY DEF IndexInv
<1>1. /\ db' = db /\ counter[k] \in Nat /\ events[k] \in Seq(Event)
      /\ db.rows[k] \in Seq(Nat) /\ Len(db.rows[k]) + Len(events[k]) = counter[k]
  BY EmitAppends DEF IndexInv, TypeOK
<1>2. CASE k = kind
  <2>1. /\ events'[k] = Append(events[k], Emitted(h, s, is_buy, value))
        /\ counter'[k] = counter[k] + 1
    BY <1>2, EmitAppends
  <2>2. /\ Len(events'[k]) = Len(events[k]) + 1
        /\ Len(events[k]) \in Nat /\ Len(db.rows[k]) \in Nat
    BY <1>1, <2>1
  <2>3. PICK rows, list \in Nat : rows = Len(db.rows[k]) /\ list = Len(events[k])
    BY <2>2
  <2>4. rows + (list + 1) = (rows + list) + 1
    OBVIOUS
  <2> QED
    BY <1>1, <2>1, <2>2, <2>3, <2>4
<1>3. CASE k # kind
  <2>1. events'[k] = events[k] /\ counter'[k] = counter[k]
    BY <1>3, EmitAppends
  <2> QED
    BY <1>1, <2>1
<1> QED
  BY <1>2, <1>3

\* Every event mentions its account and its subject.
LEMMA EmitMentions ==
    ASSUME TypeOK, NEW kind \in Kinds, NEW h \in Accounts, NEW s \in Accounts,
           NEW is_buy \in BOOLEAN, NEW value \in Nat, Emit(kind, h, s, is_buy, value)
    PROVE  Mentioned \subseteq Mentioned' /\ h \in Mentioned' /\ s \in Mentioned'
<1> DEFINE e == Emitted(h, s, is_buy, value)
<1>1. e.account = h /\ e.subject = s
  BY DEF Emitted
<1>2. /\ \A k \in Kinds : Range(events[k]) \subseteq Range(events'[k])
      /\ e \in Range(events'[kind])
  BY EmitTouches
<1> HIDE DEF e
<1> QED
  BY <1>1, <1>2 DEF Mentioned

\* After a change of shares every counted account is named by an event.
LEMMA SharesMentioned ==
    ASSUME TypeOK, DeltasMentioned, NEW h \in Accounts, NEW s \in Accounts, NEW n \in Nat,
           NEW kind \in Kinds, NEW is_buy \in BOOLEAN, NEW value \in Nat,
           SetShares(<<h, s>>, n), Emit(kind, h, s, is_buy, value)
    PROVE  DeltasMentioned'
<1>1. block' = block /\ Mentioned \subseteq Mentioned' /\ h \in Mentioned' /\ s \in Mentioned'
  BY EmitAppends, EmitMentions
<1>2. ASSUME NEW c \in Counts, NEW a \in Accounts, a # h, a # s
      PROVE  changes'[c][a] = changes[c][a]
  <2>1. /\ changes'["holdings_count"][a] = changes["holdings_count"][a] + 0
        /\ changes'["holders_count"][a] = changes["holders_count"][a] + 0
        /\ \A d \in Counts \ {"holdings_count", "holders_count"} : changes'[d] = changes[d]
    BY <1>2, SharesDelta
  <2>2. \A d \in Counts : changes[d][a] \in Int
    BY DEF TypeOK
  <2> QED
    BY <2>1, <2>2
<1>3. \A c \in Counts, a \in Accounts : changes'[c][a] # 0 => a \in Mentioned'
  BY <1>1, <1>2 DEF DeltasMentioned
<1> QED
  BY <1>1, <1>3 DEF DeltasMentioned

\* After a change of a stake every counted account is named by an event.
LEMMA StakedMentioned ==
    ASSUME TypeOK, DeltasMentioned, NEW h \in Accounts, NEW s \in Accounts, NEW n \in Nat,
           NEW kind \in Kinds, NEW is_buy \in BOOLEAN, NEW value \in Nat,
           SetStaked(<<h, s>>, n), Emit(kind, h, s, is_buy, value)
    PROVE  DeltasMentioned'
<1>1. block' = block /\ Mentioned \subseteq Mentioned' /\ h \in Mentioned' /\ s \in Mentioned'
  BY EmitAppends, EmitMentions
<1>2. ASSUME NEW c \in Counts, NEW a \in Accounts, a # h, a # s
      PROVE  changes'[c][a] = changes[c][a]
  <2>1. /\ changes'["staked_count"][a] = changes["staked_count"][a] + 0
        /\ changes'["stakers_count"][a] = changes["stakers_count"][a] + 0
        /\ \A d \in Counts \ {"staked_count", "stakers_count"} : changes'[d] = changes[d]
    BY <1>2, StakedDelta
  <2>2. \A d \in Counts : changes[d][a] \in Int
    BY DEF TypeOK
  <2> QED
    BY <2>1, <2>2
<1>3. \A c \in Counts, a \in Accounts : changes'[c][a] # 0 => a \in Mentioned'
  BY <1>1, <1>2 DEF DeltasMentioned
<1> QED
  BY <1>1, <1>3 DEF DeltasMentioned

\* An open block leaves the tables as they are.
LEMMA TablesKept ==
    ASSUME SupplyIsWhatIsHeld, IndexesFollowTheChain, CountedAccountsJoined,
           db' = db, block' = block
    PROVE  SupplyIsWhatIsHeld' /\ IndexesFollowTheChain' /\ CountedAccountsJoined'
BY DEF SupplyIsWhatIsHeld, IndexesFollowTheChain, CountedAccountsJoined, Total

-----------------------------------------------------------------------------
\* What the events report of an account comes with a mention of it.
LEMMA UnmentionedKeeps ==
    ASSUME TypeOK, NEW a \in Accounts, a \notin Mentioned, NEW k \in Kinds, NEW old
    PROVE  LastValue(events[k], a, old) = old
<1>1. \A n \in DOMAIN events[k] : events[k][n].subject # a
  BY DEF Mentioned, Range
<1> QED
  BY <1>1, LastOfNone

\* Indexes read back from the counter continue the rows of earlier blocks.
LEMMA IndexesContinue ==
    ASSUME NEW old \in Seq(Nat), \A n \in DOMAIN old : old[n] = n,
           NEW list \in Nat, NEW next \in Nat, Len(old) + list = next,
           NEW new, new = [n \in 1..list |-> next - (list - n)]
    PROVE  /\ old \o new \in Seq(Nat)
           /\ Len(old \o new) = next
           /\ \A n \in DOMAIN (old \o new) : (old \o new)[n] = n
<1>1. PICK rows \in Nat : rows = Len(old)
  OBVIOUS
<1>2. next = rows + list
  BY <1>1
<1>3. \A n \in 1..list : next - (list - n) = rows + n
  BY <1>2
<1>4. \A n \in 1..list : new[n] = rows + n
  BY <1>3
<1>5. new \in [1..list -> Nat]
  BY <1>3
<1>6. new \in Seq(Nat) /\ Len(new) = list
  BY <1>5
<1>7. old \o new \in Seq(Nat) /\ Len(old \o new) = rows + list
  BY <1>1, <1>6
<1>8. \A n \in 1..rows : old[n] = n
  BY <1>1
<1>9. ASSUME NEW n \in 1..(rows + list) PROVE (old \o new)[n] = n
  <2>1. CASE n <= rows
    <3>1. (old \o new)[n] = old[n] /\ n \in 1..rows
      BY <1>1, <1>6, <2>1
    <3> QED
      BY <1>8, <3>1
  <2>2. CASE n > rows
    <3>1. (old \o new)[n] = new[n - rows] /\ n - rows \in 1..list
      BY <1>1, <1>6, <2>2
    <3>2. rows + (n - rows) = n
      OBVIOUS
    <3> QED
      BY <1>4, <3>1, <3>2
  <2>3. n \in Int /\ rows \in Int
    OBVIOUS
  <2>4. n <= rows \/ n > rows
    BY <2>3
  <2> QED
    BY <2>1, <2>2, <2>4
<1>10. DOMAIN (old \o new) = 1..(rows + list)
  BY <1>7
<1> QED
  BY <1>2, <1>7, <1>9, <1>10

\* The commit: the tables take over what was pending.
LEMMA EndBlockTables ==
    ASSUME IInv, EndBlock
    PROVE  /\ SupplyInv' /\ CreatedFirst' /\ SupplyIsWhatIsHeld'
           /\ IndexInv' /\ IndexesFollowTheChain'
           /\ DeltasMentioned' /\ CountedAccountsJoined'
<1>0. "ipshare" \in Kinds /\ "ipshare_trade" \in Kinds /\ "stake" \in Kinds
  BY DEF Kinds
<1>1. /\ created' = created /\ supply' = supply /\ total' = total
      /\ shares' = shares /\ staked' = staked /\ counter' = counter
      /\ events' = NoEvents /\ changes' = NoCounts /\ block' = block + 1
  BY DEF EndBlock
<1>2. /\ db'.counts = PendingCounts
      /\ db'.holders = shares /\ db'.stakers = staked
  <2>1. /\ db'.counts = PendingCounts
        /\ db'.holders = RelationRows(db.holders, shares, {"ipshare", "ipshare_trade"})
        /\ db'.stakers = RelationRows(db.stakers, staked, {"stake"})
    BY DEF EndBlock, PendingCounts
  <2> QED
    BY <2>1, RowsCatchUp DEF IInv, CountsInv
<1>3. /\ db'.share_supply = [a \in Accounts |-> ShareSupply(a)]
      /\ db'.total_staked = [a \in Accounts |-> LastValue(events["stake"], a, db.total_staked[a])]
      /\ db'.joined_at = [a \in Accounts |-> IF db.joined_at[a] = 0 /\ a \in Mentioned
                                             THEN block ELSE db.joined_at[a]]
      /\ db'.rows = [k \in Kinds |-> db.rows[k] \o EventRows(k)]
  BY DEF EndBlock
<1>4. TypeOK /\ SupplyInv /\ IndexInv /\ DeltasMentioned
  BY DEF IInv, CountsInv
<1>5. \A a \in Accounts : db'.share_supply[a] = supply[a] /\ db'.total_staked[a] = total[a]
  BY <1>3, <1>4 DEF SupplyInv
<1>6. SupplyIsWhatIsHeld'
  <2>1. \A s \in Accounts : Total(shares, s) = supply[s] /\ Total(staked, s) = total[s]
    BY <1>4 DEF SupplyInv
  <2>2. \A s \in Accounts : /\ db'.share_supply[s] = Total(db'.holders, s)
                            /\ db'.total_staked[s] = Total(db'.stakers, s)
    BY <1>2, <1>5, <2>1
  <2> QED
    BY <2>2 DEF SupplyIsWhatIsHeld, Total
<1>7. \A k \in Kinds : events'[k] = <<>> /\ DOMAIN events'[k] = {}
  BY <1>1 DEF NoEvents
<1>8. SupplyInv'
  <2>1. ASSUME NEW s \in Accounts, NEW k \in Kinds, NEW old
        PROVE  LastValue(events'[k], s, old) = old
    BY <1>7, LastOfNone
  <2>2. ASSUME NEW s \in Accounts
        PROVE  /\ ShareSupply(s)' = db'.share_supply[s]
               /\ LastValue(events["stake"], s, db.total_staked[s])' = db'.total_staked[s]
    <3>1. /\ ShareSupply(s)' = LastValue(events'["ipshare_trade"], s,
                                 LastValue(events'["ipshare"], s, db'.share_supply[s]))
          /\ LastValue(events["stake"], s, db.total_staked[s])'
               = LastValue(events'["stake"], s, db'.total_staked[s])
      BY DEF ShareSupply
    <3> QED
      BY <1>0, <2>1, <3>1
  <2>3. \A s \in Accounts : Total(shares, s)' = Total(shares, s) /\ Total(staked, s)' = Total(staked, s)
    BY <1>1 DEF Total
  <2> QED
    BY <1>1, <1>4, <1>5, <2>2, <2>3 DEF SupplyInv
<1>9. CreatedFirst'
  BY <1>0, <1>1, <1>7 DEF IInv, CreatedFirst
<1>10. ASSUME NEW k \in Kinds
       PROVE  /\ db'.rows[k] \in Seq(Nat)
              /\ Len(db'.rows[k]) = counter[k]
              /\ \A n \in DOMAIN db'.rows[k] : db'.rows[k][n] = n
  <2>1. /\ db.rows[k] \in Seq(Nat) /\ Len(db.rows[k]) + Len(events[k]) = counter[k]
        /\ \A n \in DOMAIN db.rows[k] : db.rows[k][n] = n
        /\ counter[k] \in Nat /\ Len(events[k]) \in Nat
    BY <1>4 DEF IInv, IndexInv, IndexesFollowTheChain, TypeOK
  <2>2. EventRows(k) = [n \in 1..Len(events[k]) |-> counter[k] - (Len(events[k]) - n)]
    BY <1>4 DEF EventRows, IndexAt, TypeOK
  <2>3. db'.rows[k] = db.rows[k] \o EventRows(k)
    BY <1>3
  <2> QED
    <3>1. PICK old : old = db.rows[k]
      OBVIOUS
    <3>2. PICK list : list = Len(events[k])
      OBVIOUS
    <3>3. PICK next : next = counter[k]
      OBVIOUS
    <3>4. PICK new : new = EventRows(k)
      OBVIOUS
    <3>5. /\ old \in Seq(Nat) /\ Len(old) + list = next
          /\ \A n \in DOMAIN old : old[n] = n
          /\ next \in Nat /\ list \in Nat
          /\ new = [n \in 1..list |-> next - (list - n)]
      BY <2>1, <2>2, <3>1, <3>2, <3>3, <3>4
    <3>6. /\ old \o new \in Seq(Nat)
          /\ Len(old \o new) = next
          /\ \A n \in DOMAIN (old \o new) : (old \o new)[n] = n
      BY <3>5, IndexesContinue
    <3> QED
      BY <2>3, <3>1, <3>3, <3>4, <3>6
<1>11. IndexInv' /\ IndexesFollowTheChain'
  <2>1. \A k \in Kinds : Len(events'[k]) = 0
    BY <1>7
  <2>2. ASSUME NEW k \in Kinds PROVE Len(db'.rows[k]) + Len(events'[k]) = counter'[k]
    <3>1. counter[k] \in Nat
      BY <1>4 DEF TypeOK
    <3>2. Len(db'.rows[k]) = counter[k]
      BY <1>10
    <3> QED
      BY <1>1, <2>1, <3>1, <3>2
  <2> QED
    BY <1>10, <2>2 DEF IndexInv, IndexesFollowTheChain
<1>12. DeltasMentioned'
  BY <1>1, <1>4 DEF DeltasMentioned, NoCounts, TypeOK
<1>13. CountedAccountsJoined'
  <2> SUFFICES ASSUME NEW a \in Accounts
               PROVE  \/ db'.joined_at[a] \in 1..block
                      \/ /\ db'.joined_at[a] = 0
                         /\ \A c \in Counts : db'.counts[c][a] = 0
                         /\ db'.share_supply[a] = 0 /\ db'.total_staked[a] = 0
    <3>1. block \in Nat /\ block' - 1 = block
      BY <1>1, <1>4 DEF TypeOK
    <3> QED
      BY <3>1 DEF CountedAccountsJoined
  <2>1. block \in Nat /\ block >= 1
    BY <1>4 DEF TypeOK, DeltasMentioned
  <2>2. CASE db.joined_at[a] \in 1..(block - 1)
    BY <1>3, <2>1, <2>2
  <2>3. CASE /\ db.joined_at[a] = 0
             /\ \A c \in Counts : db.counts[c][a] = 0
             /\ db.share_supply[a] = 0 /\ db.total_staked[a] = 0
    <3>1. CASE a \in Mentioned
      BY <1>3, <2>1, <2>3, <3>1
    <3>2. CASE a \notin Mentioned
      <4>1. db'.joined_at[a] = 0
        BY <1>3, <2>3, <3>2
      <4>2. ASSUME NEW c \in Counts PROVE db'.counts[c][a] = 0
        BY <1>2, <1>4, <2>3, <3>2 DEF PendingCounts, DeltasMentioned
      <4>3. ShareSupply(a) = 0 /\ LastValue(events["stake"], a, db.total_staked[a]) = 0
        BY <1>0, <1>4, <2>3, <3>2, UnmentionedKeeps DEF ShareSupply
      <4> QED
        BY <1>3, <4>1, <4>2, <4>3
    <3> QED
      BY <3>1, <3>2
  <2> QED
    BY <2>2, <2>3 DEF IInv, CountedAccountsJoined
<1> QED
  BY <1>6, <1>8, <1>9, <1>11, <1>12, <1>13

\* The invariant of supplies, indexes and mentions holds at first.
LEMMA InitTables ==
    ASSUME Init
    PROVE  /\ SupplyInv /\ CreatedFirst /\ SupplyIsWhatIsHeld
           /\ IndexInv /\ IndexesFollowTheChain
           /\ DeltasMentioned /\ CountedAccountsJoined
<1>0. "ipshare" \in Kinds /\ "ipshare_trade" \in Kinds /\ "stake" \in Kinds
  BY DEF Kinds
<1>1. /\ created = {} /\ supply = [a \in Accounts |-> 0] /\ total = [a \in Accounts |-> 0]
      /\ shares = [k \in Pairs |-> 0] /\ staked = [k \in Pairs |-> 0]
      /\ counter = [k \in Kinds |-> 0] /\ events = NoEvents /\ changes = NoCounts /\ block = 1
      /\ db.counts = NoCounts /\ db.holders = [k \in Pairs |-> 0] /\ db.stakers = [k \in Pairs |-> 0]
      /\ db.share_supply = [a \in Accounts |-> 0] /\ db.total_staked = [a \in Accounts |-> 0]
      /\ db.joined_at = [a \in Accounts |-> 0] /\ db.rows = [k \in Kinds |-> <<>>]
  BY DEF Init
<1>2. \A k \in Kinds : events[k] = <<>> /\ DOMAIN events[k] = {}
  BY <1>1 DEF NoEvents
<1>3. ASSUME NEW s \in Accounts, NEW k \in Kinds, NEW old
      PROVE  LastValue(events[k], s, old) = old
  BY <1>2, LastOfNone
<1>4. ASSUME NEW s \in Accounts, NEW balance, balance = [k \in Pairs |-> 0]
      PROVE  Total(balance, s) = 0
  <2> DEFINE f == [a \in Accounts |-> balance[<<a, s>>]]
  <2>1. Total(balance, s) = SumFunctionOnSet(f, Accounts)
    BY DEF Total, SumFunction
  <2>2. \A a \in Accounts : f[a] = 0
    BY <1>4 DEF Pairs
  <2> HIDE DEF f
  <2> QED
    BY <2>1, <2>2, LedgerAssumption, SumZero
<1>5. SupplyInv /\ SupplyIsWhatIsHeld
  <2>1. \A s \in Accounts : /\ Total(shares, s) = 0 /\ Total(staked, s) = 0
                            /\ Total(db.holders, s) = 0 /\ Total(db.stakers, s) = 0
    BY <1>1, <1>4
  <2>2. \A s \in Accounts : /\ supply[s] = 0 /\ total[s] = 0
                            /\ db.share_supply[s] = 0 /\ db.total_staked[s] = 0
    BY <1>1
  <2>3. ASSUME NEW s \in Accounts
        PROVE  ShareSupply(s) = 0 /\ LastValue(events["stake"], s, db.total_staked[s]) = 0
    BY <1>0, <1>3, <2>2 DEF ShareSupply
  <2> QED
    BY <2>1, <2>2, <2>3 DEF SupplyInv, SupplyIsWhatIsHeld
<1>6. CreatedFirst
  BY <1>0, <1>1, <1>2 DEF CreatedFirst
<1>7. IndexInv /\ IndexesFollowTheChain
  BY <1>1, <1>2 DEF IndexInv, IndexesFollowTheChain
<1>8. DeltasMentioned /\ CountedAccountsJoined
  BY <1>1 DEF DeltasMentioned, CountedAccountsJoined, NoCounts
<1> QED
  BY <1>5, <1>6, <1>7, <1>8

-----------------------------------------------------------------------------
\* The parts of IInv beside the counts.
TablesInv ==
    /\ SupplyInv /\ CreatedFirst /\ SupplyIsWhatIsHeld
    /\ IndexInv /\ IndexesFollowTheChain
    /\ DeltasMentioned /\ CountedAccountsJoined

\* A purchase, a sale or a creation keeps it.
LEMMA SharesTables ==
    ASSUME TypeOK, TablesInv,
           NEW h \in Accounts, NEW s \in Accounts, NEW n \in Nat,
           NEW kind \in {"ipshare", "ipshare_trade"}, NEW is_buy \in BOOLEAN, NEW value \in Nat,
           kind = "ipshare" <=> s \notin created,
           created' = created \cup {s},
           supply' = [supply EXCEPT ![s] = value],
           value = supply[s] + n - shares[<<h, s>>],
           SetShares(<<h, s>>, n), Emit(kind, h, s, is_buy, value),
           UNCHANGED <<total, staked>>
    PROVE  TablesInv'
<1>1. kind \in Kinds /\ db' = db /\ block' = block
  BY DEF Kinds, Emit
<1>2. /\ SupplyInv /\ CreatedFirst /\ SupplyIsWhatIsHeld /\ IndexInv
      /\ IndexesFollowTheChain /\ DeltasMentioned /\ CountedAccountsJoined
  BY DEF TablesInv
<1>3. SupplyInv' /\ CreatedFirst'
  BY <1>2, SharesSupply
<1>4. IndexInv' /\ DeltasMentioned'
  BY <1>1, <1>2, EmitIndexes, SharesMentioned
<1>5. SupplyIsWhatIsHeld' /\ IndexesFollowTheChain' /\ CountedAccountsJoined'
  BY <1>1, <1>2, TablesKept
<1> QED
  BY <1>3, <1>4, <1>5 DEF TablesInv

\* A stake or its redemption keeps it.
LEMMA StakedTables ==
    ASSUME TypeOK, TablesInv,
           NEW h \in Accounts, NEW s \in Accounts, NEW n \in Nat,
           NEW is_buy \in BOOLEAN, NEW value \in Nat,
           total' = [total EXCEPT ![s] = value],
           value = total[s] + n - staked[<<h, s>>],
           SetStaked(<<h, s>>, n), Emit("stake", h, s, is_buy, value),
           UNCHANGED <<created, supply, shares>>
    PROVE  TablesInv'
<1>1. "stake" \in Kinds /\ db' = db /\ block' = block
  BY DEF Kinds, Emit
<1>2. /\ SupplyInv /\ CreatedFirst /\ SupplyIsWhatIsHeld /\ IndexInv
      /\ IndexesFollowTheChain /\ DeltasMentioned /\ CountedAccountsJoined
  BY DEF TablesInv
<1>3. SupplyInv' /\ CreatedFirst'
  BY <1>2, StakedSupply
<1>4. IndexInv' /\ DeltasMentioned'
  BY <1>1, <1>2, EmitIndexes, StakedMentioned
<1>5. SupplyIsWhatIsHeld' /\ IndexesFollowTheChain' /\ CountedAccountsJoined'
  BY <1>1, <1>2, TablesKept
<1> QED
  BY <1>3, <1>4, <1>5 DEF TablesInv

\* A capture of value keeps it.
LEMMA CaptureTables ==
    ASSUME TypeOK, TablesInv, NEW a \in Accounts, NEW s \in Accounts, ValueCaptured(a, s)
    PROVE  TablesInv'
<1>0. /\ "value_capture" \in Kinds /\ "ipshare" \in Kinds /\ "ipshare_trade" \in Kinds
      /\ "stake" \in Kinds /\ TRUE \in BOOLEAN /\ 0 \in Nat
  BY DEF Kinds
<1>1. /\ Emit("value_capture", a, s, TRUE, 0)
      /\ created' = created /\ supply' = supply /\ total' = total
      /\ shares' = shares /\ staked' = staked /\ changes' = changes
  BY DEF ValueCaptured
<1>2. /\ SupplyInv /\ CreatedFirst /\ SupplyIsWhatIsHeld /\ IndexInv
      /\ IndexesFollowTheChain /\ DeltasMentioned /\ CountedAccountsJoined
  BY DEF TablesInv
<1>3. /\ db' = db /\ block' = block
      /\ events'["ipshare"] = events["ipshare"]
      /\ events'["ipshare_trade"] = events["ipshare_trade"]
      /\ events'["stake"] = events["stake"]
  BY <1>0, <1>1, EmitAppends
<1>4. SupplyInv' /\ CreatedFirst'
  BY <1>1, <1>2, <1>3 DEF SupplyInv, CreatedFirst, ShareSupply, Total
<1>5. IndexInv'
  BY <1>0, <1>1, <1>2, EmitIndexes
<1>6. DeltasMentioned'
  <2>1. Mentioned \subseteq Mentioned'
    BY <1>0, <1>1, EmitMentions
  <2> QED
    BY <1>1, <1>2, <1>3, <2>1 DEF DeltasMentioned
<1>7. SupplyIsWhatIsHeld' /\ IndexesFollowTheChain' /\ CountedAccountsJoined'
  BY <1>2, <1>3, TablesKept
<1> QED
  BY <1>4, <1>5, <1>6, <1>7 DEF TablesInv

\* A step that changes nothing keeps it.
LEMMA StutterTables ==
    ASSUME TablesInv, UNCHANGED vars
    PROVE  TablesInv'
<1>1. /\ created' = created /\ supply' = supply /\ total' = total /\ shares' = shares
      /\ staked' = staked /\ counter' = counter /\ events' = events /\ changes' = changes
      /\ block' = block /\ db' = db
  BY DEF vars
<1>2. SupplyInv' /\ CreatedFirst' /\ SupplyIsWhatIsHeld'
  BY <1>1 DEF TablesInv, SupplyInv, CreatedFirst, SupplyIsWhatIsHeld, ShareSupply, Total
<1>3. IndexInv' /\ IndexesFollowTheChain' /\ DeltasMentioned' /\ CountedAccountsJoined'
  BY <1>1 DEF TablesInv, IndexInv, IndexesFollowTheChain, DeltasMentioned, Mentioned,
              CountedAccountsJoined
<1> QED
  BY <1>2, <1>3 DEF TablesInv

\* The invariant is that of the counts and that of the tables.
LEMMA IInvParts == IInv <=> CountsInv /\ TablesInv
BY DEF IInv, TablesInv

\* The whole invariant holds at first.
LEMMA InitIInv == Init => IInv
BY InitCountsInv, InitTables, IInvParts DEF TablesInv

\* The whole invariant is inductive.
LEMMA NextIInv == IInv /\ [Next]_vars => IInv'
<1> SUFFICES ASSUME IInv, [Next]_vars PROVE IInv'
  OBVIOUS
<1>a. CountsInv /\ TablesInv /\ TypeOK
  BY IInvParts DEF CountsInv
<1>b. \A m \in Amounts : m \in Nat
  BY LedgerAssumption
<1>c. /\ shares \in [Pairs -> Nat] /\ staked \in [Pairs -> Nat]
      /\ supply \in [Accounts -> Nat] /\ total \in [Accounts -> Nat]
  BY <1>a DEF TypeOK
<1>1. ASSUME NEW s \in Accounts, NEW m \in Amounts, Create(s, m)
      PROVE  TablesInv'
  <2>1. PICK n \in Nat : n = shares[<<s, s>>] + m
    BY <1>b, <1>c DEF Pairs
  <2>2. m \in Nat /\ shares[<<s, s>>] \in Nat
    BY <1>b, <1>c DEF Pairs
  <2>3. supply[s] = 0
    BY <1>1, <1>a DEF Create, TablesInv, CreatedFirst
  <2>4. m = supply[s] + n - shares[<<s, s>>]
    BY <2>1, <2>2, <2>3
  <2>5. /\ s \notin created /\ created' = created \cup {s}
        /\ supply' = [supply EXCEPT ![s] = m]
        /\ SetShares(<<s, s>>, n) /\ Emit("ipshare", s, s, TRUE, m)
        /\ UNCHANGED <<total, staked>>
    BY <1>1, <2>1 DEF Create
  <2> QED
    BY <1>a, <2>2, <2>4, <2>5, SharesTables
<1>2. ASSUME NEW a \in Accounts, NEW s \in Accounts, NEW m \in Amounts, Buy(a, s, m)
      PROVE  TablesInv'
  <2>1. PICK n \in Nat : n = shares[<<a, s>>] + m
    BY <1>b, <1>c DEF Pairs
  <2>2. m \in Nat /\ shares[<<a, s>>] \in Nat /\ supply[s] \in Nat
    BY <1>b, <1>c DEF Pairs
  <2>3. PICK value \in Nat : value = supply[s] + m
    BY <2>2
  <2>4. value = supply[s] + n - shares[<<a, s>>]
    BY <2>1, <2>2, <2>3
  <2>5. /\ s \in created /\ created' = created \cup {s}
        /\ supply' = [supply EXCEPT ![s] = value] /\ supply'[s] = value
        /\ SetShares(<<a, s>>, n) /\ Emit("ipshare_trade", a, s, TRUE, supply'[s])
        /\ UNCHANGED <<total, staked>>
    BY <1>2, <1>c, <2>1, <2>3 DEF Buy
  <2>6. Emit("ipshare_trade", a, s, TRUE, value)
    BY <2>5
  <2> QED
    BY <1>a, <2>4, <2>5, <2>6, SharesTables
<1>3. ASSUME NEW a \in Accounts, NEW s \in Accounts, NEW m \in Amounts, Sell(a, s, m)
      PROVE  TablesInv'
  <2>1. /\ m \in Nat /\ shares[<<a, s>>] \in Nat /\ supply[s] \in Nat
        /\ shares[<<a, s>>] >= m /\ supply[s] >= m
    BY <1>3, <1>b, <1>c DEF Sell, Pairs
  <2>2. PICK n \in Nat : n = shares[<<a, s>>] - m
    BY <2>1
  <2>3. PICK value \in Nat : value = supply[s] - m
    BY <2>1
  <2>4. value = supply[s] + n - shares[<<a, s>>]
    BY <2>1, <2>2, <2>3
  <2>5. /\ s \in created /\ created' = created \cup {s}
        /\ supply' = [supply EXCEPT ![s] = value] /\ supply'[s] = value
        /\ SetShares(<<a, s>>, n) /\ Emit("ipshare_trade", a, s, FALSE, supply'[s])
        /\ UNCHANGED <<total, staked>>
    BY <1>3, <1>c, <2>2, <2>3 DEF Sell
  <2>6. Emit("ipshare_trade", a, s, FALSE, value)
    BY <2>5
  <2> QED
    BY <1>a, <2>4, <2>5, <2>6, SharesTables
<1>4. ASSUME NEW a \in Accounts, NEW s \in Accounts, NEW m \in Amounts, Stake(a, s, m)
      PROVE  TablesInv'
  <2>1. /\ m \in Nat /\ staked[<<a, s>>] \in Nat /\ total[s] \in Nat
    BY <1>b, <1>c DEF Pairs
  <2>2. PICK n \in Nat : n = staked[<<a, s>>] + m
    BY <2>1
  <2>3. PICK value \in Nat : value = total[s] + m
    BY <2>1
  <2>4. value = total[s] + n - staked[<<a, s>>]
    BY <2>1, <2>2, <2>3
  <2>5. /\ total' = [total EXCEPT ![s] = value] /\ total'[s] = value
        /\ SetStaked(<<a, s>>, n) /\ Emit("stake", a, s, TRUE, total'[s])
        /\ UNCHANGED <<created, supply, shares>>
    BY <1>4, <1>c, <2>2, <2>3 DEF Stake
  <2>6. Emit("stake", a, s, TRUE, value)
    BY <2>5
  <2> QED
    BY <1>a, <2>4, <2>5, <2>6, StakedTables
<1>5. ASSUME NEW a \in Accounts, NEW s \in Accounts, NEW m \in Amounts, Unstake(a, s, m)
      PROVE  TablesInv'
  <2>1. /\ m \in Nat /\ staked[<<a, s>>] \in Nat /\ total[s] \in Nat
        /\ staked[<<a, s>>] >= m /\ total[s] >= m
    BY <1>5, <1>b, <1>c DEF Unstake, Pairs
  <2>2. PICK n \in Nat : n = staked[<<a, s>>] - m
    BY <2>1
  <2>3. PICK value \in Nat : value = total[s] - m
    BY <2>1
  <2>4. value = total[s] + n - staked[<<a, s>>]
    BY <2>1, <2>2, <2>3
  <2>5. /\ total' = [total EXCEPT ![s] = value] /\ total'[s] = value
        /\ SetStaked(<<a, s>>, n) /\ Emit("stake", a, s, FALSE, total'[s])
        /\ UNCHANGED <<created, supply, shares>>
    BY <1>5, <1>c, <2>2, <2>3 DEF Unstake
  <2>6. Emit("stake", a, s, FALSE, value)
    BY <2>5
  <2> QED
    BY <1>a, <2>4, <2>5, <2>6, StakedTables
<1>6. EndBlock => TablesInv'
  BY EndBlockTables DEF TablesInv
<1>7. TablesInv'
  BY <1>1, <1>2, <1>3, <1>4, <1>5, <1>6, <1>a, CaptureTables, StutterTables DEF Next
<1>8. CountsInv'
  BY <1>a, NextCountsInv
<1>9. (IInv <=> CountsInv /\ TablesInv)'
  BY IInvParts, PTL
<1> QED
  BY <1>7, <1>8, <1>9

\* The invariant holds of every reachable state of the ledger.
THEOREM Invariance == Spec => []IInv
BY InitIInv, NextIInv, PTL DEF Spec

(***************************************************************************)
(* The stores' balances and the holder and staker rows, all built from     *)
(* deltas of both signs, are never negative.                               *)
(***************************************************************************)
THEOREM TypeCorrect == Spec => []TypeOK
<1>1. IInv => TypeOK
  BY DEF IInv, CountsInv
<1> QED
  BY <1>1, Invariance, PTL

(***************************************************************************)
(* The relation counts of every accounts row are the numbers of positive   *)
(* holder and staker rows after every commit, for every finite set of      *)
(* accounts, every amount and blocks of any length (CountsMatch).          *)
(***************************************************************************)
THEOREM CountsAlwaysMatch == Spec => []CountsMatch
<1>1. IInv => CountsMatch
  BY DEF IInv, CountsInv
<1> QED
  BY <1>1, Invariance, PTL

(***************************************************************************)
(* The supply and the stake of every accounts row, taken from what the     *)
(* block's last events report, are the sums of its holder and staker rows, *)
(* built from deltas: for every finite set of accounts, every amount and   *)
(* blocks of any length (SupplyIsWhatIsHeld).                              *)
(***************************************************************************)
THEOREM SupplyAlwaysHeld == Spec => []SupplyIsWhatIsHeld
<1>1. IInv => SupplyIsWhatIsHeld
  BY DEF IInv
<1> QED
  BY <1>1, Invariance, PTL

(***************************************************************************)
(* The rows of each kind carry the indexes 1, 2, 3... in chain order,      *)
(* although each is read from the counter as of its event's ordinal while  *)
(* the block is written at its end (IndexesFollowTheChain).                *)
(***************************************************************************)
THEOREM IndexesAlwaysFollow == Spec => []IndexesFollowTheChain
<1>1. IInv => IndexesFollowTheChain
  BY DEF IInv
<1> QED
  BY <1>1, Invariance, PTL

(***************************************************************************)
(* No count, supply or stake is ever written for an account that has not   *)
(* joined (CountedAccountsJoined).                                         *)
(***************************************************************************)
THEOREM CountedAlwaysJoined == Spec => []CountedAccountsJoined
<1>1. IInv => CountedAccountsJoined
  BY DEF IInv
<1> QED
  BY <1>1, Invariance, PTL

-----------------------------------------------------------------------------
(***************************************************************************)
(* Replaying a block: the table after some logs, when apply says what one  *)
(* log makes of a table.                                                   *)
(***************************************************************************)
Replays(g, base, logs, apply) ==
    /\ g[0] = base
    /\ \A n \in 1..Len(logs) : g[n] = apply[<<logs[n], g[n - 1]>>]

ReplaysTo(V, base, logs, apply, v) ==
    \E g \in [0..Len(logs) -> V] : Replays(g, base, logs, apply) /\ v = g[Len(logs)]

\* One more log is one more step.
LEMMA ReplayOneMore ==
  ASSUME NEW V, NEW base, NEW S, NEW logs \in Seq(S), NEW apply, NEW v, NEW e \in S,
         ReplaysTo(V, base, logs, apply, v), apply[<<e, v>>] \in V
  PROVE  ReplaysTo(V, base, Append(logs, e), apply, apply[<<e, v>>])
<1>0. Len(logs) \in Nat /\ Append(logs, e) \in Seq(S)
  OBVIOUS
<1>1. PICK L \in Nat, more \in Seq(S) : L = Len(logs) /\ more = Append(logs, e)
  BY <1>0
<1>2. /\ Len(more) = L + 1 /\ more[L + 1] = e
      /\ \A n \in 1..L : more[n] = logs[n]
  BY <1>1
<1>3. PICK g \in [0..L -> V] : Replays(g, base, logs, apply) /\ v = g[L]
  BY <1>1 DEF ReplaysTo
<1>4. PICK h : h = [n \in 0..(L + 1) |-> IF n = L + 1 THEN apply[<<e, v>>] ELSE g[n]]
  OBVIOUS
<1>5. /\ 0 \in 0..(L + 1) /\ 0 # L + 1 /\ L + 1 \in 0..(L + 1)
      /\ \A n \in 0..(L + 1) : n = L + 1 \/ n \in 0..L
      /\ \A n \in 1..(L + 1) : /\ n - 1 \in 0..(L + 1) /\ n - 1 # L + 1 /\ n \in 0..(L + 1)
                               /\ n = L + 1 \/ (n # L + 1 /\ n \in 1..L)
      /\ (L + 1) - 1 = L
  OBVIOUS
<1>6. h \in [0..(L + 1) -> V]
  BY <1>3, <1>4, <1>5
<1>7. ASSUME NEW n \in 1..(L + 1) PROVE h[n] = apply[<<more[n], h[n - 1]>>]
  <2>1. h[n - 1] = g[n - 1]
    BY <1>4, <1>5
  <2>2. CASE n = L + 1
    BY <1>2, <1>3, <1>4, <1>5, <2>1, <2>2
  <2>3. CASE n # L + 1
    <3>1. n \in 1..L /\ h[n] = g[n] /\ more[n] = logs[n]
      BY <1>2, <1>4, <1>5, <2>3
    <3>2. g[n] = apply[<<logs[n], g[n - 1]>>]
      BY <1>1, <1>3, <3>1 DEF Replays
    <3> QED
      BY <2>1, <3>1, <3>2
  <2> QED
    BY <2>2, <2>3
<1>8. h[0] = base /\ h[L + 1] = apply[<<e, v>>]
  BY <1>3, <1>4, <1>5 DEF Replays
<1>9. Replays(h, base, more, apply)
  BY <1>2, <1>7, <1>8 DEF Replays
<1> QED
  BY <1>1, <1>2, <1>6, <1>8, <1>9 DEF ReplaysTo

\* No log, or logs that change nothing.
LEMMA ReplayNothing ==
  ASSUME NEW V, NEW base \in V, NEW S, NEW logs \in Seq(S), NEW apply,
         \A n \in 1..Len(logs) : apply[<<logs[n], base>>] = base
  PROVE  ReplaysTo(V, base, logs, apply, base)
<1>1. PICK g : g = [n \in 0..Len(logs) |-> base]
  OBVIOUS
<1>2. Len(logs) \in Nat
  OBVIOUS
<1>3. 0 \in 0..Len(logs) /\ Len(logs) \in 0..Len(logs)
         /\ \A n \in 1..Len(logs) : n \in 0..Len(logs) /\ n - 1 \in 0..Len(logs)
  BY <1>2
<1>4. g \in [0..Len(logs) -> V] /\ Replays(g, base, logs, apply) /\ base = g[Len(logs)]
  BY <1>1, <1>3 DEF Replays
<1> QED
  BY <1>4 DEF ReplaysTo

\* Two functions that begin alike and take the same steps are alike.
LEMMA SameSteps ==
  ASSUME NEW L \in Nat, NEW f, NEW g, f[0] = g[0],
         \A n \in 1..L : f[n - 1] = g[n - 1] => f[n] = g[n]
  PROVE  f[L] = g[L]
<1> DEFINE Differ == {n \in 0..L : f[n] # g[n]}
<1>1. Differ = {}
  <2> SUFFICES ASSUME Differ # {} PROVE FALSE
    OBVIOUS
  <2>1. PICK n \in Differ : \A k \in Differ : n <= k
    <3>1. Differ \subseteq Nat
      OBVIOUS
    <3> HIDE DEF Differ
    <3> QED
      BY <3>1, LeastNumber
  <2>2. n \in 1..L /\ n - 1 \in 0..L /\ ~ (n <= n - 1)
    BY <2>1
  <2>3. f[n - 1] = g[n - 1]
    BY <2>1, <2>2
  <2> QED
    BY <2>1, <2>2, <2>3
<1> QED
  BY <1>1

\* Two finite sets that differ at one element at most.
LEMMA CountStep ==
  ASSUME NEW S, IsFiniteSet(S), NEW A, A \subseteq S, NEW B, B \subseteq S, NEW t,
         A \ {t} = B \ {t}
  PROVE  /\ Cardinality(A) \in Nat /\ Cardinality(B) \in Nat
         /\ Cardinality(B) = Cardinality(A) - (IF t \in A THEN 1 ELSE 0) + (IF t \in B THEN 1 ELSE 0)
<1>1. IsFiniteSet(A) /\ IsFiniteSet(B)
  BY FS_Subset
<1>2. Cardinality(A) \in Nat /\ Cardinality(B) \in Nat
  BY <1>1, FS_CardinalityType
<1>3. /\ Cardinality(A \ {t}) = IF t \in A THEN Cardinality(A) - 1 ELSE Cardinality(A)
      /\ Cardinality(B \ {t}) = IF t \in B THEN Cardinality(B) - 1 ELSE Cardinality(B)
  BY <1>1, FS_RemoveElement
<1> QED
  BY <1>2, <1>3

\* The sums over two such sets of two functions that agree elsewhere.
LEMMA SumStep ==
  ASSUME NEW S, IsFiniteSet(S), NEW A, A \subseteq S, NEW B, B \subseteq S, NEW t, A \ {t} = B \ {t},
         NEW f, NumericOn(f, A), NEW g, NumericOn(g, B), \A x \in A \ {t} : f[x] = g[x]
  PROVE  /\ SumFunctionOnSet(f, A) \in Int
         /\ SumFunctionOnSet(g, B) =
               SumFunctionOnSet(f, A) - (IF t \in A THEN f[t] ELSE 0) + (IF t \in B THEN g[t] ELSE 0)
<1>1. IsFiniteSet(A) /\ IsFiniteSet(B) /\ IsFiniteSet(A \ {t})
  BY FS_Subset
<1>2. NumericOn(f, A \ {t})
  BY DEF NumericOn
<1>3. SumFunctionOnSet(f, A) \in Int /\ SumFunctionOnSet(f, A \ {t}) \in Int
  BY <1>1, <1>2, SumType
<1>4. SumFunctionOnSet(f, A \ {t}) = SumFunctionOnSet(g, B \ {t})
  BY <1>1, SumSame
<1>5. SumFunctionOnSet(f, A) = (IF t \in A THEN f[t] ELSE 0) + SumFunctionOnSet(f, A \ {t})
  <2>1. CASE t \in A
    BY <1>1, <2>1, SumElement
  <2>2. CASE t \notin A
    <3>1. A \ {t} = A
      BY <2>2
    <3> QED
      BY <1>3, <2>2, <3>1
  <2> QED
    BY <2>1, <2>2
<1>6. SumFunctionOnSet(g, B) = (IF t \in B THEN g[t] ELSE 0) + SumFunctionOnSet(g, B \ {t})
  <2>1. CASE t \in B
    BY <1>1, <2>1, SumElement
  <2>2. CASE t \notin B
    <3>1. B \ {t} = B
      BY <2>2
    <3>2. SumFunctionOnSet(g, B) \in Int
      BY <1>1, SumType
    <3> QED
      BY <2>2, <3>1, <3>2
  <2> QED
    BY <2>1, <2>2
<1>7. (t \in A => f[t] \in Int) /\ (t \in B => g[t] \in Int)
  BY DEF NumericOn
<1> QED
  BY <1>3, <1>4, <1>5, <1>6, <1>7
-----------------------------------------------------------------------------
(***************************************************************************)
(* The NFT pool: what a log and a table are, and what each event changes.  *)
(***************************************************************************)
NftLog ==
    [kind : {"NFT_MINING_CREATED"}, own : {FALSE}] \cup
    [kind : {"NFT_BATCH_CREATED", "NFT_BATCH_CLOSED"}, own : {TRUE}, batch : Batches] \cup
    [kind : {"NFT_BATCH_PAUSED_SET"}, own : {TRUE}, batch : Batches, flag : BOOLEAN] \cup
    [kind : {"NFT_MINTED"}, own : {TRUE}, token : Tokens, batch : Batches,
     referrer : Tokens \cup {NoToken}] \cup
    [kind : {"NFT_REFERRAL_RECORDED"}, own : {TRUE}, token : Tokens, child : Tokens] \cup
    [kind : {"NFT_LEVEL_UP"}, own : {TRUE}, token : Tokens, account : Members, level : Int,
     previous : Int, weight : Int] \cup
    [kind : {"NFT_MINING_WEIGHT_MOVED"}, own : BOOLEAN, token : Tokens,
     from : Members \cup {NoOne}, to : Members \cup {NoOne}, weight : Int]

NftPoolRow == [created : BOOLEAN, current : Batches \cup {NoToken}, supply : Int, weight : Int]
BatchRow == [active : BOOLEAN, paused : BOOLEAN, minted : Int]
NftRow == [owner : Members \cup {NoOne}, weight : Int, level : Int, batch : Batches \cup {NoToken},
           referrer : Tokens \cup {NoToken}, referrals : Int]
AccountRow == [count : Int, weight : Int]

NftTable == [pool : NftPoolRow, batches : [Batches -> BatchRow],
             nfts : [Tokens -> NftRow], accounts : [Members -> AccountRow]]

\* One log that the pool sent, and no other.
NftApply == [x \in NftLog \X NftTable |-> IF x[1].own THEN Nft!WriteEvent(x[2], x[1]) ELSE x[2]]

\* What the events make of the tables, column by column.
BatchSet(v, w, b, active, paused) ==
    /\ \A x \in Batches :
          /\ w.batches[x].minted = v.batches[x].minted
          /\ w.batches[x].active = IF x = b THEN active ELSE v.batches[x].active
          /\ w.batches[x].paused = IF x = b THEN paused ELSE v.batches[x].paused
    /\ w.nfts = v.nfts /\ w.accounts = v.accounts

LEMMA BatchMadeRow ==
  ASSUME NEW v \in NftTable, NEW b \in Batches, NEW e, e.batch = b, NEW w, w = Nft!BatchCreatedRow(v, e)
  PROVE  w \in NftTable /\ BatchSet(v, w, b, TRUE, FALSE) /\ w.pool = [v.pool EXCEPT !.current = b]
<1>1. w.nfts = v.nfts /\ w.accounts = v.accounts /\ w.pool = [v.pool EXCEPT !.current = b]
  BY DEF Nft!BatchCreatedRow, NftTable
<1>2. \A x \in Batches : /\ w.batches[x].minted = v.batches[x].minted
                         /\ w.batches[x].active = IF x = b THEN TRUE ELSE v.batches[x].active
                         /\ w.batches[x].paused = IF x = b THEN FALSE ELSE v.batches[x].paused
  BY DEF Nft!BatchCreatedRow, NftTable, BatchRow
<1>3. w.pool \in NftPoolRow
  BY <1>1 DEF NftTable, NftPoolRow
<1>4. w.batches \in [Batches -> BatchRow]
  <2>1. v.batches \in [Batches -> BatchRow] /\ v.batches[b] \in BatchRow
    BY DEF NftTable
  <2>2. PICK row \in BatchRow : row = [v.batches[b] EXCEPT !.active = TRUE, !.paused = FALSE]
    BY <2>1 DEF BatchRow
  <2>3. w.batches = [v.batches EXCEPT ![b] = row]
    BY <2>1, <2>2 DEF Nft!BatchCreatedRow, NftTable, BatchRow
  <2> QED
    BY <2>1, <2>3
<1>5. w \in NftTable
  BY <1>1, <1>3, <1>4 DEF Nft!BatchCreatedRow, NftTable
<1> QED
  BY <1>1, <1>2, <1>5 DEF BatchSet

LEMMA BatchClosedRow ==
  ASSUME NEW v \in NftTable, NEW b \in Batches, NEW w, w = [v EXCEPT !.batches[b].active = FALSE]
  PROVE  w \in NftTable /\ BatchSet(v, w, b, FALSE, v.batches[b].paused) /\ w.pool = v.pool
<1>1. w.pool = v.pool /\ w.nfts = v.nfts /\ w.accounts = v.accounts
  BY DEF NftTable
<1>2. \A x \in Batches : /\ w.batches[x].minted = v.batches[x].minted
                         /\ w.batches[x].active = IF x = b THEN FALSE ELSE v.batches[x].active
                         /\ w.batches[x].paused = IF x = b THEN v.batches[b].paused ELSE v.batches[x].paused
  BY DEF NftTable, BatchRow
<1>3. w.batches \in [Batches -> BatchRow]
  BY DEF NftTable, BatchRow
<1>4. w \in NftTable
  BY <1>1, <1>3 DEF NftTable
<1> QED
  BY <1>1, <1>2, <1>4 DEF BatchSet

LEMMA BatchPausedRow ==
  ASSUME NEW v \in NftTable, NEW b \in Batches, NEW flag \in BOOLEAN,
         NEW w, w = [v EXCEPT !.batches[b].paused = flag]
  PROVE  w \in NftTable /\ BatchSet(v, w, b, v.batches[b].active, flag) /\ w.pool = v.pool
<1>1. w.pool = v.pool /\ w.nfts = v.nfts /\ w.accounts = v.accounts
  BY DEF NftTable
<1>2. \A x \in Batches : /\ w.batches[x].minted = v.batches[x].minted
                         /\ w.batches[x].active = IF x = b THEN v.batches[b].active ELSE v.batches[x].active
                         /\ w.batches[x].paused = IF x = b THEN flag ELSE v.batches[x].paused
  BY DEF NftTable, BatchRow
<1>3. w.batches \in [Batches -> BatchRow]
  BY DEF NftTable, BatchRow
<1>4. w \in NftTable
  BY <1>1, <1>3 DEF NftTable
<1> QED
  BY <1>1, <1>2, <1>4 DEF BatchSet

Minting(v, w, t, b, r) ==
    /\ w.pool = [v.pool EXCEPT !.supply = @ + 1]
    /\ w.batches = [v.batches EXCEPT ![b] = [active |-> v.batches[b].active, paused |-> v.batches[b].paused,
                                             minted |-> v.batches[b].minted + 1]]
    /\ w.nfts = [v.nfts EXCEPT ![t] = [owner |-> v.nfts[t].owner, weight |-> v.nfts[t].weight,
                                       level |-> v.nfts[t].level, batch |-> b, referrer |-> r,
                                       referrals |-> v.nfts[t].referrals]]
    /\ w.accounts = v.accounts

LEMMA MintingRow ==
  ASSUME NEW v \in NftTable, NEW t \in Tokens, NEW b \in Batches, NEW r \in Tokens \cup {NoToken},
         NEW e, e.token = t, e.batch = b, e.referrer = r, NEW w, w = Nft!MintedRow(v, e)
  PROVE  w \in NftTable /\ Minting(v, w, t, b, r)
<1>1. w.accounts = v.accounts /\ w.pool = [v.pool EXCEPT !.supply = @ + 1]
  BY DEF Nft!MintedRow, NftTable
<1>2. w.batches = [v.batches EXCEPT ![b] = [active |-> v.batches[b].active, paused |-> v.batches[b].paused,
                                            minted |-> v.batches[b].minted + 1]]
  BY DEF Nft!MintedRow, NftTable, BatchRow
<1>3. w.nfts = [v.nfts EXCEPT ![t] = [owner |-> v.nfts[t].owner, weight |-> v.nfts[t].weight,
                                      level |-> v.nfts[t].level, batch |-> b, referrer |-> r,
                                      referrals |-> v.nfts[t].referrals]]
  BY DEF Nft!MintedRow, NftTable, NftRow
<1>4. w.pool \in NftPoolRow /\ w.batches \in [Batches -> BatchRow]
  BY <1>1, <1>2 DEF NftTable, NftPoolRow, BatchRow
<1>5. w.nfts \in [Tokens -> NftRow]
  BY <1>3 DEF NftTable, NftRow
<1>6. w \in NftTable
  BY <1>1, <1>4, <1>5 DEF Nft!MintedRow, NftTable
<1> QED
  BY <1>1, <1>2, <1>3, <1>6 DEF Minting

\* The child is another NFT than the referrer.
Referring(v, w, t, c) ==
    /\ \A x \in Tokens :
          w.nfts[x] = [owner |-> v.nfts[x].owner, weight |-> v.nfts[x].weight,
                       level |-> v.nfts[x].level, batch |-> v.nfts[x].batch,
                       referrer |-> IF x = c THEN t ELSE v.nfts[x].referrer,
                       referrals |-> IF x = t THEN v.nfts[x].referrals + 1 ELSE v.nfts[x].referrals]
    /\ w.pool = v.pool /\ w.batches = v.batches /\ w.accounts = v.accounts

LEMMA ReferringRow ==
  ASSUME NEW v \in NftTable, NEW t \in Tokens, NEW c \in Tokens, NEW e, e.token = t, e.child = c,
         NEW w, w = Nft!ReferralRow(v, e)
  PROVE  w \in NftTable /\ Referring(v, w, t, c)
<1>1. w.pool = v.pool /\ w.batches = v.batches /\ w.accounts = v.accounts
  BY DEF Nft!ReferralRow, NftTable
<1>2. ASSUME NEW x \in Tokens
      PROVE w.nfts[x] = [owner |-> v.nfts[x].owner, weight |-> v.nfts[x].weight,
                         level |-> v.nfts[x].level, batch |-> v.nfts[x].batch,
                         referrer |-> IF x = c THEN t ELSE v.nfts[x].referrer,
                         referrals |-> IF x = t THEN v.nfts[x].referrals + 1 ELSE v.nfts[x].referrals]
  <2>1. v.nfts \in [Tokens -> NftRow] /\ v.nfts[x] \in NftRow /\ v.nfts[t] \in NftRow
    BY DEF NftTable
  <2> QED
    BY <2>1 DEF Nft!ReferralRow, NftTable, NftRow
<1>3. w.nfts \in [Tokens -> NftRow]
  BY DEF Nft!ReferralRow, NftTable, NftRow
<1>4. w \in NftTable
  BY <1>1, <1>3 DEF Nft!ReferralRow, NftTable
<1> QED
  BY <1>1, <1>2, <1>4 DEF Referring

Levelling(v, w, t, a, level, previous, weight) ==
    /\ w.pool = [v.pool EXCEPT !.weight = @ + (weight - previous)]
    /\ w.nfts = [v.nfts EXCEPT ![t] = [owner |-> v.nfts[t].owner, weight |-> weight, level |-> level,
                                       batch |-> v.nfts[t].batch, referrer |-> v.nfts[t].referrer,
                                       referrals |-> v.nfts[t].referrals]]
    /\ w.accounts = [v.accounts EXCEPT ![a] = [count |-> v.accounts[a].count,
                                               weight |-> v.accounts[a].weight + (weight - previous)]]
    /\ w.batches = v.batches

LEMMA LevellingRow ==
  ASSUME NEW v \in NftTable, NEW t \in Tokens, NEW a \in Members,
         NEW level \in Int, NEW previous \in Int, NEW weight \in Int,
         NEW e, e.token = t, e.account = a, e.level = level, e.previous = previous, e.weight = weight,
         NEW w, w = Nft!LevelUpRow(v, e)
  PROVE  w \in NftTable /\ Levelling(v, w, t, a, level, previous, weight)
<1>1. w.batches = v.batches /\ w.pool = [v.pool EXCEPT !.weight = @ + (weight - previous)]
  BY DEF Nft!LevelUpRow, NftTable
<1>2. w.nfts = [v.nfts EXCEPT ![t] = [owner |-> v.nfts[t].owner, weight |-> weight, level |-> level,
                                      batch |-> v.nfts[t].batch, referrer |-> v.nfts[t].referrer,
                                      referrals |-> v.nfts[t].referrals]]
  BY DEF Nft!LevelUpRow, NftTable, NftRow
<1>3. w.accounts = [v.accounts EXCEPT ![a] = [count |-> v.accounts[a].count,
                                              weight |-> v.accounts[a].weight + (weight - previous)]]
  BY DEF Nft!LevelUpRow, NftTable, AccountRow
<1>4. w.pool \in NftPoolRow /\ w.nfts \in [Tokens -> NftRow]
  BY <1>1, <1>2 DEF NftTable, NftPoolRow, NftRow
<1>5. w.accounts \in [Members -> AccountRow]
  BY <1>3 DEF NftTable, AccountRow
<1>6. w \in NftTable
  BY <1>1, <1>4, <1>5 DEF Nft!LevelUpRow, NftTable
<1> QED
  BY <1>1, <1>2, <1>3, <1>6 DEF Levelling

If(condition, n) == IF condition THEN n ELSE 0

Moving(v, w, t, from, to, k) ==
    /\ w.pool = [v.pool EXCEPT !.weight = @ + If(from = NoOne, k) - If(to = NoOne, k)]
    /\ w.nfts = [v.nfts EXCEPT ![t] = [owner |-> to, weight |-> k, level |-> v.nfts[t].level,
                                       batch |-> v.nfts[t].batch, referrer |-> v.nfts[t].referrer,
                                       referrals |-> v.nfts[t].referrals]]
    /\ \A a \in Members :
          w.accounts[a] = [count |-> v.accounts[a].count - If(a = from, 1) + If(a = to, 1),
                           weight |-> v.accounts[a].weight - If(a = from, k) + If(a = to, k)]
    /\ w.batches = v.batches

Crediting(v, w, who, n, k) ==
    /\ w.pool = v.pool /\ w.nfts = v.nfts /\ w.batches = v.batches
    /\ \A a \in Members :
          w.accounts[a] = [count |-> v.accounts[a].count + If(a = who, n),
                           weight |-> v.accounts[a].weight + If(a = who, k)]

LEMMA CreditRow ==
  ASSUME NEW v \in NftTable, NEW who \in Members \cup {NoOne}, NEW n \in Int, NEW k \in Int,
         NEW w, w = Nft!Credit(v, who, n, k)
  PROVE  w \in NftTable /\ Crediting(v, w, who, n, k)
<1>0. v.accounts \in [Members -> AccountRow] /\ NoOne \notin Members
  BY MiningAssumption DEF NftTable
<1>1. CASE who = NoOne
  <2>1. w = v
    BY <1>1 DEF Nft!Credit
  <2> QED
    BY <1>0, <1>1, <2>1 DEF If, AccountRow, Crediting
<1>2. CASE who # NoOne
  <2>1. w = [v EXCEPT !.accounts[who].count = @ + n, !.accounts[who].weight = @ + k]
    BY <1>2 DEF Nft!Credit
  <2>2. who \in Members
    BY <1>2
  <2>3. w.pool = v.pool /\ w.nfts = v.nfts /\ w.batches = v.batches
    BY <2>1 DEF NftTable
  <2>4. w.accounts = [v.accounts EXCEPT ![who] = [count |-> v.accounts[who].count + n,
                                                  weight |-> v.accounts[who].weight + k]]
    BY <1>0, <2>1, <2>2 DEF NftTable, AccountRow
  <2>5. w.accounts \in [Members -> AccountRow]
    BY <1>0, <2>2, <2>4 DEF AccountRow
  <2>6. w \in NftTable
    BY <2>1, <2>3, <2>5 DEF NftTable
  <2>7. ASSUME NEW a \in Members
        PROVE w.accounts[a] = [count |-> v.accounts[a].count + If(a = who, n),
                               weight |-> v.accounts[a].weight + If(a = who, k)]
    <3>1. v.accounts[a] \in AccountRow
      BY <1>0
    <3> QED
      BY <1>0, <2>2, <2>4, <3>1 DEF AccountRow, If
  <2> QED
    BY <2>3, <2>6, <2>7 DEF Crediting
<1> QED
  BY <1>1, <1>2

LEMMA MovingRow ==
  ASSUME NEW v \in NftTable, NEW t \in Tokens, NEW from \in Members \cup {NoOne},
         NEW to \in Members \cup {NoOne}, NEW k \in Int,
         NEW e, e.token = t, e.from = from, e.to = to, e.weight = k,
         NEW w, w = Nft!MovedRow(v, e)
  PROVE  w \in NftTable /\ Moving(v, w, t, from, to, k)
<1>1. PICK row : row = [v EXCEPT !.nfts[t].owner = to, !.nfts[t].weight = k,
                                 !.pool.weight = @ + (IF from = NoOne THEN k ELSE 0)
                                                   - (IF to = NoOne THEN k ELSE 0)]
  OBVIOUS
<1>2. PICK u : u = Nft!Credit(row, from, -1, -k)
  OBVIOUS
<1>3. w = Nft!Credit(u, to, 1, k)
  BY <1>1, <1>2 DEF Nft!MovedRow
<1>4. /\ row.batches = v.batches /\ row.accounts = v.accounts
      /\ row.pool = [v.pool EXCEPT !.weight = @ + If(from = NoOne, k) - If(to = NoOne, k)]
  BY <1>1 DEF NftTable, If
<1>5. row.nfts = [v.nfts EXCEPT ![t] = [owner |-> to, weight |-> k, level |-> v.nfts[t].level,
                                        batch |-> v.nfts[t].batch, referrer |-> v.nfts[t].referrer,
                                        referrals |-> v.nfts[t].referrals]]
  BY <1>1 DEF NftTable, NftRow
<1>6. row.pool \in NftPoolRow /\ row.nfts \in [Tokens -> NftRow]
  BY <1>4, <1>5 DEF NftTable, NftPoolRow, NftRow, If
<1>7. row \in NftTable
  BY <1>1, <1>4, <1>6 DEF NftTable
<1>8. -1 \in Int /\ -k \in Int /\ 1 \in Int
  OBVIOUS
<1>9. u \in NftTable /\ Crediting(row, u, from, -1, -k)
  BY ONLY <1>2, <1>7, <1>8, from \in Members \cup {NoOne}, CreditRow
<1>10. w \in NftTable /\ Crediting(u, w, to, 1, k)
  BY ONLY <1>3, <1>8, <1>9, to \in Members \cup {NoOne}, k \in Int, CreditRow
<1>11. ASSUME NEW a \in Members
       PROVE w.accounts[a] = [count |-> v.accounts[a].count - If(a = from, 1) + If(a = to, 1),
                              weight |-> v.accounts[a].weight - If(a = from, k) + If(a = to, k)]
  <2>1. v.accounts[a] \in AccountRow
    BY DEF NftTable
  <2>2. u.accounts[a] = [count |-> v.accounts[a].count + If(a = from, -1),
                         weight |-> v.accounts[a].weight + If(a = from, -k)]
    BY <1>4, <1>9 DEF Crediting
  <2>3. /\ v.accounts[a].count + If(a = from, -1) = v.accounts[a].count - If(a = from, 1)
        /\ v.accounts[a].weight + If(a = from, -k) = v.accounts[a].weight - If(a = from, k)
    BY <2>1 DEF If, AccountRow
  <2> QED
    BY ONLY <1>10, <2>2, <2>3, a \in Members DEF Crediting
<1> QED
  BY <1>4, <1>5, <1>9, <1>10, <1>11 DEF Moving, Crediting

-----------------------------------------------------------------------------
(***************************************************************************)
(* The invariant: replaying the block's logs over the tables gives the     *)
(* rows of the NFTs as the contract has them now.                          *)
(***************************************************************************)
NftState == [owner : Members \cup {NoOne}, level : Nat, batch : Batches \cup {NoToken},
             referrer : Tokens \cup {NoToken}]

NftTypes ==
    /\ pool \in {"absent", "created"}
    /\ open \in [Batches -> {"absent", "active", "paused", "closed"}]
    /\ nfts \in [Tokens -> NftState]
    /\ nftLogs \in Seq(NftLog)
    /\ nftKnown \in BOOLEAN
    /\ nftRows \in NftTable

\* Nothing happens before the pool is created.
AfterCreation ==
    \/ pool = "created"
    \/ /\ ~nftKnown
       /\ \A b \in Batches : open[b] = "absent"
       /\ \A t \in Tokens : ~Nft!Minted(t)
       /\ \A n \in 1..Len(nftLogs) : ~nftLogs[n].own

UnmintedAreBlank == \A t \in Tokens : Nft!Minted(t) \/ nfts[t] = Nft!Unminted

\* The factory announces a pool once, in the block that creates it.
AnnouncedOnce ==
    IF pool = "created" /\ ~nftKnown THEN \E n \in Nat : Nft!FactoryEvents = {n}
    ELSE Nft!FactoryEvents = {}

OpenRows(v) ==
    /\ v.pool.created = (pool = "created")
    /\ \A b \in Batches :
          /\ v.batches[b].active = (open[b] \in {"active", "paused"})
          /\ open[b] = "paused" => v.batches[b].paused
          /\ open[b] = "active" => ~v.batches[b].paused

TokenRows(v) ==
    \A t \in Tokens :
        /\ v.nfts[t].owner = nfts[t].owner
        /\ v.nfts[t].level = nfts[t].level
        /\ v.nfts[t].batch = nfts[t].batch
        /\ v.nfts[t].referrer = nfts[t].referrer
        /\ Nft!Minted(t) => v.nfts[t].weight = Nft!Weight(nfts[t].level)

ReferredBy(t) == {c \in Tokens : nfts[c].referrer = t}
OfBatch(b) == {t \in Tokens : nfts[t].batch = b}
AllMinted == {t \in Tokens : Nft!Minted(t)}

CountRows(v) ==
    /\ v.pool.supply = Cardinality(AllMinted)
    /\ \A t \in Tokens : v.nfts[t].referrals = Cardinality(ReferredBy(t))
    /\ \A b \in Batches : v.batches[b].minted = Cardinality(OfBatch(b))

WeightRows(v) ==
    /\ v.pool.weight = Nft!SumOfWeights(Nft!Owned(Members))
    /\ \A a \in Members :
          /\ v.accounts[a].weight = Nft!SumOfWeights(Nft!Owned({a}))
          /\ v.accounts[a].count = Cardinality(Nft!Owned({a}))

NftFollows(v) == OpenRows(v) /\ TokenRows(v) /\ CountRows(v) /\ WeightRows(v)

NftReplayed(v) == ReplaysTo(NftTable, Nft!FactoryRows, nftLogs, NftApply, v)

NftPending == \E v \in NftTable : NftReplayed(v) /\ NftFollows(v)

NftInv == NftTypes /\ AfterCreation /\ UnmintedAreBlank /\ AnnouncedOnce /\ NftPending

-----------------------------------------------------------------------------
\* The module's sum is the library's.
LEMMA SameSums ==
  \A f, S : Nft!SumFunctionOnSet(f, S) = SumFunctionOnSet(f, S)
BY DEF Nft!SumFunctionOnSet, Nft!FoldFunctionOnSet, Nft!MapThenFoldSet,
       SumFunctionOnSet, FoldFunctionOnSet, MapThenFoldSet

\* What an NFT that goes from one owner to another, or changes its level,
\* takes from the weight and the number of some accounts' NFTs and adds to
\* them.
LEMMA OwnedStep ==
  ASSUME nfts \in [Tokens -> NftState], nfts' \in [Tokens -> NftState], NEW t \in Tokens,
         \A x \in Tokens \ {t} : nfts'[x] = nfts[x],
         NEW X
  PROVE  /\ Nft!SumOfWeights(Nft!Owned(X)) \in Int /\ Cardinality(Nft!Owned(X)) \in Nat
         /\ Nft!SumOfWeights(Nft!Owned(X))' =
               Nft!SumOfWeights(Nft!Owned(X)) - If(nfts[t].owner \in X, nfts[t].level + 1)
                                              + If(nfts'[t].owner \in X, nfts'[t].level + 1)
         /\ Cardinality(Nft!Owned(X))' =
               Cardinality(Nft!Owned(X)) - If(nfts[t].owner \in X, 1) + If(nfts'[t].owner \in X, 1)
<1>1. PICK A, B, f, g : /\ A = Nft!Owned(X) /\ B = Nft!Owned(X)'
                        /\ f = [x \in Tokens |-> nfts[x].level + 1]
                        /\ g = [x \in Tokens |-> nfts'[x].level + 1]
  OBVIOUS
<1>2. /\ A = {x \in Tokens : nfts[x].owner \in X}
      /\ B = {x \in Tokens : nfts'[x].owner \in X}
  BY <1>1 DEF Nft!Owned
<1>3. /\ Nft!SumOfWeights(Nft!Owned(X)) = SumFunctionOnSet(f, A)
      /\ Nft!SumOfWeights(Nft!Owned(X))' = SumFunctionOnSet(g, B)
  <2>1. /\ Nft!SumOfWeights(Nft!Owned(X)) =
              Nft!SumFunctionOnSet([x \in Tokens |-> nfts[x].level + 1], Nft!Owned(X))
        /\ Nft!SumOfWeights(Nft!Owned(X))' =
              Nft!SumFunctionOnSet([x \in Tokens |-> nfts'[x].level + 1], Nft!Owned(X)')
    BY DEF Nft!SumOfWeights, Nft!Weight
  <2>2. \A h, S : Nft!SumFunctionOnSet(h, S) = SumFunctionOnSet(h, S)
    BY SameSums
  <2> QED
    BY <1>1, <2>1, <2>2
<1>4. A \subseteq Tokens /\ B \subseteq Tokens /\ A \ {t} = B \ {t} /\ IsFiniteSet(Tokens)
  BY <1>2, MiningAssumption
<1>5. NumericOn(f, A) /\ NumericOn(g, B) /\ \A x \in A \ {t} : f[x] = g[x]
  BY <1>1, <1>4 DEF NumericOn, NftState
<1>6. /\ SumFunctionOnSet(f, A) \in Int
      /\ SumFunctionOnSet(g, B) =
            SumFunctionOnSet(f, A) - (IF t \in A THEN f[t] ELSE 0) + (IF t \in B THEN g[t] ELSE 0)
  BY ONLY <1>4, <1>5, SumStep
<1>7. /\ Cardinality(A) \in Nat
      /\ Cardinality(B) = Cardinality(A) - (IF t \in A THEN 1 ELSE 0) + (IF t \in B THEN 1 ELSE 0)
  BY <1>4, CountStep
<1>8. (t \in A <=> nfts[t].owner \in X) /\ (t \in B <=> nfts'[t].owner \in X)
  BY <1>2
<1>9. f[t] = nfts[t].level + 1 /\ g[t] = nfts'[t].level + 1
  BY <1>1
<1> QED
  BY <1>1, <1>3, <1>6, <1>7, <1>8, <1>9 DEF If

WeightMoved(v, w, from, to, k) ==
    /\ w.pool.weight = v.pool.weight + If(from = NoOne, k) - If(to = NoOne, k)
    /\ \A a \in Members :
          /\ w.accounts[a].count = v.accounts[a].count - If(a = from, 1) + If(a = to, 1)
          /\ w.accounts[a].weight = v.accounts[a].weight - If(a = from, k) + If(a = to, k)

LEMMA WeightsMove ==
  ASSUME nfts \in [Tokens -> NftState], nfts' \in [Tokens -> NftState], NEW t \in Tokens,
         \A x \in Tokens \ {t} : nfts'[x] = nfts[x],
         NEW v \in NftTable, NEW w \in NftTable, NEW from \in Members \cup {NoOne},
         NEW to \in Members \cup {NoOne}, NEW k \in Nat,
         nfts[t].owner = from, nfts'[t].owner = to, nfts[t].level + 1 = k, nfts'[t].level + 1 = k,
         WeightMoved(v, w, from, to, k), WeightRows(v)
  PROVE  WeightRows(w)'
<1>0. /\ from \in Members <=> from # NoOne
      /\ to \in Members <=> to # NoOne
  BY MiningAssumption
<1>1. w.pool.weight = Nft!SumOfWeights(Nft!Owned(Members))'
  <2>1. /\ Nft!SumOfWeights(Nft!Owned(Members)) \in Int
        /\ Nft!SumOfWeights(Nft!Owned(Members))' =
              Nft!SumOfWeights(Nft!Owned(Members)) - If(from \in Members, k) + If(to \in Members, k)
    BY OwnedStep
  <2> QED
    BY <1>0, <2>1 DEF WeightMoved, WeightRows, If
<1>2. ASSUME NEW a \in Members
      PROVE  /\ w.accounts[a].weight = Nft!SumOfWeights(Nft!Owned({a}))'
             /\ w.accounts[a].count = Cardinality(Nft!Owned({a}))'
  <2>1. /\ Nft!SumOfWeights(Nft!Owned({a})) \in Int /\ Cardinality(Nft!Owned({a})) \in Nat
        /\ Nft!SumOfWeights(Nft!Owned({a}))' =
              Nft!SumOfWeights(Nft!Owned({a})) - If(from \in {a}, k) + If(to \in {a}, k)
        /\ Cardinality(Nft!Owned({a}))' =
              Cardinality(Nft!Owned({a})) - If(from \in {a}, 1) + If(to \in {a}, 1)
    BY OwnedStep
  <2> QED
    BY <2>1 DEF WeightMoved, WeightRows, If
<1> QED
  BY <1>1, <1>2 DEF WeightRows

LEMMA WeightsLevel ==
  ASSUME nfts \in [Tokens -> NftState], nfts' \in [Tokens -> NftState], NEW t \in Tokens,
         \A x \in Tokens \ {t} : nfts'[x] = nfts[x],
         NEW v \in NftTable, NEW w \in NftTable, NEW a \in Members, NEW level \in Nat,
         nfts[t].owner = a, nfts'[t].owner = a, nfts[t].level = level, nfts'[t].level = level + 1,
         Levelling(v, w, t, a, level + 1, level + 1, level + 2), WeightRows(v)
  PROVE  WeightRows(w)'
<1>1. w.pool.weight = Nft!SumOfWeights(Nft!Owned(Members))'
  <2>1. /\ Nft!SumOfWeights(Nft!Owned(Members)) \in Int
        /\ Nft!SumOfWeights(Nft!Owned(Members))' =
              Nft!SumOfWeights(Nft!Owned(Members)) - If(a \in Members, level + 1)
                                                   + If(a \in Members, level + 1 + 1)
    BY OwnedStep
  <2>2. w.pool.weight = v.pool.weight + 1
    BY DEF Levelling, NftTable, NftPoolRow
  <2> QED
    BY <2>1, <2>2 DEF WeightRows, If
<1>2. ASSUME NEW c \in Members
      PROVE  /\ w.accounts[c].weight = Nft!SumOfWeights(Nft!Owned({c}))'
             /\ w.accounts[c].count = Cardinality(Nft!Owned({c}))'
  <2>1. /\ Nft!SumOfWeights(Nft!Owned({c})) \in Int /\ Cardinality(Nft!Owned({c})) \in Nat
        /\ Nft!SumOfWeights(Nft!Owned({c}))' =
              Nft!SumOfWeights(Nft!Owned({c})) - If(a \in {c}, level + 1)
                                               + If(a \in {c}, level + 1 + 1)
        /\ Cardinality(Nft!Owned({c}))' =
              Cardinality(Nft!Owned({c})) - If(a \in {c}, 1) + If(a \in {c}, 1)
    BY OwnedStep
  <2>2. /\ w.accounts[c].weight = v.accounts[c].weight + If(a = c, 1)
        /\ w.accounts[c].count = v.accounts[c].count
    BY DEF Levelling, NftTable, AccountRow, If
  <2> QED
    BY <2>1, <2>2 DEF WeightRows, If
<1> QED
  BY <1>1, <1>2 DEF WeightRows

-----------------------------------------------------------------------------
(***************************************************************************)
(* A mint: its two logs in either order, and the referral that may follow. *)
(***************************************************************************)
MintMoved(v, w, t, who, b, r, k) ==
    /\ w.pool.created = v.pool.created
    /\ w.pool.supply = v.pool.supply + 1
    /\ WeightMoved(v, w, NoOne, who, k)
    /\ \A x \in Batches :
          /\ w.batches[x].active = v.batches[x].active
          /\ w.batches[x].paused = v.batches[x].paused
          /\ w.batches[x].minted = v.batches[x].minted + If(x = b, 1)
    /\ \A x \in Tokens :
          w.nfts[x] = IF x = t
                      THEN [owner |-> who, weight |-> k, level |-> v.nfts[t].level, batch |-> b,
                            referrer |-> r, referrals |-> v.nfts[t].referrals]
                      ELSE v.nfts[x]

LEMMA MintingThenMoving ==
  ASSUME NEW v \in NftTable, NEW u \in NftTable, NEW w \in NftTable, NEW t \in Tokens,
         NEW who \in Members, NEW b \in Batches, NEW r \in Tokens \cup {NoToken}, NEW k \in Nat,
         Minting(v, u, t, b, r), Moving(u, w, t, NoOne, who, k)
  PROVE  MintMoved(v, w, t, who, b, r, k)
<1>1. /\ w.pool.created = v.pool.created /\ w.pool.supply = v.pool.supply + 1
      /\ w.pool.weight = v.pool.weight + If(NoOne = NoOne, k) - If(who = NoOne, k)
  BY DEF Minting, Moving, NftTable, NftPoolRow
<1>2. WeightMoved(v, w, NoOne, who, k)
  <2>1. ASSUME NEW a \in Members
        PROVE  /\ w.accounts[a].count = v.accounts[a].count - If(a = NoOne, 1) + If(a = who, 1)
               /\ w.accounts[a].weight = v.accounts[a].weight - If(a = NoOne, k) + If(a = who, k)
    <3>1. u.accounts = v.accounts
      BY DEF Minting
    <3>2. w.accounts[a] = [count |-> u.accounts[a].count - If(a = NoOne, 1) + If(a = who, 1),
                           weight |-> u.accounts[a].weight - If(a = NoOne, k) + If(a = who, k)]
      BY DEF Moving
    <3> QED
      BY <3>1, <3>2
  <2> QED
    BY <1>1, <2>1 DEF WeightMoved
<1>3. \A x \in Batches :
          /\ w.batches[x].active = v.batches[x].active
          /\ w.batches[x].paused = v.batches[x].paused
          /\ w.batches[x].minted = v.batches[x].minted + If(x = b, 1)
  BY DEF Minting, Moving, NftTable, BatchRow, If
<1>4. \A x \in Tokens :
          w.nfts[x] = IF x = t
                      THEN [owner |-> who, weight |-> k, level |-> v.nfts[t].level, batch |-> b,
                            referrer |-> r, referrals |-> v.nfts[t].referrals]
                      ELSE v.nfts[x]
  BY DEF Minting, Moving, NftTable, NftRow
<1> QED
  BY <1>1, <1>2, <1>3, <1>4 DEF MintMoved

LEMMA MovingThenMinting ==
  ASSUME NEW v \in NftTable, NEW u \in NftTable, NEW w \in NftTable, NEW t \in Tokens,
         NEW who \in Members, NEW b \in Batches, NEW r \in Tokens \cup {NoToken}, NEW k \in Nat,
         Moving(v, u, t, NoOne, who, k), Minting(u, w, t, b, r)
  PROVE  MintMoved(v, w, t, who, b, r, k)
<1>1. /\ w.pool.created = v.pool.created /\ w.pool.supply = v.pool.supply + 1
      /\ w.pool.weight = v.pool.weight + If(NoOne = NoOne, k) - If(who = NoOne, k)
  BY DEF Minting, Moving, NftTable, NftPoolRow
<1>2. WeightMoved(v, w, NoOne, who, k)
  <2>1. ASSUME NEW a \in Members
        PROVE  /\ w.accounts[a].count = v.accounts[a].count - If(a = NoOne, 1) + If(a = who, 1)
               /\ w.accounts[a].weight = v.accounts[a].weight - If(a = NoOne, k) + If(a = who, k)
    <3>1. w.accounts = u.accounts
      BY DEF Minting
    <3>2. u.accounts[a] = [count |-> v.accounts[a].count - If(a = NoOne, 1) + If(a = who, 1),
                           weight |-> v.accounts[a].weight - If(a = NoOne, k) + If(a = who, k)]
      BY DEF Moving
    <3> QED
      BY <3>1, <3>2
  <2> QED
    BY <1>1, <2>1 DEF WeightMoved
<1>3. \A x \in Batches :
          /\ w.batches[x].active = v.batches[x].active
          /\ w.batches[x].paused = v.batches[x].paused
          /\ w.batches[x].minted = v.batches[x].minted + If(x = b, 1)
  BY DEF Minting, Moving, NftTable, BatchRow, If
<1>4. \A x \in Tokens :
          w.nfts[x] = IF x = t
                      THEN [owner |-> who, weight |-> k, level |-> v.nfts[t].level, batch |-> b,
                            referrer |-> r, referrals |-> v.nfts[t].referrals]
                      ELSE v.nfts[x]
  BY DEF Minting, Moving, NftTable, NftRow
<1> QED
  BY <1>1, <1>2, <1>3, <1>4 DEF MintMoved

\* The contract's side of a mint.
Mints(t, who, b, r) ==
    /\ ~Nft!Minted(t) /\ open[b] = "active"
    /\ r # NoToken => Nft!Minted(r)
    /\ nfts' = [nfts EXCEPT ![t] = [owner |-> who, level |-> 0, batch |-> b, referrer |-> r]]
    /\ UNCHANGED <<pool, open>>

LEMMA MintedState ==
  ASSUME NftTypes, UnmintedAreBlank, NEW t \in Tokens, NEW who \in Members, NEW b \in Batches,
         NEW r \in Tokens \cup {NoToken}, Mints(t, who, b, r)
  PROVE  /\ nfts' \in [Tokens -> NftState]
         /\ \A x \in Tokens \ {t} : nfts'[x] = nfts[x]
         /\ nfts'[t] = [owner |-> who, level |-> 0, batch |-> b, referrer |-> r]
         /\ nfts[t] = [owner |-> NoOne, level |-> 0, batch |-> NoToken, referrer |-> NoToken]
         /\ r # t /\ b # NoToken
<1>1. nfts \in [Tokens -> NftState] /\ NoToken \notin Tokens /\ NoToken \notin Batches
  BY MiningAssumption DEF NftTypes
<1>2. nfts[t] = Nft!Unminted
  BY DEF UnmintedAreBlank, Mints
<1>3. r # t
  BY <1>1 DEF Mints
<1>4. nfts' \in [Tokens -> NftState]
  BY <1>1 DEF Mints, NftState
<1> QED
  BY <1>1, <1>2, <1>3, <1>4 DEF Mints, Nft!Unminted

LEMMA MintCounts ==
  ASSUME NftTypes, UnmintedAreBlank, NEW t \in Tokens, NEW who \in Members, NEW b \in Batches,
         NEW r \in Tokens \cup {NoToken}, Mints(t, who, b, r)
  PROVE  /\ Cardinality(AllMinted) \in Nat /\ Cardinality(AllMinted)' = Cardinality(AllMinted) + 1
         /\ \A x \in Batches : /\ Cardinality(OfBatch(x)) \in Nat
                               /\ Cardinality(OfBatch(x))' = Cardinality(OfBatch(x)) + If(x = b, 1)
         /\ \A x \in Tokens : /\ Cardinality(ReferredBy(x)) \in Nat
                              /\ Cardinality(ReferredBy(x))' = Cardinality(ReferredBy(x)) + If(x = r, 1)
<1>1. /\ nfts' \in [Tokens -> NftState]
      /\ \A x \in Tokens \ {t} : nfts'[x] = nfts[x]
      /\ nfts'[t] = [owner |-> who, level |-> 0, batch |-> b, referrer |-> r]
      /\ nfts[t] = [owner |-> NoOne, level |-> 0, batch |-> NoToken, referrer |-> NoToken]
      /\ r # t /\ b # NoToken
  BY MintedState
<1>2. IsFiniteSet(Tokens) /\ NoToken \notin Tokens /\ NoToken \notin Batches
  BY MiningAssumption
<1>3. Cardinality(AllMinted) \in Nat /\ Cardinality(AllMinted)' = Cardinality(AllMinted) + 1
  <2>1. PICK A, B : A = AllMinted /\ B = AllMinted'
    OBVIOUS
  <2>2. /\ A \subseteq Tokens /\ B \subseteq Tokens /\ A \ {t} = B \ {t} /\ t \notin A /\ t \in B
    BY <1>1, <2>1 DEF AllMinted, Nft!Minted
  <2>3. Cardinality(A) \in Nat /\ Cardinality(B) = Cardinality(A) - 0 + 1
    BY <1>2, <2>2, CountStep
  <2> QED
    BY <2>1, <2>3
<1>4. ASSUME NEW x \in Batches
      PROVE /\ Cardinality(OfBatch(x)) \in Nat
            /\ Cardinality(OfBatch(x))' = Cardinality(OfBatch(x)) + If(x = b, 1)
  <2>1. PICK A, B : A = OfBatch(x) /\ B = OfBatch(x)'
    OBVIOUS
  <2>2. /\ A \subseteq Tokens /\ B \subseteq Tokens /\ A \ {t} = B \ {t}
        /\ t \notin A /\ (t \in B <=> x = b)
    BY <1>1, <1>2, <2>1 DEF OfBatch
  <2>3. /\ Cardinality(A) \in Nat
        /\ Cardinality(B) = Cardinality(A) - (IF t \in A THEN 1 ELSE 0) + (IF t \in B THEN 1 ELSE 0)
    BY <1>2, <2>2, CountStep
  <2> QED
    BY <2>1, <2>2, <2>3 DEF If
<1>5. ASSUME NEW x \in Tokens
      PROVE /\ Cardinality(ReferredBy(x)) \in Nat
            /\ Cardinality(ReferredBy(x))' = Cardinality(ReferredBy(x)) + If(x = r, 1)
  <2>1. PICK A, B : A = ReferredBy(x) /\ B = ReferredBy(x)'
    OBVIOUS
  <2>2. /\ A \subseteq Tokens /\ B \subseteq Tokens /\ A \ {t} = B \ {t}
        /\ t \notin A /\ (t \in B <=> x = r)
    BY <1>1, <1>2, <2>1 DEF ReferredBy
  <2>3. /\ Cardinality(A) \in Nat
        /\ Cardinality(B) = Cardinality(A) - (IF t \in A THEN 1 ELSE 0) + (IF t \in B THEN 1 ELSE 0)
    BY <1>2, <2>2, CountStep
  <2> QED
    BY <2>1, <2>2, <2>3 DEF If
<1> QED
  BY <1>3, <1>4, <1>5

\* A mint without or with a referrer.
LEMMA MintFollows ==
  ASSUME NftTypes, UnmintedAreBlank, NEW t \in Tokens, NEW who \in Members, NEW b \in Batches,
         NEW r \in Tokens \cup {NoToken}, Mints(t, who, b, r),
         NEW v \in NftTable, NEW u \in NftTable, NEW w \in NftTable,
         NftFollows(v), MintMoved(v, u, t, who, b, r, 1),
         IF r = NoToken THEN w = u ELSE Referring(u, w, r, t)
  PROVE  NftFollows(w)'
<1>1. /\ nfts' \in [Tokens -> NftState]
      /\ \A x \in Tokens \ {t} : nfts'[x] = nfts[x]
      /\ nfts'[t] = [owner |-> who, level |-> 0, batch |-> b, referrer |-> r]
      /\ nfts[t] = [owner |-> NoOne, level |-> 0, batch |-> NoToken, referrer |-> NoToken]
      /\ r # t /\ b # NoToken
  BY MintedState
<1>2. w.pool = u.pool /\ w.batches = u.batches /\ w.accounts = u.accounts
  BY DEF Referring
<1>3. ASSUME NEW x \in Tokens
      PROVE  /\ w.nfts[x].owner = u.nfts[x].owner /\ w.nfts[x].weight = u.nfts[x].weight
             /\ w.nfts[x].level = u.nfts[x].level /\ w.nfts[x].batch = u.nfts[x].batch
             /\ w.nfts[x].referrer = IF x = t /\ r # NoToken THEN r ELSE u.nfts[x].referrer
             /\ w.nfts[x].referrals = u.nfts[x].referrals + If(x = r, 1)
  <2>1. u.nfts[x].referrals \in Int
    BY DEF NftTable, NftRow
  <2>2. CASE r = NoToken
    <3>1. w = u /\ x # r
      BY <2>2, MiningAssumption
    <3> QED
      BY <2>1, <2>2, <3>1 DEF If
  <2>3. CASE r # NoToken
    <3>1. w.nfts[x] = [owner |-> u.nfts[x].owner, weight |-> u.nfts[x].weight,
                       level |-> u.nfts[x].level, batch |-> u.nfts[x].batch,
                       referrer |-> IF x = t THEN r ELSE u.nfts[x].referrer,
                       referrals |-> IF x = r THEN u.nfts[x].referrals + 1 ELSE u.nfts[x].referrals]
      BY <2>3 DEF Referring
    <3>2. (IF x = r THEN u.nfts[x].referrals + 1 ELSE u.nfts[x].referrals) = u.nfts[x].referrals + If(x = r, 1)
      BY <2>1 DEF If
    <3> QED
      BY <2>3, <3>1, <3>2
  <2> QED
    BY <2>2, <2>3
<1>4. OpenRows(w)'
  BY <1>2 DEF NftFollows, OpenRows, MintMoved, Mints
<1>5. TokenRows(w)'
  <2> SUFFICES ASSUME NEW x \in Tokens
               PROVE  /\ w.nfts[x].owner = nfts'[x].owner
                      /\ w.nfts[x].level = nfts'[x].level
                      /\ w.nfts[x].batch = nfts'[x].batch
                      /\ w.nfts[x].referrer = nfts'[x].referrer
                      /\ Nft!Minted(x)' => w.nfts[x].weight = Nft!Weight(nfts'[x].level)
    BY DEF TokenRows, Nft!Weight
  <2>1. CASE x = t
    <3>1. u.nfts[x] = [owner |-> who, weight |-> 1, level |-> v.nfts[t].level, batch |-> b,
                       referrer |-> r, referrals |-> v.nfts[t].referrals]
      BY <2>1 DEF MintMoved
    <3>2. v.nfts[t].level = 0
      BY <1>1 DEF NftFollows, TokenRows
    <3> QED
      BY <1>1, <1>3, <2>1, <3>1, <3>2 DEF Nft!Weight
  <2>2. CASE x # t
    <3>1. u.nfts[x] = v.nfts[x] /\ nfts'[x] = nfts[x]
      BY <1>1, <2>2 DEF MintMoved
    <3> QED
      BY <1>3, <2>2, <3>1 DEF NftFollows, TokenRows, Nft!Minted
  <2> QED
    BY <2>1, <2>2
<1>6. CountRows(w)'
  <2>1. w.pool.supply = Cardinality(AllMinted)'
    BY <1>2, MintCounts DEF NftFollows, CountRows, MintMoved
  <2>2. ASSUME NEW x \in Tokens PROVE w.nfts[x].referrals = Cardinality(ReferredBy(x))'
    <3>1. u.nfts[x].referrals = v.nfts[x].referrals
      BY DEF MintMoved
    <3> QED
      BY <1>3, <3>1, MintCounts DEF NftFollows, CountRows
  <2>3. ASSUME NEW x \in Batches PROVE w.batches[x].minted = Cardinality(OfBatch(x))'
    BY <1>2, MintCounts DEF NftFollows, CountRows, MintMoved
  <2> QED
    BY <2>1, <2>2, <2>3 DEF CountRows
<1>7. WeightRows(w)'
  <2>1. WeightMoved(v, w, NoOne, who, 1)
    BY <1>2 DEF MintMoved, WeightMoved
  <2>2. /\ nfts[t].owner = NoOne /\ nfts'[t].owner = who
        /\ nfts[t].level + 1 = 1 /\ nfts'[t].level + 1 = 1
    BY <1>1
  <2>3. /\ nfts \in [Tokens -> NftState] /\ WeightRows(v)
        /\ NoOne \in Members \cup {NoOne} /\ who \in Members \cup {NoOne} /\ 1 \in Nat
    BY DEF NftTypes, NftFollows
  <2> QED
    BY <1>1, <2>1, <2>2, <2>3, WeightsMove
<1> QED
  BY <1>4, <1>5, <1>6, <1>7 DEF NftFollows

-----------------------------------------------------------------------------
(***************************************************************************)
(* The logs of one call, one after the other.                              *)
(***************************************************************************)
OfKind(logs, kind) == {n \in DOMAIN logs : logs[n].kind = kind}
Announcements(logs) == OfKind(logs, "NFT_MINING_CREATED")

\* From the tables before the block, some logs have been replayed.
Reached(base, logs, v) ==
    logs \in Seq(NftLog) /\ v \in NftTable /\ ReplaysTo(NftTable, base, logs, NftApply, v)

LEMMA ReachOneMore ==
  ASSUME NEW base, NEW logs, NEW v, Reached(base, logs, v), NEW e \in NftLog, NEW w \in NftTable,
         w = IF e.own THEN Nft!WriteEvent(v, e) ELSE v
  PROVE  Reached(base, Append(logs, e), w)
<1>1. v \in NftTable /\ logs \in Seq(NftLog) /\ ReplaysTo(NftTable, base, logs, NftApply, v)
  BY DEF Reached
<1>2. NftApply[<<e, v>>] = w
  BY <1>1 DEF NftApply
<1>3. ReplaysTo(NftTable, base, Append(logs, e), NftApply, w)
  BY <1>1, <1>2, ReplayOneMore
<1>4. Append(logs, e) \in Seq(NftLog)
  BY <1>1
<1> QED
  BY <1>3, <1>4 DEF Reached

\* What one more log adds.
LEMMA LogAppended ==
  ASSUME NEW S, NEW logs \in Seq(S), NEW e \in S
  PROVE  /\ Append(logs, e) \in Seq(S) /\ Len(logs) \in Nat
         /\ Len(Append(logs, e)) = Len(logs) + 1 /\ Len(logs) + 1 \in 1..Len(Append(logs, e))
         /\ Append(logs, e)[Len(logs) + 1] = e
         /\ \A n \in 1..Len(logs) : n \in 1..Len(Append(logs, e)) /\ Append(logs, e)[n] = logs[n]
         /\ \A n \in 1..Len(Append(logs, e)) :
               Append(logs, e)[n] = e \/ (n \in 1..Len(logs) /\ Append(logs, e)[n] = logs[n])
OBVIOUS

LEMMA OneMoreOf ==
  ASSUME NEW S, NEW logs \in Seq(S), NEW e \in S, NEW kind
  PROVE  OfKind(Append(logs, e), kind) =
            IF e.kind = kind THEN OfKind(logs, kind) \cup {Len(logs) + 1} ELSE OfKind(logs, kind)
<1>1. /\ Len(Append(logs, e)) = Len(logs) + 1 /\ Len(logs) \in Nat
      /\ \A n \in 1..(Len(logs) + 1) : Append(logs, e)[n] = IF n = Len(logs) + 1 THEN e ELSE logs[n]
      /\ DOMAIN logs = 1..Len(logs) /\ DOMAIN Append(logs, e) = 1..(Len(logs) + 1)
  OBVIOUS
<1>2. \A n : n \in 1..(Len(logs) + 1) <=> n \in 1..Len(logs) \/ n = Len(logs) + 1
  BY <1>1
<1>3. Len(logs) + 1 \notin 1..Len(logs)
  BY <1>1
<1> QED
  BY <1>1, <1>2, <1>3 DEF OfKind

\* A log of the pool is no announcement.
LEMMA OneMoreLog ==
  ASSUME NEW logs \in Seq(NftLog), NEW e \in NftLog
  PROVE  /\ e.kind # "NFT_MINING_CREATED" => Announcements(Append(logs, e)) = Announcements(logs)
         /\ e.kind = "NFT_MINING_CREATED" =>
               Announcements(Append(logs, e)) = Announcements(logs) \cup {Len(logs) + 1}
BY OneMoreOf DEF Announcements

\* Two or three logs are as many appended one after the other.
LEMMA AppendAll ==
  ASSUME NEW S, NEW logs \in Seq(S), NEW d \in S, NEW e \in S, NEW f \in S
  PROVE  /\ logs \o <<d>> = Append(logs, d)
         /\ logs \o <<d, e>> = Append(Append(logs, d), e)
         /\ logs \o (<<d, e>> \o <<>>) = Append(Append(logs, d), e)
         /\ logs \o (<<d, e>> \o <<f>>) = Append(Append(Append(logs, d), e), f)
<1>1. <<d>> \in Seq(S) /\ <<e>> \in Seq(S) /\ <<f>> \in Seq(S) /\ <<d, e>> \in Seq(S)
  OBVIOUS
<1>2. <<d>> \o <<e>> = <<d, e>> /\ <<d, e>> \o <<>> = <<d, e>>
  <2>1. PICK k \in Seq(S), l \in Seq(S) : k = <<d>> \o <<e>> /\ l = <<d, e>>
    BY <1>1, ConcatProperties
  <2>2. Len(k) = 2 /\ k[1] = d /\ k[2] = e
    BY <1>1, <2>1, ConcatProperties
  <2>3. Len(l) = 2 /\ l[1] = d /\ l[2] = e
    BY <2>1
  <2>4. k = l
    BY <2>2, <2>3, SeqEqual
  <2> QED
    BY <1>1, <2>1, <2>4, ConcatEmptySeq
<1>3. Append(logs, d) \in Seq(S) /\ Append(Append(logs, d), e) \in Seq(S)
  BY AppendProperties
<1>4. Append(logs, d) = logs \o <<d>>
  BY AppendIsConcat
<1>5. Append(Append(logs, d), e) = logs \o <<d, e>>
  <2>1. Append(Append(logs, d), e) = Append(logs, d) \o <<e>>
    BY <1>3, AppendIsConcat
  <2>2. (logs \o <<d>>) \o <<e>> = logs \o (<<d>> \o <<e>>)
    BY <1>1, ConcatAssociative
  <2> QED
    BY <1>2, <1>4, <2>1, <2>2
<1>6. Append(Append(Append(logs, d), e), f) = logs \o (<<d, e>> \o <<f>>)
  <2>1. Append(Append(Append(logs, d), e), f) = Append(Append(logs, d), e) \o <<f>>
    BY <1>3, AppendIsConcat
  <2>2. (logs \o <<d, e>>) \o <<f>> = logs \o (<<d, e>> \o <<f>>)
    BY <1>1, ConcatAssociative
  <2> QED
    BY <1>5, <2>1, <2>2
<1> QED
  BY <1>2, <1>4, <1>5, <1>6

\* A step of the pool: its logs are replayed and none is an announcement.
LEMMA PoolStep ==
  ASSUME NftInv, AfterCreation', pool' = pool, nftKnown' = nftKnown, nftRows' = nftRows,
         open' \in [Batches -> {"absent", "active", "paused", "closed"}],
         nfts' \in [Tokens -> NftState], UnmintedAreBlank',
         Announcements(nftLogs') = Announcements(nftLogs),
         NEW w, Reached(Nft!FactoryRows, nftLogs', w), NftFollows(w)'
  PROVE  NftInv'
<1>1. Nft!FactoryEvents' = Nft!FactoryEvents
  BY DEF Nft!FactoryEvents, Announcements, OfKind
<1>2. Nft!FactoryRows' = Nft!FactoryRows
  BY <1>1 DEF Nft!FactoryRows
<1>3. NftTypes'
  BY DEF NftInv, NftTypes, Reached
<1>4. AnnouncedOnce'
  BY <1>1 DEF NftInv, AnnouncedOnce
<1>5. NftPending'
  BY <1>2 DEF NftPending, NftReplayed, Reached
<1> QED
  BY <1>3, <1>4, <1>5 DEF NftInv

-----------------------------------------------------------------------------
(***************************************************************************)
(* The pool's batches.                                                     *)
(***************************************************************************)
\* No NFT and no row of one changes.
NftsStay(v, w) ==
    /\ w.nfts = v.nfts /\ w.accounts = v.accounts
    /\ w.pool.supply = v.pool.supply /\ w.pool.weight = v.pool.weight
    /\ \A x \in Batches : w.batches[x].minted = v.batches[x].minted

LEMMA StayingRows ==
  ASSUME nfts' = nfts, NEW v, NEW w, NftsStay(v, w), NftFollows(v)
  PROVE  TokenRows(w)' /\ CountRows(w)' /\ WeightRows(w)'
<1>1. TokenRows(w)'
  BY DEF NftsStay, NftFollows, TokenRows, Nft!Minted, Nft!Weight
<1>2. CountRows(w)'
  BY DEF NftsStay, NftFollows, CountRows, AllMinted, OfBatch, ReferredBy, Nft!Minted
<1>3. WeightRows(w)'
  BY DEF NftsStay, NftFollows, WeightRows, Nft!SumOfWeights, Nft!Owned
<1> QED
  BY <1>1, <1>2, <1>3

LEMMA BatchFollows ==
  ASSUME NftTypes, nfts' = nfts, NEW b \in Batches, NEW state \in {"active", "paused", "closed"},
         open' = [open EXCEPT ![b] = state],
         NEW v \in NftTable, NEW w \in NftTable, NEW active \in BOOLEAN, NEW paused \in BOOLEAN,
         BatchSet(v, w, b, active, paused), NftFollows(v),
         w.pool.supply = v.pool.supply, w.pool.weight = v.pool.weight,
         w.pool.created = (pool' = "created"),
         active = (state # "closed"), state = "paused" => paused, state = "active" => ~paused
  PROVE  NftFollows(w)'
<1>1. NftsStay(v, w)
  BY DEF BatchSet, NftsStay
<1>2. OpenRows(w)'
  <2> SUFFICES ASSUME NEW x \in Batches
               PROVE  /\ w.batches[x].active = (open'[x] \in {"active", "paused"})
                      /\ open'[x] = "paused" => w.batches[x].paused
                      /\ open'[x] = "active" => ~w.batches[x].paused
    BY DEF OpenRows
  <2>1. open'[x] = IF x = b THEN state ELSE open[x]
    BY DEF NftTypes
  <2>2. /\ w.batches[x].active = IF x = b THEN active ELSE v.batches[x].active
        /\ w.batches[x].paused = IF x = b THEN paused ELSE v.batches[x].paused
    BY DEF BatchSet
  <2>3. CASE x = b
    BY <2>1, <2>2, <2>3
  <2>4. CASE x # b
    BY <2>1, <2>2, <2>4 DEF NftFollows, OpenRows
  <2> QED
    BY <2>3, <2>4
<1> QED
  BY <1>1, <1>2, StayingRows DEF NftFollows

\* What has been replayed so far.
LEMMA ReachedNow ==
  ASSUME NftInv
  PROVE  \E v \in NftTable : Reached(Nft!FactoryRows, nftLogs, v) /\ NftFollows(v)
BY DEF NftInv, NftPending, NftReplayed, Reached, NftTypes

LEMMA CreateBatchStep ==
  ASSUME NftInv, NEW b \in Batches, Nft!CreateBatch(b)
  PROVE  NftInv'
<1>1. PICK v \in NftTable : Reached(Nft!FactoryRows, nftLogs, v) /\ NftFollows(v)
  BY ReachedNow
<1>2. PICK e : e = [kind |-> "NFT_BATCH_CREATED", own |-> TRUE, batch |-> b]
  OBVIOUS
<1>3. e \in NftLog
  BY <1>2 DEF NftLog
<1>4. nftLogs \in Seq(NftLog) /\ nftLogs' = nftLogs \o <<e>> /\ nftKnown' = nftKnown /\ nftRows' = nftRows
  BY <1>2 DEF Nft!CreateBatch, Nft!EmitAll, NftInv, NftTypes
<1>5. nftLogs' = Append(nftLogs, e)
  BY <1>3, <1>4, AppendIsConcat
<1>6. PICK w : w = Nft!BatchCreatedRow(v, e)
  OBVIOUS
<1>7. w \in NftTable /\ BatchSet(v, w, b, TRUE, FALSE) /\ w.pool = [v.pool EXCEPT !.current = b]
  BY <1>2, <1>6, BatchMadeRow
<1>8. w = IF e.own THEN Nft!WriteEvent(v, e) ELSE v
  BY <1>2, <1>6 DEF Nft!WriteEvent
<1>9. Reached(Nft!FactoryRows, nftLogs', w)
  BY <1>1, <1>3, <1>5, <1>7, <1>8, ReachOneMore
<1>10. Announcements(nftLogs') = Announcements(nftLogs)
  <2>1. e.kind # "NFT_MINING_CREATED"
    BY <1>2
  <2> QED
    BY ONLY <1>3, <1>4, <1>5, <2>1, OneMoreLog
<1>11. /\ pool = "created" /\ pool' = pool /\ nfts' = nfts
       /\ open' = [open EXCEPT ![b] = "active"]
  BY DEF Nft!CreateBatch
<1>12. NftFollows(w)'
  <2>1. /\ w.pool.supply = v.pool.supply /\ w.pool.weight = v.pool.weight
        /\ w.pool.created = v.pool.created
    BY <1>1, <1>7 DEF NftTable, NftPoolRow
  <2>2. w.pool.created = (pool' = "created")
    BY <1>1, <1>11, <2>1 DEF NftFollows, OpenRows
  <2> QED
    BY <1>1, <1>7, <1>11, <2>1, <2>2, BatchFollows DEF NftInv
<1>13. /\ open' \in [Batches -> {"absent", "active", "paused", "closed"}]
       /\ nfts' \in [Tokens -> NftState] /\ UnmintedAreBlank' /\ AfterCreation'
  BY <1>11 DEF NftInv, NftTypes, UnmintedAreBlank, AfterCreation, Nft!Minted
<1> QED
  BY <1>4, <1>9, <1>10, <1>11, <1>12, <1>13, PoolStep

LEMMA PauseBatchStep ==
  ASSUME NftInv, NEW b \in Batches, Nft!PauseBatch(b)
  PROVE  NftInv'
<1>1. PICK v \in NftTable : Reached(Nft!FactoryRows, nftLogs, v) /\ NftFollows(v)
  BY ReachedNow
<1>0. PICK flag \in BOOLEAN, state \in {"active", "paused"} :
         flag = (open[b] = "active") /\ state = IF flag THEN "paused" ELSE "active"
  OBVIOUS
<1>2. PICK e : e = [kind |-> "NFT_BATCH_PAUSED_SET", own |-> TRUE, batch |-> b, flag |-> flag]
  OBVIOUS
<1>3. e \in NftLog
  BY <1>2 DEF NftLog
<1>4. nftLogs \in Seq(NftLog) /\ nftLogs' = nftLogs \o <<e>> /\ nftKnown' = nftKnown /\ nftRows' = nftRows
  BY <1>0, <1>2 DEF Nft!PauseBatch, Nft!EmitAll, NftInv, NftTypes
<1>5. nftLogs' = Append(nftLogs, e)
  BY <1>3, <1>4, AppendIsConcat
<1>6. PICK w : w = [v EXCEPT !.batches[b].paused = flag]
  OBVIOUS
<1>7. w \in NftTable /\ BatchSet(v, w, b, v.batches[b].active, flag) /\ w.pool = v.pool
  BY <1>6, BatchPausedRow
<1>8. w = IF e.own THEN Nft!WriteEvent(v, e) ELSE v
  BY <1>2, <1>6 DEF Nft!WriteEvent
<1>9. Reached(Nft!FactoryRows, nftLogs', w)
  BY <1>1, <1>3, <1>5, <1>7, <1>8, ReachOneMore
<1>10. Announcements(nftLogs') = Announcements(nftLogs)
  <2>1. e.kind # "NFT_MINING_CREATED"
    BY <1>2
  <2> QED
    BY ONLY <1>3, <1>4, <1>5, <2>1, OneMoreLog
<1>11. /\ open[b] \in {"active", "paused"} /\ pool' = pool /\ nfts' = nfts
       /\ open' = [open EXCEPT ![b] = state]
  BY <1>0 DEF Nft!PauseBatch
<1>12. pool = "created"
  BY <1>11 DEF NftInv, AfterCreation
<1>13. NftFollows(w)'
  <2>1. v.batches[b].active = TRUE /\ v.batches[b].active \in BOOLEAN /\ w.pool.created = (pool' = "created")
    BY <1>1, <1>7, <1>11 DEF NftFollows, OpenRows
  <2>2. /\ w.pool.supply = v.pool.supply /\ w.pool.weight = v.pool.weight
        /\ v.batches[b].active = (state # "closed")
        /\ state = "paused" => flag
        /\ state = "active" => ~flag
    BY <1>0, <1>7, <2>1
  <2> QED
    BY <1>1, <1>7, <1>11, <2>1, <2>2, BatchFollows DEF NftInv
<1>14. /\ open' \in [Batches -> {"absent", "active", "paused", "closed"}]
       /\ nfts' \in [Tokens -> NftState] /\ UnmintedAreBlank' /\ AfterCreation'
  BY <1>11, <1>12 DEF NftInv, NftTypes, UnmintedAreBlank, AfterCreation, Nft!Minted
<1> QED
  BY <1>4, <1>9, <1>10, <1>11, <1>13, <1>14, PoolStep

LEMMA CloseBatchStep ==
  ASSUME NftInv, NEW b \in Batches, Nft!CloseBatch(b)
  PROVE  NftInv'
<1>1. PICK v \in NftTable : Reached(Nft!FactoryRows, nftLogs, v) /\ NftFollows(v)
  BY ReachedNow
<1>2. PICK e : e = [kind |-> "NFT_BATCH_CLOSED", own |-> TRUE, batch |-> b]
  OBVIOUS
<1>3. e \in NftLog
  BY <1>2 DEF NftLog
<1>4. nftLogs \in Seq(NftLog) /\ nftLogs' = nftLogs \o <<e>> /\ nftKnown' = nftKnown /\ nftRows' = nftRows
  BY <1>2 DEF Nft!CloseBatch, Nft!EmitAll, NftInv, NftTypes
<1>5. nftLogs' = Append(nftLogs, e)
  BY <1>3, <1>4, AppendIsConcat
<1>6. PICK w : w = [v EXCEPT !.batches[b].active = FALSE]
  OBVIOUS
<1>7. w \in NftTable /\ BatchSet(v, w, b, FALSE, v.batches[b].paused) /\ w.pool = v.pool
  BY <1>6, BatchClosedRow
<1>8. w = IF e.own THEN Nft!WriteEvent(v, e) ELSE v
  BY <1>2, <1>6 DEF Nft!WriteEvent
<1>9. Reached(Nft!FactoryRows, nftLogs', w)
  BY <1>1, <1>3, <1>5, <1>7, <1>8, ReachOneMore
<1>10. Announcements(nftLogs') = Announcements(nftLogs)
  <2>1. e.kind # "NFT_MINING_CREATED"
    BY <1>2
  <2> QED
    BY ONLY <1>3, <1>4, <1>5, <2>1, OneMoreLog
<1>11. /\ open[b] \in {"active", "paused"} /\ pool' = pool /\ nfts' = nfts
       /\ open' = [open EXCEPT ![b] = "closed"]
  BY DEF Nft!CloseBatch
<1>12. pool = "created"
  BY <1>11 DEF NftInv, AfterCreation
<1>13. NftFollows(w)'
  <2>1. v.batches[b].paused \in BOOLEAN /\ w.pool.created = (pool' = "created")
    BY <1>1, <1>7, <1>11 DEF NftFollows, OpenRows, NftTable, BatchRow
  <2>2. w.pool.supply = v.pool.supply /\ w.pool.weight = v.pool.weight
    BY <1>7
  <2> QED
    BY <1>1, <1>7, <1>11, <2>1, <2>2, BatchFollows DEF NftInv
<1>14. /\ open' \in [Batches -> {"absent", "active", "paused", "closed"}]
       /\ nfts' \in [Tokens -> NftState] /\ UnmintedAreBlank' /\ AfterCreation'
  BY <1>11, <1>12 DEF NftInv, NftTypes, UnmintedAreBlank, AfterCreation, Nft!Minted
<1> QED
  BY <1>4, <1>9, <1>10, <1>11, <1>13, <1>14, PoolStep

-----------------------------------------------------------------------------
(***************************************************************************)
(* The pool's NFTs.                                                        *)
(***************************************************************************)
LEMMA MovedFollows ==
  ASSUME NftTypes, UnmintedAreBlank, NEW t \in Tokens, NEW to \in Members \cup {NoOne},
         nfts[t].owner # NoOne, nfts' = [nfts EXCEPT ![t].owner = to], UNCHANGED <<pool, open>>,
         NEW v \in NftTable, NEW w \in NftTable, NftFollows(v),
         Moving(v, w, t, nfts[t].owner, to, nfts[t].level + 1)
  PROVE  NftFollows(w)' /\ nfts' \in [Tokens -> NftState] /\ UnmintedAreBlank' /\ Nft!Minted(t)
<1>0. nfts \in [Tokens -> NftState] /\ nfts[t] \in NftState /\ nfts[t].level \in Nat
  BY DEF NftTypes, NftState
<1>1. /\ nfts' \in [Tokens -> NftState]
      /\ \A x \in Tokens \ {t} : nfts'[x] = nfts[x]
      /\ nfts'[t].owner = to /\ nfts'[t].level = nfts[t].level
      /\ nfts'[t].batch = nfts[t].batch /\ nfts'[t].referrer = nfts[t].referrer
  BY <1>0 DEF NftState
<1>2. Nft!Minted(t)
  BY DEF UnmintedAreBlank, Nft!Unminted
<1>3. UnmintedAreBlank'
  BY <1>1, <1>2 DEF UnmintedAreBlank, Nft!Minted
<1>4. /\ w.pool.created = v.pool.created /\ w.pool.supply = v.pool.supply
      /\ w.pool.weight = v.pool.weight + If(nfts[t].owner = NoOne, nfts[t].level + 1)
                                       - If(to = NoOne, nfts[t].level + 1)
  BY DEF Moving, NftTable, NftPoolRow
<1>5. OpenRows(w)'
  BY <1>4 DEF NftFollows, OpenRows, Moving
<1>6. TokenRows(w)'
  <2> SUFFICES ASSUME NEW x \in Tokens
               PROVE  /\ w.nfts[x].owner = nfts'[x].owner
                      /\ w.nfts[x].level = nfts'[x].level
                      /\ w.nfts[x].batch = nfts'[x].batch
                      /\ w.nfts[x].referrer = nfts'[x].referrer
                      /\ Nft!Minted(x)' => w.nfts[x].weight = nfts'[x].level + 1
    BY DEF TokenRows, Nft!Weight
  <2>1. w.nfts = [v.nfts EXCEPT ![t] = [owner |-> to, weight |-> nfts[t].level + 1,
                                        level |-> v.nfts[t].level, batch |-> v.nfts[t].batch,
                                        referrer |-> v.nfts[t].referrer, referrals |-> v.nfts[t].referrals]]
    BY DEF Moving
  <2>2. CASE x = t
    <3>1. w.nfts[x] = [owner |-> to, weight |-> nfts[t].level + 1, level |-> v.nfts[t].level,
                       batch |-> v.nfts[t].batch, referrer |-> v.nfts[t].referrer,
                       referrals |-> v.nfts[t].referrals]
      BY <2>1, <2>2 DEF NftTable
    <3>2. /\ v.nfts[t].level = nfts[t].level /\ v.nfts[t].batch = nfts[t].batch
          /\ v.nfts[t].referrer = nfts[t].referrer
      BY DEF NftFollows, TokenRows
    <3> QED
      BY <1>1, <2>2, <3>1, <3>2
  <2>3. CASE x # t
    <3>1. w.nfts[x] = v.nfts[x] /\ nfts'[x] = nfts[x]
      BY <1>1, <2>1, <2>3 DEF NftTable
    <3> QED
      BY <2>3, <3>1 DEF NftFollows, TokenRows, Nft!Minted, Nft!Weight
  <2> QED
    BY <2>2, <2>3
<1>7. CountRows(w)'
  <2>1. AllMinted' = AllMinted
    BY <1>1 DEF AllMinted, Nft!Minted
  <2>2. \A x : ReferredBy(x)' = ReferredBy(x) /\ OfBatch(x)' = OfBatch(x)
    BY <1>1 DEF ReferredBy, OfBatch
  <2>3. \A x \in Tokens : w.nfts[x].referrals = v.nfts[x].referrals
    BY DEF Moving, NftTable, NftRow
  <2>4. w.batches = v.batches
    BY DEF Moving
  <2> QED
    BY <1>4, <2>1, <2>2, <2>3, <2>4 DEF NftFollows, CountRows
<1>8. WeightRows(w)'
  <2>1. WeightMoved(v, w, nfts[t].owner, to, nfts[t].level + 1)
    <3>1. ASSUME NEW a \in Members
          PROVE  /\ w.accounts[a].count = v.accounts[a].count - If(a = nfts[t].owner, 1) + If(a = to, 1)
                 /\ w.accounts[a].weight = v.accounts[a].weight - If(a = nfts[t].owner, nfts[t].level + 1)
                                                                + If(a = to, nfts[t].level + 1)
      <4>1. w.accounts[a] = [count |-> v.accounts[a].count - If(a = nfts[t].owner, 1) + If(a = to, 1),
                             weight |-> v.accounts[a].weight - If(a = nfts[t].owner, nfts[t].level + 1)
                                                             + If(a = to, nfts[t].level + 1)]
        BY DEF Moving
      <4> QED
        BY ONLY <4>1
    <3> QED
      BY <1>4, <3>1 DEF WeightMoved
  <2>2. /\ nfts[t].owner \in Members \cup {NoOne} /\ nfts[t].level + 1 \in Nat
        /\ nfts'[t].level + 1 = nfts[t].level + 1 /\ WeightRows(v)
    BY <1>0, <1>1 DEF NftState, NftFollows
  <2> QED
    BY <1>0, <1>1, <2>1, <2>2, WeightsMove
<1> QED
  BY <1>1, <1>2, <1>3, <1>5, <1>6, <1>7, <1>8 DEF NftFollows

LEMMA LevelFollows ==
  ASSUME NftTypes, UnmintedAreBlank, NEW t \in Tokens, nfts[t].owner # NoOne,
         nfts' = [nfts EXCEPT ![t].level = @ + 1], UNCHANGED <<pool, open>>,
         NEW v \in NftTable, NEW w \in NftTable, NftFollows(v),
         Levelling(v, w, t, nfts[t].owner, nfts[t].level + 1, nfts[t].level + 1, nfts[t].level + 2)
  PROVE  NftFollows(w)' /\ nfts' \in [Tokens -> NftState] /\ UnmintedAreBlank' /\ Nft!Minted(t)
<1>0. /\ nfts \in [Tokens -> NftState] /\ nfts[t] \in NftState /\ nfts[t].level \in Nat
      /\ nfts[t].owner \in Members
  BY DEF NftTypes, NftState
<1>1. /\ nfts' \in [Tokens -> NftState]
      /\ \A x \in Tokens \ {t} : nfts'[x] = nfts[x]
      /\ nfts'[t].owner = nfts[t].owner /\ nfts'[t].level = nfts[t].level + 1
      /\ nfts'[t].batch = nfts[t].batch /\ nfts'[t].referrer = nfts[t].referrer
  BY <1>0 DEF NftState
<1>2. Nft!Minted(t)
  BY DEF UnmintedAreBlank, Nft!Unminted
<1>3. UnmintedAreBlank'
  BY <1>1, <1>2 DEF UnmintedAreBlank, Nft!Minted
<1>4. w.pool.created = v.pool.created /\ w.pool.supply = v.pool.supply
  BY DEF Levelling, NftTable, NftPoolRow
<1>5. OpenRows(w)'
  BY <1>4 DEF NftFollows, OpenRows, Levelling
<1>6. TokenRows(w)'
  <2> SUFFICES ASSUME NEW x \in Tokens
               PROVE  /\ w.nfts[x].owner = nfts'[x].owner
                      /\ w.nfts[x].level = nfts'[x].level
                      /\ w.nfts[x].batch = nfts'[x].batch
                      /\ w.nfts[x].referrer = nfts'[x].referrer
                      /\ Nft!Minted(x)' => w.nfts[x].weight = nfts'[x].level + 1
    BY DEF TokenRows, Nft!Weight
  <2>1. w.nfts = [v.nfts EXCEPT ![t] = [owner |-> v.nfts[t].owner, weight |-> nfts[t].level + 2,
                                        level |-> nfts[t].level + 1, batch |-> v.nfts[t].batch,
                                        referrer |-> v.nfts[t].referrer, referrals |-> v.nfts[t].referrals]]
    BY DEF Levelling
  <2>2. CASE x = t
    <3>1. w.nfts[x] = [owner |-> v.nfts[t].owner, weight |-> nfts[t].level + 2,
                       level |-> nfts[t].level + 1, batch |-> v.nfts[t].batch,
                       referrer |-> v.nfts[t].referrer, referrals |-> v.nfts[t].referrals]
      BY <2>1, <2>2 DEF NftTable
    <3>2. /\ v.nfts[t].owner = nfts[t].owner /\ v.nfts[t].batch = nfts[t].batch
          /\ v.nfts[t].referrer = nfts[t].referrer
      BY DEF NftFollows, TokenRows
    <3>3. nfts[t].level + 1 + 1 = nfts[t].level + 2
      BY <1>0
    <3> QED
      BY <1>1, <2>2, <3>1, <3>2, <3>3
  <2>3. CASE x # t
    <3>1. w.nfts[x] = v.nfts[x] /\ nfts'[x] = nfts[x]
      BY <1>1, <2>1, <2>3 DEF NftTable
    <3> QED
      BY <2>3, <3>1 DEF NftFollows, TokenRows, Nft!Minted, Nft!Weight
  <2> QED
    BY <2>2, <2>3
<1>7. CountRows(w)'
  <2>1. AllMinted' = AllMinted
    BY <1>1 DEF AllMinted, Nft!Minted
  <2>2. \A x : ReferredBy(x)' = ReferredBy(x) /\ OfBatch(x)' = OfBatch(x)
    BY <1>1 DEF ReferredBy, OfBatch
  <2>3. \A x \in Tokens : w.nfts[x].referrals = v.nfts[x].referrals
    BY DEF Levelling, NftTable, NftRow
  <2>4. w.batches = v.batches
    BY DEF Levelling
  <2> QED
    BY <1>4, <2>1, <2>2, <2>3, <2>4 DEF NftFollows, CountRows
<1>8. WeightRows(w)'
  BY <1>0, <1>1, WeightsLevel DEF NftFollows
<1> QED
  BY <1>1, <1>2, <1>3, <1>5, <1>6, <1>7, <1>8 DEF NftFollows

LEMMA TransferStep ==
  ASSUME NftInv, NEW t \in Tokens, NEW to \in Members \cup {NoOne}, Nft!Transfer(t, to)
  PROVE  NftInv'
<1>1. PICK v \in NftTable : Reached(Nft!FactoryRows, nftLogs, v) /\ NftFollows(v)
  BY ReachedNow
<1>x. nfts[t].owner \in Members \cup {NoOne} /\ nfts[t].level + 1 \in Nat
  BY DEF NftInv, NftTypes, NftState
<1>0. PICK from \in Members \cup {NoOne}, k \in Nat : from = nfts[t].owner /\ k = nfts[t].level + 1
  BY <1>x
<1>2. PICK e : e = [kind |-> "NFT_MINING_WEIGHT_MOVED", own |-> TRUE, token |-> t, from |-> from,
                    to |-> to, weight |-> k]
  OBVIOUS
<1>3. e \in NftLog
  <2>1. k \in Int
    OBVIOUS
  <2> QED
    BY ONLY <1>2, <2>1, t \in Tokens, from \in Members \cup {NoOne}, to \in Members \cup {NoOne} DEF NftLog
<1>4. nftLogs \in Seq(NftLog) /\ nftLogs' = nftLogs \o <<e>> /\ nftKnown' = nftKnown /\ nftRows' = nftRows
  BY <1>0, <1>2 DEF Nft!Transfer, Nft!EmitAll, Nft!Moved, Nft!Weight, NftInv, NftTypes
<1>5. nftLogs' = Append(nftLogs, e)
  BY <1>3, <1>4, AppendIsConcat
<1>6. PICK w : w = Nft!MovedRow(v, e)
  OBVIOUS
<1>7. w \in NftTable /\ Moving(v, w, t, from, to, k)
  BY <1>2, <1>3, <1>6, MovingRow
<1>8. w = IF e.own THEN Nft!WriteEvent(v, e) ELSE v
  BY <1>2, <1>6 DEF Nft!WriteEvent
<1>9. Reached(Nft!FactoryRows, nftLogs', w)
  BY <1>1, <1>3, <1>5, <1>7, <1>8, ReachOneMore
<1>10. Announcements(nftLogs') = Announcements(nftLogs)
  <2>1. e.kind # "NFT_MINING_CREATED"
    BY <1>2
  <2> QED
    BY ONLY <1>3, <1>4, <1>5, <2>1, OneMoreLog
<1>11. /\ nfts[t].owner # NoOne /\ UNCHANGED <<pool, open>>
       /\ nfts' = [nfts EXCEPT ![t].owner = to]
  BY DEF Nft!Transfer
<1>12. NftFollows(w)' /\ nfts' \in [Tokens -> NftState] /\ UnmintedAreBlank' /\ Nft!Minted(t)
  BY <1>0, <1>1, <1>7, <1>11, MovedFollows DEF NftInv
<1>13. /\ open' \in [Batches -> {"absent", "active", "paused", "closed"}]
       /\ AfterCreation'
  BY <1>11, <1>12 DEF NftInv, NftTypes, AfterCreation
<1> QED
  BY <1>4, <1>9, <1>10, <1>11, <1>12, <1>13, PoolStep

LEMMA LevelUpStep ==
  ASSUME NftInv, NEW t \in Tokens, Nft!LevelUp(t)
  PROVE  NftInv'
<1>1. PICK v \in NftTable : Reached(Nft!FactoryRows, nftLogs, v) /\ NftFollows(v)
  BY ReachedNow
<1>11. /\ nfts[t].owner # NoOne /\ UNCHANGED <<pool, open>>
       /\ nfts' = [nfts EXCEPT ![t].level = @ + 1]
  BY DEF Nft!LevelUp
<1>0. PICK a \in Members, k \in Nat : a = nfts[t].owner /\ k = nfts[t].level
  BY <1>11 DEF NftInv, NftTypes, NftState
<1>2. PICK e : e = [kind |-> "NFT_LEVEL_UP", own |-> TRUE, token |-> t, account |-> a,
                    level |-> k + 1, previous |-> k + 1, weight |-> k + 2]
  OBVIOUS
<1>3. e \in NftLog
  <2>1. k + 1 \in Int /\ k + 2 \in Int
    OBVIOUS
  <2> QED
    BY ONLY <1>2, <2>1, t \in Tokens, a \in Members DEF NftLog
<1>4. nftLogs \in Seq(NftLog) /\ nftLogs' = nftLogs \o <<e>> /\ nftKnown' = nftKnown /\ nftRows' = nftRows
  <2>1. k + 1 + 1 = k + 2
    OBVIOUS
  <2> QED
    BY <1>0, <1>2, <2>1 DEF Nft!LevelUp, Nft!EmitAll, Nft!Weight, NftInv, NftTypes
<1>5. nftLogs' = Append(nftLogs, e)
  BY <1>3, <1>4, AppendIsConcat
<1>6. PICK w : w = Nft!LevelUpRow(v, e)
  OBVIOUS
<1>7. w \in NftTable /\ Levelling(v, w, t, a, k + 1, k + 1, k + 2)
  <2>1. k + 1 \in Int /\ k + 2 \in Int
    OBVIOUS
  <2> QED
    BY <1>2, <1>6, <2>1, LevellingRow
<1>8. w = IF e.own THEN Nft!WriteEvent(v, e) ELSE v
  BY <1>2, <1>6 DEF Nft!WriteEvent
<1>9. Reached(Nft!FactoryRows, nftLogs', w)
  BY <1>1, <1>3, <1>5, <1>7, <1>8, ReachOneMore
<1>10. Announcements(nftLogs') = Announcements(nftLogs)
  <2>1. e.kind # "NFT_MINING_CREATED"
    BY <1>2
  <2> QED
    BY ONLY <1>3, <1>4, <1>5, <2>1, OneMoreLog
<1>12. NftFollows(w)' /\ nfts' \in [Tokens -> NftState] /\ UnmintedAreBlank' /\ Nft!Minted(t)
  BY <1>0, <1>1, <1>7, <1>11, LevelFollows DEF NftInv
<1>13. /\ open' \in [Batches -> {"absent", "active", "paused", "closed"}]
       /\ AfterCreation'
  BY <1>11, <1>12 DEF NftInv, NftTypes, AfterCreation
<1> QED
  BY <1>4, <1>9, <1>10, <1>11, <1>12, <1>13, PoolStep

LEMMA MintStep ==
  ASSUME NftInv, NEW t \in Tokens, NEW who \in Members, NEW b \in Batches,
         NEW r \in Tokens \cup {NoToken}, Nft!Mint(t, who, b, r)
  PROVE  NftInv'
<1>1. PICK v \in NftTable : Reached(Nft!FactoryRows, nftLogs, v) /\ NftFollows(v)
  BY ReachedNow
<1>2. NftTypes /\ UnmintedAreBlank /\ AfterCreation /\ nftLogs \in Seq(NftLog)
  BY DEF NftInv, NftTypes
<1>3. Mints(t, who, b, r)
  BY DEF Nft!Mint, Mints
<1>4. /\ nfts' \in [Tokens -> NftState]
      /\ \A x \in Tokens \ {t} : nfts'[x] = nfts[x]
      /\ nfts'[t] = [owner |-> who, level |-> 0, batch |-> b, referrer |-> r]
      /\ nfts[t] = [owner |-> NoOne, level |-> 0, batch |-> NoToken, referrer |-> NoToken]
      /\ r # t /\ b # NoToken
  BY <1>2, <1>3, MintedState
<1>5. PICK m, e : /\ m = [kind |-> "NFT_MINTED", own |-> TRUE, token |-> t, batch |-> b, referrer |-> r]
                  /\ e = [kind |-> "NFT_MINING_WEIGHT_MOVED", own |-> TRUE, token |-> t,
                          from |-> NoOne, to |-> who, weight |-> 1]
  OBVIOUS
<1>6. PICK f : f = [kind |-> "NFT_REFERRAL_RECORDED", own |-> TRUE, token |-> r, child |-> t]
  OBVIOUS
<1>7. m \in NftLog /\ e \in NftLog /\ (r # NoToken => f \in NftLog)
  <2>1. m \in NftLog
    BY ONLY <1>5, t \in Tokens, b \in Batches, r \in Tokens \cup {NoToken} DEF NftLog
  <2>2. e \in NftLog
    <3>1. 1 \in Int /\ NoOne \in Members \cup {NoOne} /\ who \in Members \cup {NoOne}
      OBVIOUS
    <3> QED
      BY ONLY <1>5, <3>1, t \in Tokens DEF NftLog
  <2>3. r # NoToken => f \in NftLog
    BY ONLY <1>6, t \in Tokens, r \in Tokens \cup {NoToken} DEF NftLog
  <2> QED
    BY <2>1, <2>2, <2>3
<1>8. PICK two \in Seq(NftLog), u \in NftTable :
         /\ nftLogs' = IF r = NoToken THEN two ELSE Append(two, f)
         /\ Announcements(two) = Announcements(nftLogs)
         /\ Reached(Nft!FactoryRows, two, u)
         /\ MintMoved(v, u, t, who, b, r, 1)
  <2>1. ASSUME NEW d \in NftLog, NEW g \in NftLog,
               d.kind # "NFT_MINING_CREATED", g.kind # "NFT_MINING_CREATED"
        PROVE  /\ Append(nftLogs, d) \in Seq(NftLog)
               /\ Append(Append(nftLogs, d), g) \in Seq(NftLog)
               /\ Announcements(Append(Append(nftLogs, d), g)) = Announcements(nftLogs)
    <3>1. Append(nftLogs, d) \in Seq(NftLog) /\ Append(Append(nftLogs, d), g) \in Seq(NftLog)
      BY <1>2, AppendProperties
    <3>2. Announcements(Append(nftLogs, d)) = Announcements(nftLogs)
      BY <1>2, <2>1, OneMoreLog
    <3>3. Announcements(Append(Append(nftLogs, d), g)) = Announcements(Append(nftLogs, d))
      BY <2>1, <3>1, OneMoreLog
    <3> QED
      BY <3>1, <3>2, <3>3
  <2>2. m.kind = "NFT_MINTED" /\ e.kind = "NFT_MINING_WEIGHT_MOVED" /\ m.own /\ e.own
    BY <1>5
  <2>3. NoOne \in Members \cup {NoOne} /\ who \in Members \cup {NoOne} /\ 1 \in Int /\ 1 \in Nat
    OBVIOUS
  <2>4. \A x \in NftTable : /\ Nft!WriteEvent(x, m) = Nft!MintedRow(x, m)
                            /\ Nft!WriteEvent(x, e) = Nft!MovedRow(x, e)
    BY <2>2 DEF Nft!WriteEvent
  <2>5. ASSUME nftLogs' = IF r = NoToken THEN Append(Append(nftLogs, m), e)
                          ELSE Append(Append(Append(nftLogs, m), e), f)
        PROVE  \E two \in Seq(NftLog), u \in NftTable :
                  /\ nftLogs' = IF r = NoToken THEN two ELSE Append(two, f)
                  /\ Announcements(two) = Announcements(nftLogs)
                  /\ Reached(Nft!FactoryRows, two, u)
                  /\ MintMoved(v, u, t, who, b, r, 1)
    <3>1. PICK p, u : p = Nft!MintedRow(v, m) /\ u = Nft!MovedRow(p, e)
      OBVIOUS
    <3>2. p \in NftTable /\ Minting(v, p, t, b, r)
      BY <1>5, <3>1, MintingRow
    <3>3. u \in NftTable /\ Moving(p, u, t, NoOne, who, 1)
      BY <1>5, <2>3, <3>1, <3>2, MovingRow
    <3>4. MintMoved(v, u, t, who, b, r, 1)
      BY <2>3, <3>2, <3>3, MintingThenMoving
    <3>5. Reached(Nft!FactoryRows, Append(nftLogs, m), p)
      BY <1>1, <1>7, <2>2, <2>4, <3>1, <3>2, ReachOneMore
    <3>6. Reached(Nft!FactoryRows, Append(Append(nftLogs, m), e), u)
      BY <1>7, <2>2, <2>4, <3>1, <3>2, <3>3, <3>5, ReachOneMore
    <3>7. m.kind # "NFT_MINING_CREATED" /\ e.kind # "NFT_MINING_CREATED"
      BY <2>2
    <3>8. PICK two : two = Append(Append(nftLogs, m), e)
      OBVIOUS
    <3>9. two \in Seq(NftLog) /\ Announcements(two) = Announcements(nftLogs)
      BY <1>7, <2>1, <3>7, <3>8
    <3> QED
      BY <2>5, <3>3, <3>4, <3>6, <3>8, <3>9
  <2>6. ASSUME nftLogs' = IF r = NoToken THEN Append(Append(nftLogs, e), m)
                          ELSE Append(Append(Append(nftLogs, e), m), f)
        PROVE  \E two \in Seq(NftLog), u \in NftTable :
                  /\ nftLogs' = IF r = NoToken THEN two ELSE Append(two, f)
                  /\ Announcements(two) = Announcements(nftLogs)
                  /\ Reached(Nft!FactoryRows, two, u)
                  /\ MintMoved(v, u, t, who, b, r, 1)
    <3>1. PICK p, u : p = Nft!MovedRow(v, e) /\ u = Nft!MintedRow(p, m)
      OBVIOUS
    <3>2. p \in NftTable /\ Moving(v, p, t, NoOne, who, 1)
      BY <1>5, <2>3, <3>1, MovingRow
    <3>3. u \in NftTable /\ Minting(p, u, t, b, r)
      BY <1>5, <3>1, <3>2, MintingRow
    <3>4. MintMoved(v, u, t, who, b, r, 1)
      BY <2>3, <3>2, <3>3, MovingThenMinting
    <3>5. Reached(Nft!FactoryRows, Append(nftLogs, e), p)
      BY <1>1, <1>7, <2>2, <2>4, <3>1, <3>2, ReachOneMore
    <3>6. Reached(Nft!FactoryRows, Append(Append(nftLogs, e), m), u)
      BY <1>7, <2>2, <2>4, <3>1, <3>2, <3>3, <3>5, ReachOneMore
    <3>7. m.kind # "NFT_MINING_CREATED" /\ e.kind # "NFT_MINING_CREATED"
      BY <2>2
    <3>8. PICK two : two = Append(Append(nftLogs, e), m)
      OBVIOUS
    <3>9. two \in Seq(NftLog) /\ Announcements(two) = Announcements(nftLogs)
      BY <1>7, <2>1, <3>7, <3>8
    <3> QED
      BY <2>6, <3>3, <3>4, <3>6, <3>8, <3>9
  <2>7. \/ nftLogs' = IF r = NoToken THEN Append(Append(nftLogs, m), e)
                      ELSE Append(Append(Append(nftLogs, m), e), f)
        \/ nftLogs' = IF r = NoToken THEN Append(Append(nftLogs, e), m)
                      ELSE Append(Append(Append(nftLogs, e), m), f)
    <3>1. Nft!Moved(t, NoOne, who) = e
      <4>1. nfts[t].level + 1 = 1
        BY <1>4
      <4> QED
        BY <1>5, <4>1 DEF Nft!Moved, Nft!Weight
    <3>2. PICK tail : tail = IF r = NoToken THEN <<>> ELSE <<f>>
      OBVIOUS
    <3>3. nftLogs' = nftLogs \o (<<m, e>> \o tail) \/ nftLogs' = nftLogs \o (<<e, m>> \o tail)
      BY <1>5, <1>6, <3>1, <3>2 DEF Nft!Mint, Nft!EmitAll
    <3>4. CASE r = NoToken
      <4>1. /\ nftLogs \o (<<m, e>> \o <<>>) = Append(Append(nftLogs, m), e)
            /\ nftLogs \o (<<e, m>> \o <<>>) = Append(Append(nftLogs, e), m)
        BY <1>2, <1>7, AppendAll
      <4> QED
        BY <3>2, <3>3, <3>4, <4>1
    <3>5. CASE r # NoToken
      <4>1. /\ nftLogs \o (<<m, e>> \o <<f>>) = Append(Append(Append(nftLogs, m), e), f)
            /\ nftLogs \o (<<e, m>> \o <<f>>) = Append(Append(Append(nftLogs, e), m), f)
        BY <1>2, <1>7, <3>5, AppendAll
      <4> QED
        BY <3>2, <3>3, <3>5, <4>1
    <3> QED
      BY <3>4, <3>5
  <2> QED
    BY <2>5, <2>6, <2>7
<1>9. PICK w : w = IF r = NoToken THEN u ELSE Nft!ReferralRow(u, f)
  OBVIOUS
<1>10. /\ w \in NftTable
       /\ IF r = NoToken THEN w = u ELSE Referring(u, w, r, t)
       /\ Reached(Nft!FactoryRows, nftLogs', w)
       /\ Announcements(nftLogs') = Announcements(nftLogs)
  <2>1. CASE r = NoToken
    BY <1>8, <1>9, <2>1
  <2>2. CASE r # NoToken
    <3>1. r \in Tokens /\ f.token = r /\ f.child = t /\ f \in NftLog
      BY <1>6, <1>7, <2>2
    <3>2. w \in NftTable /\ Referring(u, w, r, t)
      BY <1>9, <2>2, <3>1, ReferringRow
    <3>3. f.own /\ f.kind = "NFT_REFERRAL_RECORDED"
      BY <1>6
    <3>4. w = IF f.own THEN Nft!WriteEvent(u, f) ELSE u
      BY <1>9, <2>2, <3>3 DEF Nft!WriteEvent
    <3>5. Reached(Nft!FactoryRows, nftLogs', w)
      BY <1>8, <2>2, <3>1, <3>2, <3>4, ReachOneMore
    <3>6. f.kind # "NFT_MINING_CREATED"
      BY <3>3
    <3>7. Announcements(Append(two, f)) = Announcements(two)
      BY <3>1, <3>6, OneMoreLog
    <3> QED
      BY <1>8, <2>2, <3>2, <3>5, <3>7
  <2> QED
    BY <2>1, <2>2
<1>11. NftFollows(w)'
  BY <1>1, <1>2, <1>3, <1>8, <1>10, MintFollows
<1>12. pool = "created"
  BY <1>2, <1>3 DEF AfterCreation, Mints
<1>13. UnmintedAreBlank'
  BY <1>2, <1>4 DEF UnmintedAreBlank, Nft!Minted
<1>14. /\ open' \in [Batches -> {"absent", "active", "paused", "closed"}]
       /\ AfterCreation' /\ pool' = pool
  BY <1>2, <1>3, <1>12 DEF NftTypes, AfterCreation, Mints
<1>15. nftKnown' = nftKnown /\ nftRows' = nftRows
  BY DEF Nft!Mint, Nft!EmitAll
<1> QED
  BY <1>4, <1>10, <1>11, <1>13, <1>14, <1>15, PoolStep

\* An event of another contract changes nothing.
LEMMA ForeignMoveStep ==
  ASSUME NftInv, NEW t \in Tokens, NEW to \in Members, Nft!ForeignMove(t, to)
  PROVE  NftInv'
<1>1. PICK v \in NftTable : Reached(Nft!FactoryRows, nftLogs, v) /\ NftFollows(v)
  BY ReachedNow
<1>2. nfts[t].level + 1 \in Nat
  BY DEF NftInv, NftTypes, NftState
<1>3. PICK k \in Nat : k = nfts[t].level + 1
  BY <1>2
<1>4. PICK e : e = [kind |-> "NFT_MINING_WEIGHT_MOVED", own |-> FALSE, token |-> t, from |-> NoOne,
                    to |-> to, weight |-> k]
  OBVIOUS
<1>5. e \in NftLog
  <2>1. k \in Int /\ NoOne \in Members \cup {NoOne} /\ to \in Members \cup {NoOne}
    OBVIOUS
  <2> QED
    BY ONLY <1>4, <2>1, t \in Tokens DEF NftLog
<1>6. nftLogs \in Seq(NftLog) /\ nftLogs' = nftLogs \o <<e>> /\ nftKnown' = nftKnown /\ nftRows' = nftRows
  <2>1. [Nft!Moved(t, NoOne, to) EXCEPT !.own = FALSE] = e
    <3>1. PICK m : m = [kind |-> "NFT_MINING_WEIGHT_MOVED", own |-> TRUE, token |-> t, from |-> NoOne,
                        to |-> to, weight |-> k]
      OBVIOUS
    <3>2. Nft!Moved(t, NoOne, to) = m
      BY <1>3, <3>1 DEF Nft!Moved, Nft!Weight
    <3>3. PICK yes, no : yes = TRUE /\ no = FALSE
      OBVIOUS
    <3>4. [m EXCEPT !.own = no] = e
      <4>1. /\ m = [kind |-> "NFT_MINING_WEIGHT_MOVED", own |-> yes, token |-> t, from |-> NoOne,
                    to |-> to, weight |-> k]
            /\ e = [kind |-> "NFT_MINING_WEIGHT_MOVED", own |-> no, token |-> t, from |-> NoOne,
                    to |-> to, weight |-> k]
        BY <1>4, <3>1, <3>3
      <4> QED
        BY ONLY <4>1
    <3> QED
      BY <3>2, <3>3, <3>4
  <2> QED
    BY <2>1 DEF Nft!ForeignMove, Nft!EmitAll, NftInv, NftTypes
<1>7. nftLogs' = Append(nftLogs, e)
  BY <1>5, <1>6, AppendIsConcat
<1>8. e.own = FALSE
  BY <1>4
<1>9. Reached(Nft!FactoryRows, nftLogs', v)
  BY <1>1, <1>5, <1>7, <1>8, ReachOneMore
<1>10. Announcements(nftLogs') = Announcements(nftLogs)
  <2>1. e.kind # "NFT_MINING_CREATED"
    BY <1>4
  <2> QED
    BY ONLY <1>5, <1>6, <1>7, <2>1, OneMoreLog
<1>11. pool' = pool /\ open' = open /\ nfts' = nfts
  BY DEF Nft!ForeignMove
<1>12. NftFollows(v)'
  BY <1>1, <1>11 DEF NftFollows, OpenRows, TokenRows, CountRows, WeightRows, AllMinted, OfBatch, ReferredBy,
                     Nft!Minted, Nft!Weight, Nft!SumOfWeights, Nft!Owned
<1>13. /\ open' \in [Batches -> {"absent", "active", "paused", "closed"}]
       /\ nfts' \in [Tokens -> NftState] /\ UnmintedAreBlank'
  BY <1>11 DEF NftInv, NftTypes, UnmintedAreBlank, Nft!Minted
<1>14. AfterCreation'
  <2>1. \A n \in 1..Len(nftLogs') : nftLogs'[n] = e \/ (n \in 1..Len(nftLogs) /\ nftLogs'[n] = nftLogs[n])
    BY <1>5, <1>6, <1>7
  <2> QED
    BY <1>6, <1>8, <1>11, <2>1 DEF NftInv, AfterCreation, Nft!Minted
<1> QED
  BY <1>6, <1>9, <1>10, <1>11, <1>12, <1>13, <1>14, PoolStep

-----------------------------------------------------------------------------
(***************************************************************************)
(* The pool's creation, alone or after its first batch.                    *)
(***************************************************************************)
\* Until the pool is created the tables stay as they are.
LEMMA BeforeCreation ==
  ASSUME NftInv, pool = "absent"
  PROVE  /\ NftTypes /\ ~nftKnown /\ Announcements(nftLogs) = {}
         /\ \A b \in Batches : open[b] = "absent"
         /\ \A t \in Tokens : ~Nft!Minted(t)
         /\ \A n \in 1..Len(nftLogs) : nftLogs[n] \in NftLog /\ ~nftLogs[n].own
         /\ NftFollows(nftRows)
<1>1. /\ NftTypes /\ ~nftKnown /\ Nft!FactoryEvents = {}
      /\ \A b \in Batches : open[b] = "absent"
      /\ \A t \in Tokens : ~Nft!Minted(t)
      /\ \A n \in 1..Len(nftLogs) : nftLogs[n] \in NftLog /\ ~nftLogs[n].own
  BY DEF NftInv, AfterCreation, AnnouncedOnce, NftTypes
<1>2. Nft!FactoryRows = nftRows
  BY <1>1 DEF Nft!FactoryRows, NftTypes, NftTable, NftPoolRow
<1>3. PICK v \in NftTable : ReplaysTo(NftTable, nftRows, nftLogs, NftApply, v) /\ NftFollows(v)
  BY <1>2 DEF NftInv, NftPending, NftReplayed
<1>4. v = nftRows
  <2>1. PICK L \in Nat : L = Len(nftLogs)
    BY <1>1 DEF NftTypes
  <2>2. PICK g \in [0..L -> NftTable] : Replays(g, nftRows, nftLogs, NftApply) /\ v = g[L]
    BY <1>3, <2>1 DEF ReplaysTo
  <2>3. PICK f : f = [n \in 0..L |-> nftRows]
    OBVIOUS
  <2>4. \A n \in 1..L : n \in 0..L /\ n - 1 \in 0..L
    OBVIOUS
  <2>5. ASSUME NEW n \in 1..L, f[n - 1] = g[n - 1] PROVE f[n] = g[n]
    <3>1. nftLogs[n] \in NftLog /\ ~nftLogs[n].own /\ g[n - 1] \in NftTable
      BY <1>1, <2>1, <2>4
    <3>2. NftApply[<<nftLogs[n], g[n - 1]>>] = g[n - 1]
      BY <3>1 DEF NftApply
    <3> QED
      BY <2>1, <2>2, <2>3, <2>4, <2>5, <3>2 DEF Replays
  <2>6. f[0] = g[0] /\ f[L] = nftRows
    BY <2>2, <2>3 DEF Replays
  <2>7. f[L] = g[L]
    BY <2>5, <2>6, SameSteps
  <2> QED
    BY <2>2, <2>6, <2>7
<1>5. Announcements(nftLogs) = Nft!FactoryEvents
  BY DEF Announcements, OfKind, Nft!FactoryEvents
<1> QED
  BY <1>1, <1>3, <1>4, <1>5

\* The factory's log is the last of its call; the tables before it are those
\* of a created pool, to which the logs of the call are applied.
LEMMA CreationStep ==
  ASSUME NftInv, pool = "absent", pool' = "created", nftKnown' = nftKnown, nftRows' = nftRows,
         NEW c, c = [kind |-> "NFT_MINING_CREATED", own |-> FALSE],
         NEW before \in Seq(NftLog), nftLogs' = Append(before, c), Announcements(before) = {},
         open' \in [Batches -> {"absent", "active", "paused", "closed"}], nfts' = nfts,
         NEW base, base = [nftRows EXCEPT !.pool.created = TRUE],
         NEW w, Reached(base, before, w), NftFollows(w)'
  PROVE  NftInv'
<1>1. /\ NftTypes /\ ~nftKnown
      /\ \A t \in Tokens : ~Nft!Minted(t)
  BY BeforeCreation
<1>2. c \in NftLog /\ c.own = FALSE /\ c.kind = "NFT_MINING_CREATED"
  BY DEF NftLog
<1>3. w \in NftTable
  BY DEF Reached
<1>4. Reached(base, nftLogs', w)
  BY <1>2, <1>3, ReachOneMore
<1>5. Announcements(nftLogs') = {Len(before) + 1} /\ Len(before) + 1 \in Nat
  BY <1>2, OneMoreLog
<1>6. Nft!FactoryEvents' = {Len(before) + 1}
  BY <1>5 DEF Announcements, OfKind, Nft!FactoryEvents
<1>7. Nft!FactoryRows' = base
  <2>1. Nft!FactoryEvents' # {}
    BY <1>6
  <2> QED
    BY <2>1 DEF Nft!FactoryRows
<1>8. NftTypes'
  BY <1>1, <1>4 DEF NftTypes, Reached
<1>9. AfterCreation' /\ UnmintedAreBlank'
  BY <1>1 DEF AfterCreation, NftInv, UnmintedAreBlank, Nft!Minted, Nft!Unminted
<1>10. AnnouncedOnce'
  BY <1>1, <1>5, <1>6 DEF AnnouncedOnce
<1>11. NftPending'
  BY <1>3, <1>4, <1>7 DEF NftPending, NftReplayed, Reached
<1> QED
  BY <1>8, <1>9, <1>10, <1>11 DEF NftInv

\* A created pool's tables, from which the block's logs so far change nothing.
LEMMA CreatedBase ==
  ASSUME NftInv, pool = "absent", NEW base, base = [nftRows EXCEPT !.pool.created = TRUE]
  PROVE  /\ base \in NftTable /\ Reached(base, nftLogs, base) /\ base.pool.created = TRUE
         /\ base.nfts = nftRows.nfts /\ base.accounts = nftRows.accounts
         /\ base.batches = nftRows.batches
         /\ base.pool.supply = nftRows.pool.supply /\ base.pool.weight = nftRows.pool.weight
<1>1. NftTypes /\ \A n \in 1..Len(nftLogs) : nftLogs[n] \in NftLog /\ ~nftLogs[n].own
  BY BeforeCreation
<1>2. base \in NftTable /\ base.pool = [nftRows.pool EXCEPT !.created = TRUE]
  BY <1>1 DEF NftTypes, NftTable, NftPoolRow
<1>3. /\ base.pool.created = TRUE /\ base.nfts = nftRows.nfts /\ base.accounts = nftRows.accounts
      /\ base.batches = nftRows.batches
      /\ base.pool.supply = nftRows.pool.supply /\ base.pool.weight = nftRows.pool.weight
  BY <1>1 DEF NftTypes, NftTable, NftPoolRow
<1>4. \A n \in 1..Len(nftLogs) : NftApply[<<nftLogs[n], base>>] = base
  BY <1>1, <1>2 DEF NftApply
<1>5. ReplaysTo(NftTable, base, nftLogs, NftApply, base)
  BY <1>1, <1>2, <1>4, ReplayNothing DEF NftTypes
<1> QED
  BY <1>1, <1>2, <1>3, <1>5 DEF Reached, NftTypes

LEMMA CreatePoolStep ==
  ASSUME NftInv, Nft!CreatePool
  PROVE  NftInv'
<1>1. PICK c, base : /\ c = [kind |-> "NFT_MINING_CREATED", own |-> FALSE]
                     /\ base = [nftRows EXCEPT !.pool.created = TRUE]
  OBVIOUS
<1>2. /\ pool = "absent" /\ pool' = "created" /\ nftKnown' = nftKnown /\ nftRows' = nftRows
      /\ open' = open /\ nfts' = nfts /\ nftLogs' = nftLogs \o <<c>>
  BY <1>1 DEF Nft!CreatePool, Nft!EmitAll
<1>3. /\ NftTypes /\ Announcements(nftLogs) = {} /\ NftFollows(nftRows)
      /\ \A b \in Batches : open[b] = "absent"
  BY <1>2, BeforeCreation
<1>4. c \in NftLog /\ nftLogs \in Seq(NftLog)
  BY <1>1, <1>3 DEF NftLog, NftTypes
<1>5. nftLogs' = Append(nftLogs, c)
  BY <1>2, <1>4, AppendIsConcat
<1>6. /\ base \in NftTable /\ Reached(base, nftLogs, base) /\ base.pool.created = TRUE
      /\ base.nfts = nftRows.nfts /\ base.accounts = nftRows.accounts
      /\ base.batches = nftRows.batches
      /\ base.pool.supply = nftRows.pool.supply /\ base.pool.weight = nftRows.pool.weight
  BY <1>1, <1>2, CreatedBase
<1>7. NftFollows(base)'
  <2>1. OpenRows(base)'
    BY <1>2, <1>3, <1>6 DEF NftFollows, OpenRows
  <2>2. NftsStay(nftRows, base)
    BY <1>6 DEF NftsStay
  <2> QED
    BY <1>2, <1>3, <2>1, <2>2, StayingRows DEF NftFollows
<1>8. open' \in [Batches -> {"absent", "active", "paused", "closed"}]
  BY <1>2, <1>3 DEF NftTypes
<1> QED
  BY <1>1, <1>2, <1>3, <1>4, <1>5, <1>6, <1>7, <1>8, CreationStep

LEMMA CreatePoolWithBatchStep ==
  ASSUME NftInv, NEW b \in Batches, Nft!CreatePoolWithBatch(b)
  PROVE  NftInv'
<1>1. PICK c, base, e : /\ c = [kind |-> "NFT_MINING_CREATED", own |-> FALSE]
                        /\ base = [nftRows EXCEPT !.pool.created = TRUE]
                        /\ e = [kind |-> "NFT_BATCH_CREATED", own |-> TRUE, batch |-> b]
  OBVIOUS
<1>2. /\ pool = "absent" /\ pool' = "created" /\ nftKnown' = nftKnown /\ nftRows' = nftRows
      /\ open' = [open EXCEPT ![b] = "active"] /\ nfts' = nfts /\ nftLogs' = nftLogs \o <<e, c>>
  BY <1>1 DEF Nft!CreatePoolWithBatch, Nft!EmitAll
<1>3. /\ NftTypes /\ Announcements(nftLogs) = {} /\ NftFollows(nftRows) /\ nftRows \in NftTable
      /\ nftLogs \in Seq(NftLog)
  BY <1>2, BeforeCreation DEF NftTypes
<1>4. c \in NftLog /\ e \in NftLog
  BY <1>1 DEF NftLog
<1>5. nftLogs' = Append(Append(nftLogs, e), c) /\ Append(nftLogs, e) \in Seq(NftLog)
  BY <1>2, <1>3, <1>4, AppendAll, AppendProperties
<1>6. /\ base \in NftTable /\ Reached(base, nftLogs, base) /\ base.pool.created = TRUE
      /\ base.nfts = nftRows.nfts /\ base.accounts = nftRows.accounts
      /\ base.batches = nftRows.batches
      /\ base.pool.supply = nftRows.pool.supply /\ base.pool.weight = nftRows.pool.weight
  BY <1>1, <1>2, CreatedBase
<1>7. PICK w : w = Nft!BatchCreatedRow(base, e)
  OBVIOUS
<1>8. w \in NftTable /\ BatchSet(base, w, b, TRUE, FALSE) /\ w.pool = [base.pool EXCEPT !.current = b]
  <2>1. e.batch = b /\ base \in NftTable
    BY <1>1, <1>6
  <2> QED
    BY ONLY <1>7, <2>1, b \in Batches, BatchMadeRow
<1>9. w = IF e.own THEN Nft!WriteEvent(base, e) ELSE base
  BY <1>1, <1>7 DEF Nft!WriteEvent
<1>10. Reached(base, Append(nftLogs, e), w)
  BY <1>4, <1>6, <1>8, <1>9, ReachOneMore
<1>11. Announcements(Append(nftLogs, e)) = {}
  <2>1. e.kind # "NFT_MINING_CREATED"
    BY <1>1
  <2> QED
    BY ONLY <1>3, <1>4, <2>1, OneMoreLog
<1>12. NftFollows(w)'
  <2>1. /\ w.pool.created = TRUE /\ w.pool.supply = nftRows.pool.supply
        /\ w.pool.weight = nftRows.pool.weight
    BY <1>6, <1>8 DEF NftTable, NftPoolRow
  <2>2. BatchSet(nftRows, w, b, TRUE, FALSE)
    BY <1>6, <1>8 DEF BatchSet
  <2>3. w.pool.created = (pool' = "created")
    BY <1>2, <2>1
  <2> QED
    BY <1>2, <1>3, <1>8, <2>1, <2>2, <2>3, BatchFollows
<1>13. open' \in [Batches -> {"absent", "active", "paused", "closed"}]
  BY <1>2, <1>3 DEF NftTypes
<1> QED
  BY <1>1, <1>2, <1>5, <1>10, <1>11, <1>12, <1>13, CreationStep

-----------------------------------------------------------------------------
(***************************************************************************)
(* The end of a block, and the invariant.                                  *)
(***************************************************************************)
\* The maps take exactly the pool's logs.
LEMMA PoolLogsTaken ==
  ASSUME NftInv, NEW n \in 1..Len(nftLogs)
  PROVE  n \in Nft!ParentEvents <=> nftLogs[n].own
<1>1. DOMAIN nftLogs = 1..Len(nftLogs)
  BY DEF NftInv, NftTypes
<1>2. n \in Nft!ParentEvents <=> nftLogs[n].own /\ (Nft!KnownAt(n) \/ Nft!FactoryEvents # {})
  BY <1>1 DEF Nft!ParentEvents, Nft!IsPool
<1>3. nftLogs[n].own => nftKnown \/ Nft!FactoryEvents # {}
  BY DEF NftInv, AfterCreation, AnnouncedOnce
<1> QED
  BY <1>2, <1>3 DEF Nft!KnownAt

\* The writer's tables are those of the replay.
LEMMA RowsAfterBlock ==
  ASSUME NftInv, NEW v, NftReplayed(v)
  PROVE  Nft!RowsAfter = v
<1>1. PICK L \in Nat : L = Len(nftLogs)
  BY DEF NftInv, NftTypes
<1>2. PICK g \in [0..L -> NftTable] : Replays(g, Nft!FactoryRows, nftLogs, NftApply) /\ v = g[L]
  BY <1>1 DEF NftReplayed, ReplaysTo
<1> DEFINE Solves(f) == f = [n \in 0..L |-> IF n = 0 THEN Nft!FactoryRows
                                ELSE IF n \in Nft!ParentEvents THEN Nft!WriteEvent(f[n - 1], nftLogs[n])
                                ELSE f[n - 1]]
<1>3. \A n \in 0..L : n = 0 \/ n \in 1..L
  OBVIOUS
<1>4. \A n \in 1..L : n # 0 /\ n \in 0..L /\ n - 1 \in 0..L
  OBVIOUS
<1>5. ASSUME NEW n \in 1..L
      PROVE  g[n] = IF n \in Nft!ParentEvents THEN Nft!WriteEvent(g[n - 1], nftLogs[n]) ELSE g[n - 1]
  <2>1. nftLogs[n] \in NftLog /\ g[n - 1] \in NftTable
    BY <1>1, <1>4 DEF NftInv, NftTypes
  <2>2. NftApply[<<nftLogs[n], g[n - 1]>>] =
           IF nftLogs[n].own THEN Nft!WriteEvent(g[n - 1], nftLogs[n]) ELSE g[n - 1]
    BY <2>1 DEF NftApply
  <2>3. g[n] = NftApply[<<nftLogs[n], g[n - 1]>>]
    BY <1>1, <1>2 DEF Replays
  <2>4. n \in Nft!ParentEvents <=> nftLogs[n].own
    BY <1>1, PoolLogsTaken
  <2> QED
    BY <2>2, <2>3, <2>4
<1>6. g[0] = Nft!FactoryRows
  BY <1>2 DEF Replays
<1>7. Solves(g)
  <2>1. \A n \in 0..L : g[n] = IF n = 0 THEN Nft!FactoryRows
                               ELSE IF n \in Nft!ParentEvents THEN Nft!WriteEvent(g[n - 1], nftLogs[n])
                               ELSE g[n - 1]
    BY <1>3, <1>4, <1>5, <1>6
  <2> QED
    BY <2>1
<1>8. PICK f : Solves(f) /\ Nft!RowsAfter = f[L]
  <2>1. Nft!RowsAfter = (CHOOSE f : Solves(f))[L]
    BY <1>1 DEF Nft!RowsAfter
  <2> HIDE DEF Solves
  <2> QED
    BY <1>7, <2>1
<1>9. f[0] = g[0]
  BY <1>6, <1>8
<1>10. ASSUME NEW n \in 1..L, f[n - 1] = g[n - 1] PROVE f[n] = g[n]
  <2>1. f[n] = IF n \in Nft!ParentEvents THEN Nft!WriteEvent(f[n - 1], nftLogs[n]) ELSE f[n - 1]
    BY <1>4, <1>8
  <2> QED
    BY <1>5, <1>10, <2>1
<1>11. f[L] = g[L]
  BY <1>9, <1>10, SameSteps
<1> QED
  BY <1>2, <1>8, <1>11

LEMMA NftEndBlockStep ==
  ASSUME NftInv, Nft!EndBlock
  PROVE  NftInv'
<1>1. PICK v \in NftTable : NftReplayed(v) /\ NftFollows(v)
  BY DEF NftInv, NftPending
<1>2. /\ nftKnown' = (nftKnown \/ Nft!FactoryEvents # {}) /\ nftRows' = v /\ nftLogs' = <<>>
      /\ pool' = pool /\ open' = open /\ nfts' = nfts
  BY <1>1, RowsAfterBlock DEF Nft!EndBlock
<1>3. NftTypes'
  BY <1>2 DEF NftInv, NftTypes
<1>4. Nft!FactoryEvents' = {}
  BY <1>2 DEF Nft!FactoryEvents
<1>5. AfterCreation' /\ UnmintedAreBlank'
  <2>1. pool = "absent" => ~nftKnown' /\ \A n \in 1..Len(nftLogs') : FALSE
    <3>1. pool = "absent" => Nft!FactoryEvents = {} /\ ~nftKnown
      BY DEF NftInv, AnnouncedOnce, AfterCreation
    <3>2. \A n \in 1..Len(nftLogs') : FALSE
      BY <1>2
    <3> QED
      BY <1>2, <3>1, <3>2
  <2> QED
    BY <1>2, <2>1 DEF NftInv, NftTypes, AfterCreation, UnmintedAreBlank, Nft!Minted
<1>6. AnnouncedOnce'
  <2>1. pool = "created" => nftKnown'
    BY <1>2 DEF NftInv, AnnouncedOnce
  <2> QED
    BY <1>2, <1>4, <2>1 DEF AnnouncedOnce
<1>7. Nft!FactoryRows' = v
  BY <1>2, <1>4 DEF Nft!FactoryRows, NftTable, NftPoolRow
<1>8. NftFollows(v)'
  BY <1>1, <1>2 DEF NftFollows, OpenRows, TokenRows, CountRows, WeightRows, AllMinted, OfBatch, ReferredBy,
                    Nft!Minted, Nft!Weight, Nft!SumOfWeights, Nft!Owned
<1>9. NftReplayed(v)'
  <2>1. nftLogs' \in Seq(NftLog) /\ \A n \in 1..Len(nftLogs') : FALSE
    BY <1>2
  <2> QED
    BY <1>7, <2>1, ReplayNothing DEF NftReplayed
<1> QED
  BY <1>3, <1>5, <1>6, <1>8, <1>9 DEF NftInv, NftPending

LEMMA NftContractStep ==
  ASSUME NftInv, Nft!ContractStep
  PROVE  NftInv'
<1>1. CASE Nft!CreatePool
  BY <1>1, CreatePoolStep
<1>2. CASE \E b \in Batches : \/ Nft!CreatePoolWithBatch(b) \/ Nft!CreateBatch(b)
                              \/ Nft!PauseBatch(b) \/ Nft!CloseBatch(b)
  BY <1>2, CreatePoolWithBatchStep, CreateBatchStep, PauseBatchStep, CloseBatchStep
<1>3. CASE \E t \in Tokens : \E who \in Members, b \in Batches, r \in Tokens \cup {NoToken} :
              Nft!Mint(t, who, b, r)
  BY <1>3, MintStep
<1>4. CASE \E t \in Tokens : Nft!LevelUp(t)
  BY <1>4, LevelUpStep
<1>5. CASE \E t \in Tokens, to \in Members \cup {NoOne} : Nft!Transfer(t, to)
  BY <1>5, TransferStep
<1>6. CASE \E t \in Tokens, to \in Members : Nft!ForeignMove(t, to)
  BY <1>6, ForeignMoveStep
<1> QED
  BY <1>1, <1>2, <1>3, <1>4, <1>5, <1>6 DEF Nft!ContractStep

LEMMA NftStutterStep ==
  ASSUME NftInv, UNCHANGED nftVars
  PROVE  NftInv'
<1>1. /\ pool' = pool /\ open' = open /\ nfts' = nfts /\ nftLogs' = nftLogs
      /\ nftKnown' = nftKnown /\ nftRows' = nftRows
  BY DEF nftVars
<1>2. PICK v \in NftTable : NftReplayed(v) /\ NftFollows(v)
  BY DEF NftInv, NftPending
<1>3. Nft!FactoryEvents' = Nft!FactoryEvents
  BY <1>1 DEF Nft!FactoryEvents
<1>4. NftReplayed(v)'
  BY <1>1, <1>2, <1>3 DEF NftReplayed, Nft!FactoryRows
<1>5. NftFollows(v)'
  BY <1>1, <1>2 DEF NftFollows, OpenRows, TokenRows, CountRows, WeightRows, AllMinted, OfBatch, ReferredBy,
                    Nft!Minted, Nft!Weight, Nft!SumOfWeights, Nft!Owned
<1>6. NftTypes' /\ AfterCreation' /\ UnmintedAreBlank' /\ AnnouncedOnce'
  BY <1>1, <1>3 DEF NftInv, NftTypes, AfterCreation, UnmintedAreBlank, AnnouncedOnce, Nft!Minted
<1> QED
  BY <1>4, <1>5, <1>6 DEF NftInv, NftPending

LEMMA NftInitial == Nft!Init => NftInv
<1> SUFFICES ASSUME Nft!Init PROVE NftInv
  OBVIOUS
<1>1. /\ pool = "absent" /\ open = [b \in Batches |-> "absent"]
      /\ nfts = [t \in Tokens |-> Nft!Unminted] /\ nftLogs = <<>> /\ nftKnown = FALSE
      /\ nftRows = [pool     |-> [created |-> FALSE, current |-> NoToken, supply |-> 0, weight |-> 0],
                    batches  |-> [b \in Batches |-> [active |-> FALSE, paused |-> FALSE, minted |-> 0]],
                    nfts     |-> [t \in Tokens |-> [owner |-> NoOne, weight |-> 0, level |-> 0,
                                                    batch |-> NoToken, referrer |-> NoToken,
                                                    referrals |-> 0]],
                    accounts |-> [a \in Members |-> [count |-> 0, weight |-> 0]]]
  BY DEF Nft!Init
<1>2. /\ nftRows.pool = [created |-> FALSE, current |-> NoToken, supply |-> 0, weight |-> 0]
      /\ nftRows.batches = [b \in Batches |-> [active |-> FALSE, paused |-> FALSE, minted |-> 0]]
      /\ nftRows.nfts = [t \in Tokens |-> [owner |-> NoOne, weight |-> 0, level |-> 0, batch |-> NoToken,
                                           referrer |-> NoToken, referrals |-> 0]]
      /\ nftRows.accounts = [a \in Members |-> [count |-> 0, weight |-> 0]]
  BY <1>1
<1>3. nftRows \in NftTable
  <2>1. nftRows.pool \in NftPoolRow
    BY <1>2 DEF NftPoolRow
  <2>2. nftRows.batches \in [Batches -> BatchRow]
    BY <1>2 DEF BatchRow
  <2>3. nftRows.nfts \in [Tokens -> NftRow]
    BY <1>2 DEF NftRow
  <2>4. nftRows.accounts \in [Members -> AccountRow]
    BY <1>2 DEF AccountRow
  <2> QED
    BY <1>1, <2>1, <2>2, <2>3, <2>4 DEF NftTable
<1>4. NftTypes
  <2>1. Nft!Unminted \in NftState
    BY DEF Nft!Unminted, NftState
  <2>2. nfts \in [Tokens -> NftState]
    BY <1>1, <2>1
  <2>3. /\ pool \in {"absent", "created"} /\ nftLogs \in Seq(NftLog) /\ nftKnown \in BOOLEAN
        /\ open \in [Batches -> {"absent", "active", "paused", "closed"}]
    <3>1. pool = "absent" /\ nftLogs = <<>> /\ nftKnown = FALSE /\ open = [b \in Batches |-> "absent"]
      BY <1>1
    <3>2. pool \in {"absent", "created"} /\ nftKnown \in BOOLEAN
      BY ONLY <3>1
    <3>3. nftLogs \in Seq(NftLog)
      BY ONLY <3>1
    <3>4. open \in [Batches -> {"absent", "active", "paused", "closed"}]
      BY ONLY <3>1
    <3> QED
      BY <3>2, <3>3, <3>4
  <2> QED
    BY <1>3, <2>2, <2>3 DEF NftTypes
<1>5. \A t \in Tokens : /\ nfts[t].owner = NoOne /\ nfts[t].level = 0 /\ nfts[t].batch = NoToken
                        /\ nfts[t].referrer = NoToken /\ ~Nft!Minted(t)
  BY <1>1 DEF Nft!Unminted, Nft!Minted
<1>6. Nft!FactoryEvents = {} /\ \A n \in 1..Len(nftLogs) : FALSE
  BY <1>1 DEF Nft!FactoryEvents
<1>7. AfterCreation /\ UnmintedAreBlank /\ AnnouncedOnce
  BY <1>1, <1>5, <1>6 DEF AfterCreation, UnmintedAreBlank, AnnouncedOnce
<1>8. Nft!FactoryRows = nftRows
  BY <1>3, <1>6 DEF Nft!FactoryRows, NftTable, NftPoolRow
<1>9. NftReplayed(nftRows)
  BY <1>3, <1>4, <1>6, <1>8, ReplayNothing DEF NftReplayed, NftTypes
<1>10. OpenRows(nftRows) /\ TokenRows(nftRows)
  <2>1. \A b \in Batches : nftRows.batches[b].active = FALSE /\ open[b] = "absent"
    BY <1>1, <1>2
  <2>2. \A t \in Tokens : /\ nftRows.nfts[t].owner = NoOne /\ nftRows.nfts[t].level = 0
                          /\ nftRows.nfts[t].batch = NoToken /\ nftRows.nfts[t].referrer = NoToken
    BY <1>2
  <2>3. nftRows.pool.created = FALSE /\ pool = "absent"
    BY <1>1, <1>2
  <2>5. OpenRows(nftRows)
    <3>1. /\ nftRows.pool.created \in BOOLEAN /\ ~nftRows.pool.created
          /\ \A b \in Batches : nftRows.batches[b].active \in BOOLEAN /\ ~nftRows.batches[b].active
      BY <2>1, <2>3
    <3> QED
      BY ONLY <2>1, <2>3, <3>1 DEF OpenRows
  <2>4. TokenRows(nftRows)
    BY <1>5, <2>2 DEF TokenRows
  <2> QED
    BY <2>4, <2>5
<1>11. Cardinality({}) = 0
  BY FS_EmptySet
<1>12. CountRows(nftRows)
  <2>1. AllMinted = {} /\ \A t \in Tokens : ReferredBy(t) = {}
    BY <1>5, MiningAssumption DEF AllMinted, ReferredBy
  <2>2. \A b \in Batches : OfBatch(b) = {}
    BY <1>5, MiningAssumption DEF OfBatch
  <2>3. /\ nftRows.pool.supply = 0 /\ \A t \in Tokens : nftRows.nfts[t].referrals = 0
        /\ \A b \in Batches : nftRows.batches[b].minted = 0
    BY <1>2
  <2> QED
    BY <1>11, <2>1, <2>2, <2>3 DEF CountRows
<1>13. WeightRows(nftRows)
  <2>1. Nft!Owned(Members) = {} /\ \A a \in Members : Nft!Owned({a}) = {}
    BY <1>5, MiningAssumption DEF Nft!Owned
  <2>2. Nft!SumOfWeights({}) = 0
    BY SameSums, SumEmpty DEF Nft!SumOfWeights
  <2>3. nftRows.pool.weight = 0 /\ \A a \in Members : nftRows.accounts[a].weight = 0 /\ nftRows.accounts[a].count = 0
    BY <1>2
  <2> QED
    BY <1>11, <2>1, <2>2, <2>3 DEF WeightRows
<1> QED
  BY <1>3, <1>4, <1>7, <1>9, <1>10, <1>12, <1>13 DEF NftInv, NftPending, NftFollows

\* Between blocks the tables are the ones that follow the contract.
LEMMA NftRowsBetweenBlocks ==
  ASSUME NftInv
  PROVE  Nft!WeightsAgree /\ Nft!NftRowsFollow
<1> SUFFICES ASSUME nftLogs = <<>> PROVE Nft!WeightsAgree /\ Nft!NftRowsFollow
  BY DEF Nft!WeightsAgree, Nft!NftRowsFollow, Nft!Finished
<1>1. PICK v \in NftTable : NftReplayed(v) /\ NftFollows(v)
  BY DEF NftInv, NftPending
<1>2. v = nftRows
  <2>1. Nft!FactoryEvents = {}
    BY DEF Nft!FactoryEvents
  <2>2. Nft!FactoryRows = nftRows
    BY <2>1 DEF Nft!FactoryRows, NftInv, NftTypes, NftTable, NftPoolRow
  <2> QED
    BY <1>1, <2>2 DEF NftReplayed, ReplaysTo, Replays
<1>3. \A S : Nft!Cardinality(S) = Cardinality(S)
  BY DEF Nft!Cardinality, Cardinality
<1>4. Nft!WeightsAgree
  BY <1>1, <1>2, <1>3 DEF Nft!WeightsAgree, NftFollows, WeightRows
<1>5. Nft!NftRowsFollow
  BY <1>1, <1>2, <1>3 DEF Nft!NftRowsFollow, NftFollows, OpenRows, TokenRows, CountRows, AllMinted, OfBatch,
                          ReferredBy
<1> QED
  BY <1>4, <1>5

-----------------------------------------------------------------------------
(***************************************************************************)
(* The Basket pools: what a log and a table are, and what each event       *)
(* changes.                                                                *)
(***************************************************************************)
ParentLog ==
    [kind : {"BASKET_STAKE_CREATED"}, factory : Factories, basket : Baskets, amount : Int] \cup
    [kind : {"BASKET_CHILD_POOL_CREATED"}, factory : Factories, basket : Baskets] \cup
    [kind : {"BASKET_STAKE_UPDATED"}, factory : Factories, basket : Baskets, previous : Int, amount : Int]
HolderLog == [kind : Tvl!ChildKinds, basket : Baskets, account : Members, amount : Int]
TvlLog == [kind : {"BASKET_TVL_MINING_CREATED"}] \cup ParentLog \cup HolderLog

Position == [staked : Int, requested : Int, redeemed : Int, claimed : Int]
ParentPoolRow == [created : BOOLEAN, baskets : Int, mining : Int]
ChildPoolRow == [created : BOOLEAN, staked : Int, claimed : Int]

TvlTable == [pool : ParentPoolRow, stakes : [Baskets -> Int], children : [Baskets -> ChildPoolRow],
             positions : [Baskets -> [Members -> Position]]]

\* A log of the parent pool, or of a child pool of some baskets, and no other.
ParentTakes(e) == e.kind \in Tvl!ParentKinds /\ e.factory = "ours"
ChildTakes(e, O) == e.kind \in Tvl!ChildKinds /\ e.basket \in O

TvlWrite(v, e, O) ==
    IF ParentTakes(e) THEN Tvl!ParentRow(v, e) ELSE IF ChildTakes(e, O) THEN Tvl!ChildRow(v, e) ELSE v

TvlApply(O) == [x \in TvlLog \X TvlTable |-> TvlWrite(x[2], x[1], O)]

\* What the events make of the tables.
Staking(v, w, b, count, amount, more) ==
    /\ w.pool = [created |-> v.pool.created, baskets |-> v.pool.baskets + count,
                 mining |-> v.pool.mining + more]
    /\ w.stakes = [v.stakes EXCEPT ![b] = amount]
    /\ w.children = v.children /\ w.positions = v.positions

Opening(v, w, b) ==
    /\ w.pool = v.pool /\ w.stakes = v.stakes /\ w.positions = v.positions
    /\ w.children = [v.children EXCEPT ![b] = [created |-> TRUE, staked |-> v.children[b].staked,
                                               claimed |-> v.children[b].claimed]]

Plus(p, d) == [staked |-> p.staked + d.staked, requested |-> p.requested + d.requested,
               redeemed |-> p.redeemed + d.redeemed, claimed |-> p.claimed + d.claimed]

Paying(v, w, b, who, d) ==
    /\ w.pool = v.pool /\ w.stakes = v.stakes
    /\ w.children = [v.children EXCEPT ![b] = [created |-> v.children[b].created,
                                               staked |-> v.children[b].staked + d.staked,
                                               claimed |-> v.children[b].claimed + d.claimed]]
    /\ w.positions = [v.positions EXCEPT ![b] =
                         [v.positions[b] EXCEPT ![who] = Plus(v.positions[b][who], d)]]

\* What a holder's event adds to the position.
Added(e) ==
    [staked    |-> IF e.kind = "BASKET_CHILD_DEPOSITED" THEN e.amount
                   ELSE IF e.kind = "BASKET_CHILD_WITHDRAW_REQUESTED" THEN -e.amount ELSE 0,
     requested |-> IF e.kind = "BASKET_CHILD_WITHDRAW_REQUESTED" THEN e.amount ELSE 0,
     redeemed  |-> IF e.kind = "BASKET_CHILD_REDEEMED" THEN e.amount ELSE 0,
     claimed   |-> IF e.kind = "BASKET_CHILD_REWARDS_CLAIMED" THEN e.amount ELSE 0]

LEMMA StakingRow ==
  ASSUME NEW v \in TvlTable, NEW b \in Baskets, NEW a \in Int, NEW c \in Int, NEW m \in Int,
         NEW w, w.pool = [created |-> v.pool.created, baskets |-> v.pool.baskets + c, mining |-> v.pool.mining + m],
         w = [v EXCEPT !.stakes = [v.stakes EXCEPT ![b] = a], !.pool = w.pool]
  PROVE  w \in TvlTable /\ Staking(v, w, b, c, a, m)
<1>1. w.stakes = [v.stakes EXCEPT ![b] = a] /\ w.children = v.children /\ w.positions = v.positions
  BY DEF TvlTable
<1>2. w.pool \in ParentPoolRow /\ w.stakes \in [Baskets -> Int]
  BY <1>1 DEF TvlTable, ParentPoolRow
<1>3. w \in TvlTable
  BY <1>1, <1>2 DEF TvlTable
<1> QED
  BY <1>1, <1>3 DEF Staking

LEMMA StakeCreatedRow ==
  ASSUME NEW v \in TvlTable, NEW b \in Baskets, NEW a \in Int,
         NEW e, e.kind = "BASKET_STAKE_CREATED", e.basket = b, e.amount = a,
         NEW w, w = Tvl!ParentRow(v, e)
  PROVE  w \in TvlTable /\ Staking(v, w, b, 1, a, a)
<1>1. w = [v EXCEPT !.stakes[b] = a, !.pool.baskets = @ + 1, !.pool.mining = @ + a]
  BY DEF Tvl!ParentRow
<1>2. w.pool = [created |-> v.pool.created, baskets |-> v.pool.baskets + 1, mining |-> v.pool.mining + a]
  <2>1. PICK p \in ParentPoolRow : p = v.pool
    BY DEF TvlTable
  <2>2. w.pool = [p EXCEPT !.baskets = @ + 1, !.mining = @ + a]
    BY <1>1, <2>1 DEF TvlTable
  <2> QED
    BY <2>1, <2>2 DEF ParentPoolRow
<1>3. w = [v EXCEPT !.stakes = [v.stakes EXCEPT ![b] = a], !.pool = w.pool]
  BY <1>1 DEF TvlTable
<1>4. 1 \in Int
  OBVIOUS
<1> QED
  BY ONLY v \in TvlTable, b \in Baskets, a \in Int, <1>2, <1>3, <1>4, StakingRow

LEMMA StakeUpdatedRows ==
  ASSUME NEW v \in TvlTable, NEW b \in Baskets, NEW a \in Int, NEW p \in Int,
         NEW e, e.kind = "BASKET_STAKE_UPDATED", e.basket = b, e.amount = a, e.previous = p,
         NEW w, w = Tvl!ParentRow(v, e)
  PROVE  w \in TvlTable /\ Staking(v, w, b, 0, a, a - p)
<1>1. w = [v EXCEPT !.stakes[b] = a, !.pool.mining = @ + (a - p)]
  BY DEF Tvl!ParentRow, Tvl!StakeUpdatedRow
<1>2. w.pool = [created |-> v.pool.created, baskets |-> v.pool.baskets + 0, mining |-> v.pool.mining + (a - p)]
  BY <1>1 DEF TvlTable, ParentPoolRow
<1>3. w = [v EXCEPT !.stakes = [v.stakes EXCEPT ![b] = a], !.pool = w.pool]
  BY <1>1 DEF TvlTable
<1>4. 0 \in Int /\ a - p \in Int
  OBVIOUS
<1> QED
  BY ONLY v \in TvlTable, b \in Baskets, a \in Int, <1>2, <1>3, <1>4, StakingRow

LEMMA ChildOpenedRow ==
  ASSUME NEW v \in TvlTable, NEW b \in Baskets,
         NEW e, e.kind = "BASKET_CHILD_POOL_CREATED", e.basket = b,
         NEW w, w = Tvl!ParentRow(v, e)
  PROVE  w \in TvlTable /\ Opening(v, w, b)
<1>1. w = [v EXCEPT !.children[b].created = TRUE]
  BY DEF Tvl!ParentRow
<1>2. w.pool = v.pool /\ w.stakes = v.stakes /\ w.positions = v.positions
  BY <1>1 DEF TvlTable
<1>3. w.children = [v.children EXCEPT ![b] = [created |-> TRUE, staked |-> v.children[b].staked,
                                              claimed |-> v.children[b].claimed]]
  <2>1. PICK c \in ChildPoolRow, yes \in BOOLEAN : c = v.children[b] /\ yes = TRUE
    BY DEF TvlTable
  <2>2. w.children = [v.children EXCEPT ![b] = [c EXCEPT !.created = yes]]
    BY <1>1, <2>1 DEF TvlTable
  <2>3. [c EXCEPT !.created = yes] = [created |-> yes, staked |-> c.staked, claimed |-> c.claimed]
    BY DEF ChildPoolRow
  <2> QED
    BY <2>1, <2>2, <2>3
<1>4. w.children \in [Baskets -> ChildPoolRow]
  BY <1>3 DEF TvlTable, ChildPoolRow
<1>5. w \in TvlTable
  BY <1>1, <1>2, <1>4 DEF TvlTable
<1> QED
  BY <1>2, <1>3, <1>5 DEF Opening

LEMMA AddedTypes ==
  ASSUME NEW e \in HolderLog
  PROVE  Added(e) \in Position /\ e.basket \in Baskets /\ e.account \in Members /\ e.amount \in Int
BY DEF HolderLog, Added, Position

LEMMA PayingRow ==
  ASSUME NEW v \in TvlTable, NEW e \in HolderLog, NEW w, w = Tvl!ChildRow(v, e)
  PROVE  w \in TvlTable /\ Paying(v, w, e.basket, e.account, Added(e))
<1>1. PICK b \in Baskets, who \in Members, a \in Int, d \in Position :
         b = e.basket /\ who = e.account /\ a = e.amount /\ d = Added(e)
  BY AddedTypes
<1>2. e.kind \in Tvl!ChildKinds
  BY DEF HolderLog
<1>3. PICK p \in Position : p = v.positions[b][who]
  BY DEF TvlTable
<1>4. PICK c \in ChildPoolRow : c = v.children[b]
  BY DEF TvlTable
<1>5. /\ w.pool = v.pool /\ w.stakes = v.stakes
      /\ w.children = [v.children EXCEPT ![b] = [created |-> c.created, staked |-> c.staked + d.staked,
                                                 claimed |-> c.claimed + d.claimed]]
      /\ w.positions = [v.positions EXCEPT ![b] = [v.positions[b] EXCEPT ![who] = Plus(p, d)]]
      /\ w = [v EXCEPT !.children = w.children, !.positions = w.positions]
  <2>1. CASE e.kind = "BASKET_CHILD_DEPOSITED"
    <3>1. d = [staked |-> a, requested |-> 0, redeemed |-> 0, claimed |-> 0]
      BY <1>1, <2>1 DEF Added
    <3>2. w = [v EXCEPT !.children[b].staked = @ + a, !.positions[b][who].staked = @ + a]
      BY <1>1, <2>1 DEF Tvl!ChildRow
    <3>3. /\ w.pool = v.pool /\ w.stakes = v.stakes
          /\ w.children = [v.children EXCEPT ![b] = [c EXCEPT !.staked = @ + a]]
          /\ w.positions = [v.positions EXCEPT ![b] = [v.positions[b] EXCEPT ![who] = [p EXCEPT !.staked = @ + a]]]
          /\ w = [v EXCEPT !.children = w.children, !.positions = w.positions]
      BY <1>3, <1>4, <3>2 DEF TvlTable
    <3>4. [c EXCEPT !.staked = @ + a] = [created |-> c.created, staked |-> c.staked + d.staked, claimed |-> c.claimed + d.claimed]
      BY <3>1 DEF ChildPoolRow
    <3>5. [p EXCEPT !.staked = @ + a] = Plus(p, d)
      BY <3>1 DEF Position, Plus
    <3> QED
      BY <3>3, <3>4, <3>5
  <2>2. CASE e.kind = "BASKET_CHILD_WITHDRAW_REQUESTED"
    <3>1. d = [staked |-> -a, requested |-> a, redeemed |-> 0, claimed |-> 0]
      BY <1>1, <2>2 DEF Added
    <3>2. w = [v EXCEPT !.children[b].staked = @ - a, !.positions[b][who].staked = @ - a,
                        !.positions[b][who].requested = @ + a]
      BY <1>1, <2>2 DEF Tvl!ChildRow, Tvl!WithdrawRow
    <3>3. /\ w.pool = v.pool /\ w.stakes = v.stakes
          /\ w.children = [v.children EXCEPT ![b] = [c EXCEPT !.staked = @ - a]]
          /\ w.positions = [v.positions EXCEPT ![b][who].staked = @ - a, ![b][who].requested = @ + a]
          /\ w = [v EXCEPT !.children = w.children, !.positions = w.positions]
      BY <1>4, <3>2 DEF TvlTable
    <3>4. PICK n \in Int : n = -a /\ \A i \in Int : i - a = i + n
      OBVIOUS
    <3>5. [c EXCEPT !.staked = @ - a] = [created |-> c.created, staked |-> c.staked + d.staked, claimed |-> c.claimed + d.claimed]
      <4>1. d.staked = n /\ d.claimed = 0
        BY <3>1, <3>4
      <4>2. c.staked - a = c.staked + n /\ c.claimed + 0 = c.claimed
        BY <3>4 DEF ChildPoolRow
      <4>3. [c EXCEPT !.staked = @ - a] = [created |-> c.created, staked |-> c.staked - a, claimed |-> c.claimed]
        BY DEF ChildPoolRow
      <4> QED
        BY <4>1, <4>2, <4>3
    <3>6. PICK q : q = [staked |-> p.staked - a, requested |-> p.requested, redeemed |-> p.redeemed,
                        claimed |-> p.claimed]
      OBVIOUS
    <3>12. q = [p EXCEPT !.staked = @ - a] /\ q \in Position
      BY <3>6 DEF Position
    <3>7. [q EXCEPT !.requested = @ + a] = Plus(p, d)
      <4>1. q = [staked |-> p.staked + n, requested |-> p.requested, redeemed |-> p.redeemed, claimed |-> p.claimed]
        BY <3>4, <3>6, <3>12 DEF Position
      <4>2. d = [staked |-> n, requested |-> a, redeemed |-> 0, claimed |-> 0]
        BY <3>1, <3>4
      <4>3. p.redeemed + 0 = p.redeemed /\ p.claimed + 0 = p.claimed
        BY DEF Position
      <4> QED
        BY ONLY <4>1, <4>2, <4>3 DEF Plus
    <3>8. PICK first : first = [v.positions EXCEPT ![b] = [v.positions[b] EXCEPT ![who] = q]]
      OBVIOUS
    <3>9. [v.positions EXCEPT ![b][who].staked = @ - a] = first
      BY <1>3, <3>8, <3>12 DEF TvlTable
    <3>10. w.positions = [first EXCEPT ![b][who].requested = @ + a]
      <4>1. w.positions = [v.positions EXCEPT ![b][who].staked = @ - a, ![b][who].requested = @ + a]
        BY <3>3
      <4> QED
        BY ONLY <3>9, <4>1
    <3>11. w.positions = [v.positions EXCEPT ![b] = [v.positions[b] EXCEPT ![who] = [q EXCEPT !.requested = @ + a]]]
      <4>1. PICK z : z = [q EXCEPT !.requested = @ + a]
        OBVIOUS
      <4>2. /\ v.positions \in [Baskets -> [Members -> Position]]
            /\ first \in [Baskets -> [Members -> Position]]
            /\ first[b] = [v.positions[b] EXCEPT ![who] = q] /\ first[b][who] = q
        BY <3>8, <3>12 DEF TvlTable
      <4>3. w.positions = [first EXCEPT ![b] = [first[b] EXCEPT ![who] = z]]
        BY <3>10, <4>1, <4>2
      <4>4. [first[b] EXCEPT ![who] = z] = [v.positions[b] EXCEPT ![who] = z]
        BY <4>2
      <4> QED
        BY <3>8, <4>1, <4>2, <4>3, <4>4
    <3> QED
      BY <3>3, <3>5, <3>7, <3>11
  <2>3. CASE e.kind = "BASKET_CHILD_REDEEMED"
    <3>1. d = [staked |-> 0, requested |-> 0, redeemed |-> a, claimed |-> 0]
      BY <1>1, <2>3 DEF Added
    <3>2. w = [v EXCEPT !.positions[b][who].redeemed = @ + a]
      BY <1>1, <2>3 DEF Tvl!ChildRow
    <3>3. /\ w.pool = v.pool /\ w.stakes = v.stakes
          /\ w.children = v.children
          /\ w.positions = [v.positions EXCEPT ![b] = [v.positions[b] EXCEPT ![who] = [p EXCEPT !.redeemed = @ + a]]]
          /\ w = [v EXCEPT !.children = w.children, !.positions = w.positions]
      BY <1>3, <1>4, <3>2 DEF TvlTable
    <3>4. c = [created |-> c.created, staked |-> c.staked + d.staked, claimed |-> c.claimed + d.claimed]
      BY <3>1 DEF ChildPoolRow
    <3>5. [p EXCEPT !.redeemed = @ + a] = Plus(p, d)
      BY <3>1 DEF Position, Plus
    <3>6. v.children = [v.children EXCEPT ![b] = c]
      BY <1>4 DEF TvlTable
    <3> QED
      BY <3>3, <3>4, <3>5, <3>6
  <2>4. CASE e.kind = "BASKET_CHILD_REWARDS_CLAIMED"
    <3>1. d = [staked |-> 0, requested |-> 0, redeemed |-> 0, claimed |-> a]
      BY <1>1, <2>4 DEF Added
    <3>2. w = [v EXCEPT !.children[b].claimed = @ + a, !.positions[b][who].claimed = @ + a]
      BY <1>1, <2>4 DEF Tvl!ChildRow
    <3>3. /\ w.pool = v.pool /\ w.stakes = v.stakes
          /\ w.children = [v.children EXCEPT ![b] = [c EXCEPT !.claimed = @ + a]]
          /\ w.positions = [v.positions EXCEPT ![b] = [v.positions[b] EXCEPT ![who] = [p EXCEPT !.claimed = @ + a]]]
          /\ w = [v EXCEPT !.children = w.children, !.positions = w.positions]
      BY <1>3, <1>4, <3>2 DEF TvlTable
    <3>4. [c EXCEPT !.claimed = @ + a] = [created |-> c.created, staked |-> c.staked + d.staked, claimed |-> c.claimed + d.claimed]
      BY <3>1 DEF ChildPoolRow
    <3>5. [p EXCEPT !.claimed = @ + a] = Plus(p, d)
      BY <3>1 DEF Position, Plus
    <3> QED
      BY <3>3, <3>4, <3>5
  <2> QED
    BY <1>2, <2>1, <2>2, <2>3, <2>4 DEF Tvl!ChildKinds
<1>6. w.children \in [Baskets -> ChildPoolRow]
  BY <1>4, <1>5 DEF TvlTable, ChildPoolRow, Position
<1>7. w.positions \in [Baskets -> [Members -> Position]]
  <2>1. Plus(p, d) \in Position
    BY DEF Plus, Position
  <2> QED
    BY <1>5, <2>1 DEF TvlTable
<1>8. w \in TvlTable
  BY <1>5, <1>6, <1>7 DEF TvlTable
<1> QED
  BY <1>1, <1>3, <1>4, <1>5, <1>8 DEF Paying

-----------------------------------------------------------------------------
(***************************************************************************)
(* The Basket pools' invariant: replaying the block's logs over the tables *)
(* gives the rows of the parent pool and of its children.                  *)
(***************************************************************************)
TvlTypes ==
    /\ parent \in BOOLEAN
    /\ stakes \in [Baskets -> Int]
    /\ children \in [Baskets -> Factories \cup {"absent"}]
    /\ positions \in [Baskets -> [Members -> Position]]
    /\ tvlLogs \in Seq(TvlLog)
    /\ tvlParents \in BOOLEAN
    /\ found \in SUBSET Baskets
    /\ tvlRows \in TvlTable

\* Only a created parent has baskets, its logs are about them, and a child
\* pool emits only once it exists.
ParentFirst ==
    /\ tvlParents => parent
    /\ Tvl!Ours # {} => parent
    /\ \A n \in 1..Len(tvlLogs) :
          /\ ParentTakes(tvlLogs[n]) => tvlLogs[n].basket \in Tvl!Ours
          /\ tvlLogs[n].kind \in Tvl!ChildKinds => children[tvlLogs[n].basket] # "absent"

ParentOnce ==
    IF parent /\ ~tvlParents THEN \E n \in Nat : Tvl!FactoryEvents = {n}
    ELSE Tvl!FactoryEvents = {}

\* Nobody has a position in a child pool that does not exist.
NothingBefore ==
    \A b \in Baskets : children[b] = "absent" => positions[b] = [h \in Members |-> Tvl!Empty]

\* A child of our parent is in the store, or its creation in the block.
Opens(e, b) == ParentTakes(e) /\ e.kind = "BASKET_CHILD_POOL_CREATED" /\ e.basket = b

ChildrenKnown ==
    /\ found \subseteq Tvl!Ours
    /\ \A b \in Tvl!Ours : b \in found \/ \E n \in 1..Len(tvlLogs) : Opens(tvlLogs[n], b)

StakeRows(v) ==
    /\ v.pool.created = parent
    /\ v.pool.mining = SumFunctionOnSet(stakes, Tvl!Ours)
    /\ v.pool.baskets = Cardinality(Tvl!Ours)
    /\ \A b \in Tvl!Ours : v.stakes[b] = stakes[b]

ChildRows(v) ==
    \A b \in Baskets :
        /\ v.children[b].created <=> b \in Tvl!Ours
        /\ v.positions[b] = IF b \in Tvl!Ours THEN positions[b] ELSE [h \in Members |-> Tvl!Empty]

TotalRows(v) ==
    \A b \in Baskets :
        /\ v.children[b].staked = SumFunctionOnSet([h \in Members |-> v.positions[b][h].staked], Members)
        /\ v.children[b].claimed = SumFunctionOnSet([h \in Members |-> v.positions[b][h].claimed], Members)

TvlFollows(v) == StakeRows(v) /\ ChildRows(v) /\ TotalRows(v)

TvlReached(base, O, logs, v) ==
    logs \in Seq(TvlLog) /\ v \in TvlTable /\ ReplaysTo(TvlTable, base, logs, TvlApply(O), v)

TvlPending == \E v \in TvlTable : TvlReached(Tvl!FactoryRows, Tvl!Ours, tvlLogs, v) /\ TvlFollows(v)

TvlInv == TvlTypes /\ ParentFirst /\ ParentOnce /\ NothingBefore /\ ChildrenKnown /\ TvlPending

-----------------------------------------------------------------------------
LEMMA TvlReachOneMore ==
  ASSUME NEW base, NEW O, NEW logs, NEW v, TvlReached(base, O, logs, v), NEW e \in TvlLog,
         NEW w \in TvlTable, w = TvlWrite(v, e, O)
  PROVE  TvlReached(base, O, Append(logs, e), w)
<1>1. v \in TvlTable /\ logs \in Seq(TvlLog) /\ ReplaysTo(TvlTable, base, logs, TvlApply(O), v)
  BY DEF TvlReached
<1>2. TvlApply(O)[<<e, v>>] = w
  BY <1>1 DEF TvlApply
<1>3. ReplaysTo(TvlTable, base, Append(logs, e), TvlApply(O), w)
  BY <1>1, <1>2, ReplayOneMore
<1>4. Append(logs, e) \in Seq(TvlLog)
  BY <1>1
<1> QED
  BY <1>3, <1>4 DEF TvlReached

\* A new child pool changes nothing in the replay of logs it did not send.
LEMMA TvlReachLarger ==
  ASSUME NEW base, NEW O, NEW logs, NEW v, TvlReached(base, O, logs, v), NEW P,
         \A n \in 1..Len(logs) : ChildTakes(logs[n], O) <=> ChildTakes(logs[n], P)
  PROVE  TvlReached(base, P, logs, v)
<1>1. v \in TvlTable /\ logs \in Seq(TvlLog) /\ ReplaysTo(TvlTable, base, logs, TvlApply(O), v)
  BY DEF TvlReached
<1>2. PICK L \in Nat : L = Len(logs)
  BY <1>1
<1>3. PICK g \in [0..L -> TvlTable] : Replays(g, base, logs, TvlApply(O)) /\ v = g[L]
  BY <1>1, <1>2 DEF ReplaysTo
<1>4. ASSUME NEW n \in 1..L PROVE g[n] = TvlApply(P)[<<logs[n], g[n - 1]>>]
  <2>1. n - 1 \in 0..L
    OBVIOUS
  <2>2. logs[n] \in TvlLog /\ g[n - 1] \in TvlTable
    BY <1>1, <1>2, <2>1
  <2>3. TvlApply(O)[<<logs[n], g[n - 1]>>] = TvlApply(P)[<<logs[n], g[n - 1]>>]
    BY <1>2, <2>2 DEF TvlApply, TvlWrite
  <2>4. g[n] = TvlApply(O)[<<logs[n], g[n - 1]>>]
    BY <1>2, <1>3 DEF Replays
  <2> QED
    BY <2>3, <2>4
<1>5. Replays(g, base, logs, TvlApply(P))
  BY <1>2, <1>3, <1>4 DEF Replays
<1> QED
  BY <1>1, <1>2, <1>3, <1>5 DEF TvlReached, ReplaysTo

\* A step of the parent or of a child: its logs are replayed and none is the
\* factory's.
LEMMA BasketStep ==
  ASSUME TvlInv, parent' = parent, tvlParents' = tvlParents, found' = found, tvlRows' = tvlRows,
         stakes' \in [Baskets -> Int], children' \in [Baskets -> Factories \cup {"absent"}],
         positions' \in [Baskets -> [Members -> Position]],
         ParentFirst', NothingBefore', ChildrenKnown',
         OfKind(tvlLogs', "BASKET_TVL_MINING_CREATED") = OfKind(tvlLogs, "BASKET_TVL_MINING_CREATED"),
         NEW w, TvlReached(Tvl!FactoryRows, Tvl!Ours', tvlLogs', w), TvlFollows(w)'
  PROVE  TvlInv'
<1>1. Tvl!FactoryEvents' = Tvl!FactoryEvents
  BY DEF Tvl!FactoryEvents, OfKind
<1>2. Tvl!FactoryRows' = Tvl!FactoryRows
  BY <1>1 DEF Tvl!FactoryRows
<1>3. TvlTypes'
  BY DEF TvlInv, TvlTypes, TvlReached
<1>4. ParentOnce'
  BY <1>1 DEF TvlInv, ParentOnce
<1>5. TvlPending'
  BY <1>2 DEF TvlPending, TvlReached
<1> QED
  BY <1>3, <1>4, <1>5 DEF TvlInv

-----------------------------------------------------------------------------
(***************************************************************************)
(* The child pools' holders.                                               *)
(***************************************************************************)
\* A payment changes the total as it changes the position.
LEMMA PayingTotals ==
  ASSUME NEW v \in TvlTable, NEW w \in TvlTable, NEW b \in Baskets, NEW who \in Members,
         NEW d \in Position, Paying(v, w, b, who, d), TotalRows(v)
  PROVE  TotalRows(w)
<1>1. ASSUME NEW x \in Baskets
      PROVE  /\ w.children[x].staked = SumFunctionOnSet([h \in Members |-> w.positions[x][h].staked], Members)
             /\ w.children[x].claimed = SumFunctionOnSet([h \in Members |-> w.positions[x][h].claimed], Members)
  <2>1. CASE x # b
    <3>1. w.children[x] = v.children[x] /\ w.positions[x] = v.positions[x]
      BY <2>1 DEF Paying, TvlTable
    <3> QED
      BY <3>1 DEF TotalRows
  <2>2. CASE x = b
    <3>1. PICK f, g, k, l : /\ f = [h \in Members |-> v.positions[b][h].staked]
                            /\ g = [h \in Members |-> w.positions[b][h].staked]
                            /\ k = [h \in Members |-> v.positions[b][h].claimed]
                            /\ l = [h \in Members |-> w.positions[b][h].claimed]
      OBVIOUS
    <3>2. PICK p \in Position : p = v.positions[b][who]
      BY DEF TvlTable
    <3>3. /\ w.positions[b][who] = Plus(p, d)
          /\ \A h \in Members \ {who} : w.positions[b][h] = v.positions[b][h]
      BY <3>2 DEF Paying, TvlTable
    <3>4. /\ f[who] = p.staked /\ g[who] = p.staked + d.staked
          /\ k[who] = p.claimed /\ l[who] = p.claimed + d.claimed
      BY <3>1, <3>2, <3>3 DEF Plus
    <3>5. \A h \in Members \ {who} : g[h] = f[h] /\ l[h] = k[h]
      BY <3>1, <3>3
    <3>6. NumericOn(f, Members) /\ NumericOn(k, Members)
      BY <3>1 DEF NumericOn, TvlTable, Position
    <3>7. p.staked \in Int /\ p.claimed \in Int /\ d.staked \in Int /\ d.claimed \in Int
      BY DEF Position
    <3>8. IsFiniteSet(Members)
      BY MiningAssumption
    <3>9. SumFunctionOnSet(g, Members) = SumFunctionOnSet(f, Members) - f[who] + g[who]
      BY <3>4, <3>5, <3>6, <3>7, <3>8, SumChange
    <3>10. SumFunctionOnSet(l, Members) = SumFunctionOnSet(k, Members) - k[who] + l[who]
      BY <3>4, <3>5, <3>6, <3>7, <3>8, SumChange
    <3>11. SumFunctionOnSet(f, Members) \in Int /\ SumFunctionOnSet(k, Members) \in Int
      BY <3>6, <3>8, SumType
    <3>12. /\ v.children[b].staked = SumFunctionOnSet(f, Members)
           /\ v.children[b].claimed = SumFunctionOnSet(k, Members)
      BY <3>1 DEF TotalRows
    <3>13. /\ w.children[b].staked = v.children[b].staked + d.staked
           /\ w.children[b].claimed = v.children[b].claimed + d.claimed
      BY DEF Paying, TvlTable, ChildPoolRow
    <3>14. /\ w.children[b].staked = SumFunctionOnSet(g, Members)
           /\ w.children[b].claimed = SumFunctionOnSet(l, Members)
      BY <3>4, <3>7, <3>9, <3>10, <3>11, <3>12, <3>13
    <3> QED
      BY <2>2, <3>1, <3>14
  <2> QED
    BY <2>1, <2>2
<1> QED
  BY <1>1 DEF TotalRows

LEMMA HolderFollows ==
  ASSUME TvlTypes, NEW e \in HolderLog, children' = children, stakes' = stakes, parent' = parent,
         positions' = [positions EXCEPT ![e.basket] =
                          [positions[e.basket] EXCEPT ![e.account] = Plus(positions[e.basket][e.account], Added(e))]],
         NEW v \in TvlTable, TvlFollows(v), NEW w, w = TvlWrite(v, e, Tvl!Ours)
  PROVE  w \in TvlTable /\ TvlFollows(w)'
<1>1. PICK b \in Baskets, who \in Members, d \in Position : b = e.basket /\ who = e.account /\ d = Added(e)
  BY AddedTypes
<1>2. e.kind \in Tvl!ChildKinds
  BY DEF HolderLog
<1>3. e.kind \notin Tvl!ParentKinds
  BY <1>2 DEF Tvl!ChildKinds, Tvl!ParentKinds
<1>4. Tvl!Ours' = Tvl!Ours
  BY DEF Tvl!Ours
<1>5. \A x \in Baskets : x # b => positions'[x] = positions[x]
  BY <1>1 DEF TvlTypes
<1>6. positions'[b] = [positions[b] EXCEPT ![who] = Plus(positions[b][who], d)]
  BY <1>1 DEF TvlTypes
<1>7. CASE b \notin Tvl!Ours
  <2>1. w = v
    BY <1>1, <1>3, <1>7 DEF TvlWrite, ParentTakes, ChildTakes
  <2>2. StakeRows(v)' /\ TotalRows(v)'
    BY <1>4 DEF TvlFollows, StakeRows, TotalRows
  <2>3. ChildRows(v)'
    BY <1>4, <1>5, <1>7 DEF TvlFollows, ChildRows
  <2> QED
    BY <2>1, <2>2, <2>3 DEF TvlFollows
<1>8. CASE b \in Tvl!Ours
  <2>1. w = Tvl!ChildRow(v, e)
    BY <1>1, <1>2, <1>3, <1>8 DEF TvlWrite, ParentTakes, ChildTakes
  <2>2. w \in TvlTable /\ Paying(v, w, b, who, d)
    BY <1>1, <2>1, PayingRow
  <2>3. TotalRows(w)
    BY <2>2, PayingTotals DEF TvlFollows
  <2>4. StakeRows(w)'
    BY <1>4, <2>2 DEF TvlFollows, StakeRows, Paying
  <2>5. ASSUME NEW x \in Baskets
        PROVE  /\ w.children[x].created <=> x \in Tvl!Ours
               /\ w.positions[x] = IF x \in Tvl!Ours THEN positions'[x] ELSE [h \in Members |-> Tvl!Empty]
    <3>1. w.children[x].created = v.children[x].created
      BY <2>2 DEF Paying, TvlTable, ChildPoolRow
    <3>2. CASE x = b
      <4>1. v.positions[b] = positions[b]
        BY <1>8 DEF TvlFollows, ChildRows
      <4>2. w.positions[b] = [positions[b] EXCEPT ![who] = Plus(positions[b][who], d)]
        BY <2>2, <4>1 DEF Paying, TvlTable
      <4> QED
        BY <1>6, <1>8, <3>1, <3>2, <4>2 DEF TvlFollows, ChildRows
    <3>3. CASE x # b
      <4>1. w.positions[x] = v.positions[x]
        BY <2>2, <3>3 DEF Paying, TvlTable
      <4> QED
        BY <1>5, <3>1, <3>3, <4>1 DEF TvlFollows, ChildRows
    <3> QED
      BY <3>2, <3>3
  <2>6. ChildRows(w)'
    BY <1>4, <2>5 DEF ChildRows
  <2>7. TotalRows(w)'
    BY <2>3 DEF TotalRows
  <2> QED
    BY <2>2, <2>4, <2>6, <2>7 DEF TvlFollows
<1> QED
  BY <1>7, <1>8

LEMMA HolderStep ==
  ASSUME TvlInv, NEW e \in HolderLog, children[e.basket] # "absent", tvlLogs' = tvlLogs \o <<e>>,
         parent' = parent, stakes' = stakes, children' = children, tvlParents' = tvlParents,
         found' = found, tvlRows' = tvlRows,
         positions' = [positions EXCEPT ![e.basket] =
                          [positions[e.basket] EXCEPT ![e.account] = Plus(positions[e.basket][e.account], Added(e))]]
  PROVE  TvlInv'
<1>1. TvlTypes /\ ParentFirst /\ NothingBefore /\ ChildrenKnown /\ tvlLogs \in Seq(TvlLog)
  BY DEF TvlInv, TvlTypes
<1>2. PICK v \in TvlTable : TvlReached(Tvl!FactoryRows, Tvl!Ours, tvlLogs, v) /\ TvlFollows(v)
  BY DEF TvlInv, TvlPending
<1>3. PICK w : w = TvlWrite(v, e, Tvl!Ours)
  OBVIOUS
<1>4. w \in TvlTable /\ TvlFollows(w)'
  BY <1>1, <1>2, <1>3, HolderFollows
<1>5. e \in TvlLog /\ e.kind \in Tvl!ChildKinds
  BY DEF TvlLog, HolderLog
<1>6. tvlLogs' = Append(tvlLogs, e)
  BY <1>1, <1>5, AppendIsConcat
<1>7. Tvl!Ours' = Tvl!Ours
  BY DEF Tvl!Ours
<1>8. TvlReached(Tvl!FactoryRows, Tvl!Ours', tvlLogs', w)
  BY <1>2, <1>3, <1>4, <1>5, <1>6, <1>7, TvlReachOneMore
<1>9. OfKind(tvlLogs', "BASKET_TVL_MINING_CREATED") = OfKind(tvlLogs, "BASKET_TVL_MINING_CREATED")
  <2>1. e.kind # "BASKET_TVL_MINING_CREATED"
    BY <1>5 DEF Tvl!ChildKinds
  <2>2. tvlLogs \in Seq(TvlLog) /\ e \in TvlLog
    BY <1>1, <1>5
  <2> QED
    BY ONLY <1>6, <2>1, <2>2, OneMoreOf
<1>10. PICK b \in Baskets, who \in Members, d \in Position : b = e.basket /\ who = e.account /\ d = Added(e)
  BY AddedTypes
<1>11. positions' \in [Baskets -> [Members -> Position]] /\ \A x \in Baskets : x # b => positions'[x] = positions[x]
  <2>1. Plus(positions[b][who], d) \in Position
    BY <1>1 DEF TvlTypes, Plus, Position
  <2> QED
    BY <1>1, <1>10, <2>1 DEF TvlTypes
<1>12. ~ParentTakes(e)
  BY <1>5 DEF ParentTakes, Tvl!ParentKinds, Tvl!ChildKinds
<1>13. ParentFirst'
  <2>1. \A n \in 1..Len(tvlLogs') : tvlLogs'[n] = e \/ (n \in 1..Len(tvlLogs) /\ tvlLogs'[n] = tvlLogs[n])
    BY <1>1, <1>5, <1>6, LogAppended
  <2> QED
    BY <1>1, <1>7, <1>12, <2>1 DEF ParentFirst
<1>14. NothingBefore'
  BY <1>1, <1>10, <1>11 DEF NothingBefore
<1>15. ChildrenKnown'
  <2>1. \A n \in 1..Len(tvlLogs) : n \in 1..Len(tvlLogs') /\ tvlLogs'[n] = tvlLogs[n]
    BY <1>1, <1>5, <1>6, LogAppended
  <2> QED
    BY <1>1, <1>7, <2>1 DEF ChildrenKnown
<1> QED
  BY <1>1, <1>4, <1>8, <1>9, <1>11, <1>13, <1>14, <1>15, BasketStep DEF TvlTypes

\* What a log of some kind adds, one holder's operation after the other.
LEMMA DepositStep ==
  ASSUME TvlInv, NEW b \in Baskets, NEW who \in Members, NEW a \in Int, Tvl!Deposit(b, who, a)
  PROVE  TvlInv'
<1>1. PICK e : e = [kind |-> "BASKET_CHILD_DEPOSITED", basket |-> b, account |-> who, amount |-> a]
  OBVIOUS
<1>2. e \in HolderLog
  BY <1>1 DEF HolderLog, Tvl!ChildKinds
<1>3. /\ children[b] # "absent" /\ tvlLogs' = tvlLogs \o <<e>>
      /\ parent' = parent /\ stakes' = stakes /\ children' = children /\ tvlParents' = tvlParents
      /\ found' = found /\ tvlRows' = tvlRows
      /\ positions' = [positions EXCEPT ![b][who].staked = @ + a]
  BY <1>1 DEF Tvl!Deposit, Tvl!Emit, Tvl!ChildLog
<1>4. Added(e) = [staked |-> a, requested |-> 0, redeemed |-> 0, claimed |-> 0]
  BY <1>1 DEF Added
<1>5. positions' = [positions EXCEPT ![b] = [positions[b] EXCEPT ![who] = Plus(positions[b][who], Added(e))]]
  <2>1. PICK p \in Position : p = positions[b][who]
    BY DEF TvlInv, TvlTypes
  <2>2. positions' = [positions EXCEPT ![b] = [positions[b] EXCEPT ![who] = [p EXCEPT !.staked = @ + a]]]
    BY <1>3, <2>1 DEF TvlInv, TvlTypes
  <2>3. [p EXCEPT !.staked = @ + a] = Plus(p, Added(e))
    BY <1>4 DEF Position, Plus
  <2> QED
    BY <2>1, <2>2, <2>3
<1>6. e.basket = b /\ e.account = who
  BY <1>1
<1> QED
  BY <1>2, <1>3, <1>5, <1>6, HolderStep

LEMMA RequestWithdrawStep ==
  ASSUME TvlInv, NEW b \in Baskets, NEW who \in Members, NEW a \in Int, a > 0, Tvl!RequestWithdraw(b, who, a)
  PROVE  TvlInv'
<1>1. PICK e : e = [kind |-> "BASKET_CHILD_WITHDRAW_REQUESTED", basket |-> b, account |-> who, amount |-> a]
  OBVIOUS
<1>2. e \in HolderLog
  BY <1>1 DEF HolderLog, Tvl!ChildKinds
<1>3. /\ a <= positions[b][who].staked /\ tvlLogs' = tvlLogs \o <<e>>
      /\ parent' = parent /\ stakes' = stakes /\ children' = children /\ tvlParents' = tvlParents
      /\ found' = found /\ tvlRows' = tvlRows
      /\ positions' = [positions EXCEPT ![b][who].staked = @ - a, ![b][who].requested = @ + a]
  BY <1>1 DEF Tvl!RequestWithdraw, Tvl!Emit, Tvl!ChildLog
<1>4. Added(e) = [staked |-> -a, requested |-> a, redeemed |-> 0, claimed |-> 0]
  BY <1>1 DEF Added
<1>5. PICK p \in Position : p = positions[b][who]
  BY DEF TvlInv, TvlTypes
<1>6. children[b] # "absent"
  <2> SUFFICES ASSUME children[b] = "absent" PROVE FALSE
    OBVIOUS
  <2>1. positions[b][who].staked = 0
    BY DEF TvlInv, NothingBefore, Tvl!Empty
  <2> QED
    BY <1>3, <2>1
<1>7. positions' = [positions EXCEPT ![b] = [positions[b] EXCEPT ![who] = Plus(positions[b][who], Added(e))]]
  <2>1. PICK n \in Int : n = -a /\ \A i \in Int : i - a = i + n
    OBVIOUS
  <2>2. PICK q : q = [staked |-> p.staked - a, requested |-> p.requested, redeemed |-> p.redeemed,
                      claimed |-> p.claimed]
    OBVIOUS
  <2>3. q = [p EXCEPT !.staked = @ - a] /\ q \in Position
    BY <2>2 DEF Position
  <2>4. [q EXCEPT !.requested = @ + a] = Plus(p, Added(e))
    <3>1. q = [staked |-> p.staked + n, requested |-> p.requested, redeemed |-> p.redeemed, claimed |-> p.claimed]
      BY <2>1, <2>2, <2>3 DEF Position
    <3>2. Added(e) = [staked |-> n, requested |-> a, redeemed |-> 0, claimed |-> 0]
      BY <1>4, <2>1
    <3>3. p.redeemed + 0 = p.redeemed /\ p.claimed + 0 = p.claimed
      BY DEF Position
    <3> QED
      BY ONLY <3>1, <3>2, <3>3 DEF Plus
  <2>5. PICK first : first = [positions EXCEPT ![b] = [positions[b] EXCEPT ![who] = q]]
    OBVIOUS
  <2>6. [positions EXCEPT ![b][who].staked = @ - a] = first
    BY <1>5, <2>3, <2>5 DEF TvlInv, TvlTypes
  <2>7. positions' = [first EXCEPT ![b][who].requested = @ + a]
    BY <1>3, <2>6
  <2>8. PICK z : z = [q EXCEPT !.requested = @ + a]
    OBVIOUS
  <2>9. /\ positions \in [Baskets -> [Members -> Position]]
        /\ first \in [Baskets -> [Members -> Position]]
        /\ first[b] = [positions[b] EXCEPT ![who] = q] /\ first[b][who] = q
    BY <2>3, <2>5 DEF TvlInv, TvlTypes
  <2>10. positions' = [first EXCEPT ![b] = [first[b] EXCEPT ![who] = z]]
    BY <2>7, <2>8, <2>9
  <2>11. [first[b] EXCEPT ![who] = z] = [positions[b] EXCEPT ![who] = z]
    BY <2>9
  <2> QED
    BY <1>5, <2>4, <2>5, <2>8, <2>9, <2>10, <2>11
<1>8. e.basket = b /\ e.account = who
  BY <1>1
<1> QED
  BY <1>2, <1>3, <1>6, <1>7, <1>8, HolderStep

LEMMA RedeemStep ==
  ASSUME TvlInv, NEW b \in Baskets, NEW who \in Members, NEW a \in Int, a > 0, Tvl!Redeem(b, who, a)
  PROVE  TvlInv'
<1>1. PICK e : e = [kind |-> "BASKET_CHILD_REDEEMED", basket |-> b, account |-> who, amount |-> a]
  OBVIOUS
<1>2. e \in HolderLog
  BY <1>1 DEF HolderLog, Tvl!ChildKinds
<1>3. /\ positions[b][who].redeemed + a <= positions[b][who].requested /\ tvlLogs' = tvlLogs \o <<e>>
      /\ parent' = parent /\ stakes' = stakes /\ children' = children /\ tvlParents' = tvlParents
      /\ found' = found /\ tvlRows' = tvlRows
      /\ positions' = [positions EXCEPT ![b][who].redeemed = @ + a]
  BY <1>1 DEF Tvl!Redeem, Tvl!Emit, Tvl!ChildLog
<1>4. Added(e) = [staked |-> 0, requested |-> 0, redeemed |-> a, claimed |-> 0]
  BY <1>1 DEF Added
<1>5. children[b] # "absent"
  <2> SUFFICES ASSUME children[b] = "absent" PROVE FALSE
    OBVIOUS
  <2>1. positions[b][who].redeemed = 0 /\ positions[b][who].requested = 0
    BY DEF TvlInv, NothingBefore, Tvl!Empty
  <2> QED
    BY <1>3, <2>1
<1>6. positions' = [positions EXCEPT ![b] = [positions[b] EXCEPT ![who] = Plus(positions[b][who], Added(e))]]
  <2>1. PICK p \in Position : p = positions[b][who]
    BY DEF TvlInv, TvlTypes
  <2>2. positions' = [positions EXCEPT ![b] = [positions[b] EXCEPT ![who] = [p EXCEPT !.redeemed = @ + a]]]
    BY <1>3, <2>1 DEF TvlInv, TvlTypes
  <2>3. [p EXCEPT !.redeemed = @ + a] = Plus(p, Added(e))
    BY <1>4 DEF Position, Plus
  <2> QED
    BY <2>1, <2>2, <2>3
<1>7. e.basket = b /\ e.account = who
  BY <1>1
<1> QED
  BY <1>2, <1>3, <1>5, <1>6, <1>7, HolderStep

LEMMA ClaimStep ==
  ASSUME TvlInv, NEW b \in Baskets, NEW who \in Members, Tvl!Claim(b, who)
  PROVE  TvlInv'
<1>1. PICK e : e = [kind |-> "BASKET_CHILD_REWARDS_CLAIMED", basket |-> b, account |-> who, amount |-> 1]
  OBVIOUS
<1>2. e \in HolderLog
  <2>1. 1 \in Int
    OBVIOUS
  <2> QED
    BY <1>1, <2>1 DEF HolderLog, Tvl!ChildKinds
<1>3. /\ children[b] # "absent" /\ positions[b][who].claimed = 0 /\ tvlLogs' = tvlLogs \o <<e>>
      /\ parent' = parent /\ stakes' = stakes /\ children' = children /\ tvlParents' = tvlParents
      /\ found' = found /\ tvlRows' = tvlRows
      /\ positions' = [positions EXCEPT ![b][who].claimed = 1]
  BY <1>1 DEF Tvl!Claim, Tvl!Emit, Tvl!ChildLog
<1>4. Added(e) = [staked |-> 0, requested |-> 0, redeemed |-> 0, claimed |-> 1]
  BY <1>1 DEF Added
<1>5. positions' = [positions EXCEPT ![b] = [positions[b] EXCEPT ![who] = Plus(positions[b][who], Added(e))]]
  <2>1. PICK p \in Position : p = positions[b][who]
    BY DEF TvlInv, TvlTypes
  <2>2. positions' = [positions EXCEPT ![b] = [positions[b] EXCEPT ![who] = [p EXCEPT !.claimed = 1]]]
    BY <1>3, <2>1 DEF TvlInv, TvlTypes
  <2>3. [p EXCEPT !.claimed = 1] = Plus(p, Added(e))
    BY <1>3, <1>4, <2>1 DEF Position, Plus
  <2> QED
    BY <2>1, <2>2, <2>3
<1>6. e.basket = b /\ e.account = who
  BY <1>1
<1> QED
  BY <1>2, <1>3, <1>5, <1>6, HolderStep

-----------------------------------------------------------------------------
(***************************************************************************)
(* The parent pool's baskets.                                              *)
(***************************************************************************)
\* SumStep, for sets of baskets.
SameBut(b, A, B, f, g) ==
    /\ A \subseteq Baskets /\ B \subseteq Baskets /\ A \ {b} = B \ {b}
    /\ NumericOn(f, A) /\ NumericOn(g, B)
    /\ \A x \in A \ {b} : f[x] = g[x]

LEMMA BasketSums ==
  ASSUME NEW A, NEW B, NEW f, NEW g, NEW b, IsFiniteSet(Baskets), SameBut(b, A, B, f, g)
  PROVE  /\ SumFunctionOnSet(f, A) \in Int
         /\ SumFunctionOnSet(g, B) =
               SumFunctionOnSet(f, A) - (IF b \in A THEN f[b] ELSE 0) + (IF b \in B THEN g[b] ELSE 0)
BY SumStep DEF SameBut

\* A change of one stake, of a basket of the parent or that it gains.
LEMMA StakeSums ==
  ASSUME TvlTypes, NEW b \in Baskets, NEW a \in Int, stakes' = [stakes EXCEPT ![b] = a],
         Tvl!Ours' = Tvl!Ours \/ Tvl!Ours' = Tvl!Ours \cup {b}
  PROVE  /\ SumFunctionOnSet(stakes, Tvl!Ours) \in Int /\ Cardinality(Tvl!Ours) \in Nat
         /\ SumFunctionOnSet(stakes, Tvl!Ours)' =
               SumFunctionOnSet(stakes, Tvl!Ours) - If(b \in Tvl!Ours, stakes[b]) + If(b \in Tvl!Ours', a)
         /\ Cardinality(Tvl!Ours)' = Cardinality(Tvl!Ours) - If(b \in Tvl!Ours, 1) + If(b \in Tvl!Ours', 1)
<1>1. PICK A, B, f, g : A = Tvl!Ours /\ B = Tvl!Ours' /\ f = stakes /\ g = stakes'
  OBVIOUS
<1>2. A \subseteq Baskets /\ B \subseteq Baskets /\ A \ {b} = B \ {b} /\ IsFiniteSet(Baskets)
  BY <1>1, MiningAssumption DEF Tvl!Ours
<1>3. NumericOn(f, A) /\ NumericOn(g, B) /\ \A x \in A \ {b} : f[x] = g[x]
  BY <1>1, <1>2 DEF NumericOn, TvlTypes
<1>4. /\ SumFunctionOnSet(f, A) \in Int
      /\ SumFunctionOnSet(g, B) =
            SumFunctionOnSet(f, A) - (IF b \in A THEN f[b] ELSE 0) + (IF b \in B THEN g[b] ELSE 0)
  <2>1. SameBut(b, A, B, f, g)
    BY <1>2, <1>3 DEF SameBut
  <2> QED
    BY ONLY <1>2, <2>1, BasketSums
<1>5. /\ Cardinality(A) \in Nat
      /\ Cardinality(B) = Cardinality(A) - (IF b \in A THEN 1 ELSE 0) + (IF b \in B THEN 1 ELSE 0)
  BY ONLY <1>2, CountStep
<1>6. g[b] = a /\ f[b] = stakes[b]
  BY <1>1 DEF TvlTypes
<1> QED
  BY <1>1, <1>4, <1>5, <1>6 DEF If

\* Tables that differ in nothing of the children but that those of O exist,
\* where those of P existed and the new ones are empty.
HoldersStay(v, w, P, O) ==
    /\ w.positions = v.positions
    /\ \A x \in Baskets :
          /\ w.children[x].staked = v.children[x].staked
          /\ w.children[x].claimed = v.children[x].claimed
          /\ w.children[x].created <=> x \in O
          /\ \/ x \in P /\ x \in O
             \/ x \notin P /\ x \notin O
             \/ x \notin P /\ positions[x] = [h \in Members |-> Tvl!Empty]

LEMMA StakedFollows ==
  ASSUME positions' = positions, NEW v, NEW w, TvlFollows(v), NEW O, O = Tvl!Ours',
         HoldersStay(v, w, Tvl!Ours, O), StakeRows(w)'
  PROVE  TvlFollows(w)'
<1>1. ChildRows(w)'
  <2> SUFFICES ASSUME NEW x \in Baskets
               PROVE  /\ w.children[x].created <=> x \in O
                      /\ w.positions[x] = IF x \in O THEN positions[x] ELSE [h \in Members |-> Tvl!Empty]
    BY DEF ChildRows
  <2>1. v.positions[x] = IF x \in Tvl!Ours THEN positions[x] ELSE [h \in Members |-> Tvl!Empty]
    BY DEF TvlFollows, ChildRows
  <2> QED
    BY <2>1 DEF HoldersStay
<1>2. TotalRows(w)'
  <2> SUFFICES ASSUME NEW x \in Baskets
               PROVE  /\ w.children[x].staked = SumFunctionOnSet([h \in Members |-> w.positions[x][h].staked], Members)
                      /\ w.children[x].claimed = SumFunctionOnSet([h \in Members |-> w.positions[x][h].claimed], Members)
    BY DEF TotalRows
  <2>1. /\ v.children[x].staked = SumFunctionOnSet([h \in Members |-> v.positions[x][h].staked], Members)
        /\ v.children[x].claimed = SumFunctionOnSet([h \in Members |-> v.positions[x][h].claimed], Members)
    BY DEF TvlFollows, TotalRows
  <2>2. /\ w.positions = v.positions /\ w.children[x].staked = v.children[x].staked
        /\ w.children[x].claimed = v.children[x].claimed
    BY DEF HoldersStay
  <2> QED
    BY <2>1, <2>2
<1> QED
  BY <1>1, <1>2 DEF TvlFollows

LEMMA UpdateStakeStep ==
  ASSUME TvlInv, NEW b \in Baskets, NEW a \in Int, Tvl!UpdateStake(b, a)
  PROVE  TvlInv'
<1>1. TvlTypes /\ ParentFirst /\ NothingBefore /\ ChildrenKnown /\ tvlLogs \in Seq(TvlLog)
  BY DEF TvlInv, TvlTypes
<1>2. PICK v \in TvlTable : TvlReached(Tvl!FactoryRows, Tvl!Ours, tvlLogs, v) /\ TvlFollows(v)
  BY DEF TvlInv, TvlPending
<1>3. children[b] \in Factories /\ stakes[b] \in Int
  BY <1>1 DEF Tvl!UpdateStake, TvlTypes
<1>4. PICK f \in Factories, p \in Int : f = children[b] /\ p = stakes[b]
  BY <1>3
<1>5. PICK e : e = [kind |-> "BASKET_STAKE_UPDATED", factory |-> f, basket |-> b, previous |-> p, amount |-> a]
  OBVIOUS
<1>6. e \in TvlLog
  <2>1. e \in ParentLog
    BY ONLY <1>5, f \in Factories, b \in Baskets, p \in Int, a \in Int DEF ParentLog
  <2> QED
    BY <2>1 DEF TvlLog
<1>7. /\ tvlLogs' = tvlLogs \o <<e>> /\ parent' = parent /\ children' = children /\ positions' = positions
      /\ tvlParents' = tvlParents /\ found' = found /\ tvlRows' = tvlRows
      /\ stakes' = [stakes EXCEPT ![b] = a]
  BY <1>4, <1>5 DEF Tvl!UpdateStake, Tvl!Emit
<1>8. tvlLogs' = Append(tvlLogs, e)
  BY <1>1, <1>6, <1>7, AppendIsConcat
<1>9. Tvl!Ours' = Tvl!Ours
  BY <1>7 DEF Tvl!Ours
<1>10. /\ SumFunctionOnSet(stakes, Tvl!Ours) \in Int /\ Cardinality(Tvl!Ours) \in Nat
       /\ SumFunctionOnSet(stakes, Tvl!Ours)' =
             SumFunctionOnSet(stakes, Tvl!Ours) - If(b \in Tvl!Ours, p) + If(b \in Tvl!Ours, a)
       /\ Cardinality(Tvl!Ours)' = Cardinality(Tvl!Ours)
  BY <1>1, <1>4, <1>7, <1>9, StakeSums DEF If
<1>11. f = "ours" <=> b \in Tvl!Ours
  BY <1>4 DEF Tvl!Ours
<1>12. /\ e.kind = "BASKET_STAKE_UPDATED" /\ e.kind \in Tvl!ParentKinds /\ e.kind \notin Tvl!ChildKinds
       /\ e.basket = b /\ e.factory = f /\ e.previous = p /\ e.amount = a
       /\ e.kind # "BASKET_TVL_MINING_CREATED"
  BY <1>5 DEF Tvl!ParentKinds, Tvl!ChildKinds
<1>13. PICK w : w = TvlWrite(v, e, Tvl!Ours)
  OBVIOUS
<1>14. /\ w \in TvlTable
       /\ IF b \in Tvl!Ours THEN Staking(v, w, b, 0, a, a - p) ELSE w = v
  <2>1. CASE b \in Tvl!Ours
    <3>1. w = Tvl!ParentRow(v, e)
      BY <1>11, <1>12, <1>13, <2>1 DEF TvlWrite, ParentTakes
    <3> QED
      BY <1>12, <2>1, <3>1, StakeUpdatedRows
  <2>2. CASE b \notin Tvl!Ours
    BY <1>11, <1>12, <1>13, <2>2 DEF TvlWrite, ParentTakes, ChildTakes
  <2> QED
    BY <2>1, <2>2
<1>15. TvlReached(Tvl!FactoryRows, Tvl!Ours', tvlLogs', w)
  BY <1>2, <1>6, <1>8, <1>9, <1>13, <1>14, TvlReachOneMore
<1>16. StakeRows(w)'
  <2>1. StakeRows(v)
    BY <1>2 DEF TvlFollows
  <2>2. v.pool \in ParentPoolRow
    BY DEF TvlTable
  <2>3. CASE b \in Tvl!Ours
    <3>1. /\ w.pool.created = v.pool.created /\ w.pool.baskets = v.pool.baskets
          /\ w.pool.mining = v.pool.mining + (a - p)
      BY <1>14, <2>2, <2>3 DEF Staking, ParentPoolRow
    <3>2. \A x \in Tvl!Ours : w.stakes[x] = stakes'[x]
      <4>1. \A x \in Baskets : w.stakes[x] = IF x = b THEN a ELSE v.stakes[x]
        BY <1>14, <2>3 DEF Staking, TvlTable
      <4>2. \A x \in Baskets : stakes'[x] = IF x = b THEN a ELSE stakes[x]
        BY <1>1, <1>7 DEF TvlTypes
      <4> QED
        BY <2>1, <4>1, <4>2 DEF StakeRows, Tvl!Ours
    <3>3. w.pool.mining = SumFunctionOnSet(stakes, Tvl!Ours)'
      BY <1>10, <2>1, <2>3, <3>1 DEF StakeRows, If
    <3> QED
      BY <1>7, <1>9, <1>10, <2>1, <3>1, <3>2, <3>3 DEF StakeRows
  <2>4. CASE b \notin Tvl!Ours
    <3>1. w = v
      BY <1>14, <2>4
    <3>2. \A x \in Tvl!Ours : stakes'[x] = stakes[x]
      BY <1>1, <1>7, <2>4 DEF TvlTypes, Tvl!Ours
    <3>3. w.pool.mining = SumFunctionOnSet(stakes, Tvl!Ours)'
      BY <1>10, <2>1, <2>4, <3>1 DEF StakeRows, If
    <3> QED
      BY <1>7, <1>9, <1>10, <2>1, <3>1, <3>2, <3>3 DEF StakeRows
  <2> QED
    BY <2>3, <2>4
<1>17. w.children = v.children /\ w.positions = v.positions
  BY <1>14 DEF Staking
<1>18. TvlFollows(w)'
  <2>1. \A x \in Baskets : v.children[x].created <=> x \in Tvl!Ours
    BY <1>2 DEF TvlFollows, ChildRows
  <2>2. HoldersStay(v, w, Tvl!Ours, Tvl!Ours)
    BY <1>17, <2>1 DEF HoldersStay
  <2> QED
    BY <1>2, <1>7, <1>9, <1>16, <2>2, StakedFollows
<1>19. OfKind(tvlLogs', "BASKET_TVL_MINING_CREATED") = OfKind(tvlLogs, "BASKET_TVL_MINING_CREATED")
  <2>1. tvlLogs \in Seq(TvlLog) /\ e.kind # "BASKET_TVL_MINING_CREATED"
    BY <1>1, <1>12
  <2> QED
    BY ONLY <1>6, <1>8, <2>1, OneMoreOf
<1>20. ParentFirst'
  <2>1. \A n \in 1..Len(tvlLogs') : tvlLogs'[n] = e \/ (n \in 1..Len(tvlLogs) /\ tvlLogs'[n] = tvlLogs[n])
    BY <1>1, <1>6, <1>8, LogAppended
  <2>2. ParentTakes(e) => b \in Tvl!Ours
    BY <1>11, <1>12 DEF ParentTakes
  <2> QED
    BY <1>1, <1>7, <1>9, <1>12, <2>1, <2>2 DEF ParentFirst
<1>21. ChildrenKnown'
  <2>1. \A n \in 1..Len(tvlLogs) : n \in 1..Len(tvlLogs') /\ tvlLogs'[n] = tvlLogs[n]
    BY <1>1, <1>6, <1>8, LogAppended
  <2> QED
    BY <1>1, <1>7, <1>9, <2>1 DEF ChildrenKnown
<1>22. NothingBefore' /\ stakes' \in [Baskets -> Int]
  BY <1>1, <1>7 DEF NothingBefore, TvlTypes
<1> QED
  BY <1>1, <1>7, <1>15, <1>18, <1>19, <1>20, <1>21, <1>22, BasketStep DEF TvlTypes

LEMMA StakeStep ==
  ASSUME TvlInv, NEW f \in Factories, NEW b \in Baskets, NEW a \in Int, Tvl!Stake(f, b, a)
  PROVE  TvlInv'
<1>1. TvlTypes /\ ParentFirst /\ NothingBefore /\ ChildrenKnown /\ tvlLogs \in Seq(TvlLog)
  BY DEF TvlInv, TvlTypes
<1>2. PICK v \in TvlTable : TvlReached(Tvl!FactoryRows, Tvl!Ours, tvlLogs, v) /\ TvlFollows(v)
  BY DEF TvlInv, TvlPending
<1>3. PICK d, e : /\ d = [kind |-> "BASKET_STAKE_CREATED", factory |-> f, basket |-> b, amount |-> a]
                  /\ e = [kind |-> "BASKET_CHILD_POOL_CREATED", factory |-> f, basket |-> b]
  OBVIOUS
<1>4. d \in TvlLog /\ e \in TvlLog
  <2>1. d \in ParentLog /\ e \in ParentLog
    BY ONLY <1>3, f \in Factories, b \in Baskets, a \in Int DEF ParentLog
  <2> QED
    BY <2>1 DEF TvlLog
<1>5. /\ f = "ours" => parent
      /\ children[b] = "absent" /\ tvlLogs' = tvlLogs \o <<d, e>> /\ parent' = parent
      /\ children' = [children EXCEPT ![b] = f] /\ positions' = positions
      /\ tvlParents' = tvlParents /\ found' = found /\ tvlRows' = tvlRows
      /\ stakes' = [stakes EXCEPT ![b] = a]
  BY <1>3 DEF Tvl!Stake, Tvl!Emit
<1>6. PICK one \in Seq(TvlLog) : one = Append(tvlLogs, d)
  BY <1>1, <1>4, AppendProperties
<1>7. tvlLogs' = Append(one, e)
  BY <1>1, <1>4, <1>5, <1>6, AppendAll
<1>8. /\ b \notin Tvl!Ours /\ f # "absent"
      /\ Tvl!Ours' = IF f = "ours" THEN Tvl!Ours \cup {b} ELSE Tvl!Ours
  BY <1>1, <1>5, MiningAssumption DEF Tvl!Ours, TvlTypes
<1>9. /\ d.kind = "BASKET_STAKE_CREATED" /\ d.kind \in Tvl!ParentKinds /\ d.kind \notin Tvl!ChildKinds
      /\ e.kind = "BASKET_CHILD_POOL_CREATED" /\ e.kind \in Tvl!ParentKinds /\ e.kind \notin Tvl!ChildKinds
      /\ d.basket = b /\ d.factory = f /\ d.amount = a /\ e.basket = b /\ e.factory = f
      /\ d.kind # "BASKET_TVL_MINING_CREATED" /\ e.kind # "BASKET_TVL_MINING_CREATED"
  BY <1>3 DEF Tvl!ParentKinds, Tvl!ChildKinds
<1>10. /\ ParentTakes(d) <=> f = "ours"
       /\ ParentTakes(e) <=> f = "ours"
       /\ \A O : ~ChildTakes(d, O) /\ ~ChildTakes(e, O)
  BY <1>9 DEF ParentTakes, ChildTakes
<1>11. TvlReached(Tvl!FactoryRows, Tvl!Ours', tvlLogs, v)
  <2>1. ASSUME NEW n \in 1..Len(tvlLogs)
        PROVE  ChildTakes(tvlLogs[n], Tvl!Ours) <=> ChildTakes(tvlLogs[n], Tvl!Ours')
    <3>1. tvlLogs[n].kind \in Tvl!ChildKinds => tvlLogs[n].basket # b
      BY <1>1, <1>5 DEF ParentFirst
    <3> QED
      BY <1>8, <3>1 DEF ChildTakes
  <2> QED
    BY <1>2, <2>1, TvlReachLarger
<1>12. PICK O : O = Tvl!Ours'
  OBVIOUS
<1>13. PICK u, w : u = TvlWrite(v, d, O) /\ w = TvlWrite(u, e, O)
  OBVIOUS
<1>14. /\ u \in TvlTable /\ w \in TvlTable
       /\ IF f = "ours" THEN Staking(v, u, b, 1, a, a) /\ Opening(u, w, b) ELSE u = v /\ w = v
  <2>1. CASE f = "ours"
    <3>1. u = Tvl!ParentRow(v, d) /\ w = Tvl!ParentRow(u, e)
      BY <1>10, <1>13, <2>1 DEF TvlWrite
    <3>2. u \in TvlTable /\ Staking(v, u, b, 1, a, a)
      BY <1>9, <3>1, StakeCreatedRow
    <3>3. w \in TvlTable /\ Opening(u, w, b)
      BY <1>9, <3>1, <3>2, ChildOpenedRow
    <3> QED
      BY <2>1, <3>2, <3>3
  <2>2. CASE f # "ours"
    BY <1>10, <1>13, <2>2 DEF TvlWrite
  <2> QED
    BY <2>1, <2>2
<1>15. TvlReached(Tvl!FactoryRows, Tvl!Ours', tvlLogs', w)
  <2>1. TvlReached(Tvl!FactoryRows, O, one, u)
    BY <1>4, <1>6, <1>11, <1>12, <1>13, <1>14, TvlReachOneMore
  <2>2. TvlReached(Tvl!FactoryRows, O, Append(one, e), w)
    BY <1>4, <1>13, <1>14, <2>1, TvlReachOneMore
  <2> QED
    BY <1>7, <1>12, <2>2
<1>16. /\ SumFunctionOnSet(stakes, Tvl!Ours) \in Int /\ Cardinality(Tvl!Ours) \in Nat
       /\ SumFunctionOnSet(stakes, Tvl!Ours)' = SumFunctionOnSet(stakes, Tvl!Ours) + If(f = "ours", a)
       /\ Cardinality(Tvl!Ours)' = Cardinality(Tvl!Ours) + If(f = "ours", 1)
  <2>1. Tvl!Ours' = Tvl!Ours \/ Tvl!Ours' = Tvl!Ours \cup {b}
    BY <1>8
  <2>2. b \in Tvl!Ours' <=> f = "ours"
    BY <1>8
  <2>3. stakes' = [stakes EXCEPT ![b] = a] /\ TvlTypes /\ b \notin Tvl!Ours
    BY <1>1, <1>5, <1>8
  <2>4. /\ SumFunctionOnSet(stakes, Tvl!Ours) \in Int /\ Cardinality(Tvl!Ours) \in Nat
        /\ SumFunctionOnSet(stakes, Tvl!Ours)' =
               SumFunctionOnSet(stakes, Tvl!Ours) - If(b \in Tvl!Ours, stakes[b]) + If(b \in Tvl!Ours', a)
        /\ Cardinality(Tvl!Ours)' = Cardinality(Tvl!Ours) - If(b \in Tvl!Ours, 1) + If(b \in Tvl!Ours', 1)
    BY <2>1, <2>3, StakeSums
  <2> QED
    BY <2>2, <2>3, <2>4 DEF If
<1>17. StakeRows(w)'
  <2>1. StakeRows(v) /\ v.pool \in ParentPoolRow
    BY <1>2 DEF TvlFollows, TvlTable
  <2>2. \A x \in Baskets : stakes'[x] = IF x = b THEN a ELSE stakes[x]
    BY <1>1, <1>5 DEF TvlTypes
  <2>3. CASE f = "ours"
    <3>1. /\ w.pool.created = v.pool.created /\ w.pool.baskets = v.pool.baskets + 1
          /\ w.pool.mining = v.pool.mining + a
      BY <1>14, <2>1, <2>3 DEF Staking, Opening, ParentPoolRow
    <3>2. \A x \in Baskets : w.stakes[x] = IF x = b THEN a ELSE v.stakes[x]
      BY <1>14, <2>3 DEF Staking, Opening, TvlTable
    <3>3. \A x \in Tvl!Ours' : w.stakes[x] = stakes'[x]
      BY <1>8, <2>1, <2>2, <3>2 DEF StakeRows, Tvl!Ours
    <3>4. w.pool.mining = SumFunctionOnSet(stakes, Tvl!Ours)' /\ w.pool.baskets = Cardinality(Tvl!Ours)'
      BY <1>16, <2>1, <2>3, <3>1 DEF StakeRows, If
    <3> QED
      BY <1>5, <2>1, <3>1, <3>3, <3>4 DEF StakeRows
  <2>4. CASE f # "ours"
    <3>1. w = v /\ Tvl!Ours' = Tvl!Ours
      BY <1>8, <1>14, <2>4
    <3>2. \A x \in Tvl!Ours' : w.stakes[x] = stakes'[x]
      BY <1>8, <2>1, <2>2, <3>1 DEF StakeRows, Tvl!Ours
    <3>3. w.pool.mining = SumFunctionOnSet(stakes, Tvl!Ours)' /\ w.pool.baskets = Cardinality(Tvl!Ours)'
      BY <1>16, <2>1, <2>4, <3>1 DEF StakeRows, If
    <3> QED
      BY <1>5, <2>1, <3>1, <3>2, <3>3 DEF StakeRows
  <2> QED
    BY <2>3, <2>4
<1>18. /\ w.positions = v.positions
       /\ \A x \in Baskets : /\ w.children[x].staked = v.children[x].staked
                             /\ w.children[x].claimed = v.children[x].claimed
                             /\ w.children[x].created <=> x \in Tvl!Ours'
  <2>1. \A x \in Baskets : v.children[x].created <=> x \in Tvl!Ours
    BY <1>2 DEF TvlFollows, ChildRows
  <2>2. CASE f = "ours"
    <3>1. w.positions = v.positions /\ u.children = v.children
      BY <1>14, <2>2 DEF Staking, Opening
    <3>2. w.children = [v.children EXCEPT ![b] = [created |-> TRUE, staked |-> v.children[b].staked,
                                                  claimed |-> v.children[b].claimed]]
      BY <1>14, <2>2, <3>1 DEF Opening
    <3>3. ASSUME NEW x \in Baskets
          PROVE  /\ w.children[x].staked = v.children[x].staked
                 /\ w.children[x].claimed = v.children[x].claimed
                 /\ w.children[x].created <=> x \in Tvl!Ours'
      <4>1. CASE x = b
        <5>1. w.children[x] = [created |-> TRUE, staked |-> v.children[b].staked, claimed |-> v.children[b].claimed]
          BY <3>2, <4>1 DEF TvlTable
        <5> QED
          BY <1>8, <2>2, <4>1, <5>1
      <4>2. CASE x # b
        <5>1. w.children[x] = v.children[x]
          BY <3>2, <4>2 DEF TvlTable
        <5> QED
          BY <1>8, <2>1, <2>2, <4>2, <5>1
      <4> QED
        BY <4>1, <4>2
    <3> QED
      BY <3>1, <3>3
  <2>3. CASE f # "ours"
    BY <1>8, <1>14, <2>1, <2>3
  <2> QED
    BY <2>2, <2>3
<1>19. TvlFollows(w)'
  <2>1. positions[b] = [h \in Members |-> Tvl!Empty]
    BY <1>1, <1>5 DEF NothingBefore
  <2>2. \A x \in Baskets : \/ x \in Tvl!Ours /\ x \in Tvl!Ours'
                           \/ x \notin Tvl!Ours /\ x \notin Tvl!Ours'
                           \/ x \notin Tvl!Ours /\ positions[x] = [h \in Members |-> Tvl!Empty]
    BY <1>8, <2>1
  <2>3. HoldersStay(v, w, Tvl!Ours, O)
    BY <1>12, <1>18, <2>2 DEF HoldersStay
  <2> QED
    BY <1>2, <1>5, <1>12, <1>17, <2>3, StakedFollows
<1>20. OfKind(tvlLogs', "BASKET_TVL_MINING_CREATED") = OfKind(tvlLogs, "BASKET_TVL_MINING_CREATED")
  <2>1. /\ tvlLogs \in Seq(TvlLog) /\ d.kind # "BASKET_TVL_MINING_CREATED"
        /\ e.kind # "BASKET_TVL_MINING_CREATED"
    BY <1>1, <1>9
  <2>2. OfKind(one, "BASKET_TVL_MINING_CREATED") = OfKind(tvlLogs, "BASKET_TVL_MINING_CREATED")
    BY ONLY <1>4, <1>6, <2>1, OneMoreOf
  <2>3. OfKind(tvlLogs', "BASKET_TVL_MINING_CREATED") = OfKind(one, "BASKET_TVL_MINING_CREATED")
    BY ONLY <1>4, <1>7, <2>1, one \in Seq(TvlLog), OneMoreOf
  <2> QED
    BY <2>2, <2>3
<1>21. /\ \A n \in 1..Len(tvlLogs') :
             tvlLogs'[n] \in {d, e} \/ (n \in 1..Len(tvlLogs) /\ tvlLogs'[n] = tvlLogs[n])
       /\ \A n \in 1..Len(tvlLogs) : n \in 1..Len(tvlLogs') /\ tvlLogs'[n] = tvlLogs[n]
       /\ Len(tvlLogs') \in 1..Len(tvlLogs') /\ tvlLogs'[Len(tvlLogs')] = e
  <2>1. /\ \A n \in 1..Len(one) : one[n] = d \/ (n \in 1..Len(tvlLogs) /\ one[n] = tvlLogs[n])
        /\ \A n \in 1..Len(tvlLogs) : n \in 1..Len(one) /\ one[n] = tvlLogs[n]
    BY <1>1, <1>4, <1>6, LogAppended
  <2>2. /\ \A n \in 1..Len(tvlLogs') : tvlLogs'[n] = e \/ (n \in 1..Len(one) /\ tvlLogs'[n] = one[n])
        /\ \A n \in 1..Len(one) : n \in 1..Len(tvlLogs') /\ tvlLogs'[n] = one[n]
        /\ Len(tvlLogs') \in 1..Len(tvlLogs') /\ tvlLogs'[Len(tvlLogs')] = e
    BY <1>4, <1>7, LogAppended
  <2> QED
    BY <2>1, <2>2
<1>22. ParentFirst'
  <2>1. Tvl!Ours' # {} => parent
    BY <1>1, <1>5, <1>8 DEF ParentFirst
  <2>2. children'[b] = f /\ \A x \in Baskets : x # b => children'[x] = children[x]
    BY <1>1, <1>5 DEF TvlTypes
  <2>3. ASSUME NEW n \in 1..Len(tvlLogs')
        PROVE  /\ ParentTakes(tvlLogs'[n]) => tvlLogs'[n].basket \in Tvl!Ours'
               /\ tvlLogs'[n].kind \in Tvl!ChildKinds => children'[tvlLogs'[n].basket] # "absent"
    <3>1. CASE tvlLogs'[n] \in {d, e}
      BY <1>8, <1>9, <1>10, <3>1
    <3>2. CASE n \in 1..Len(tvlLogs) /\ tvlLogs'[n] = tvlLogs[n]
      <4>1. /\ ParentTakes(tvlLogs[n]) => tvlLogs[n].basket \in Tvl!Ours
            /\ tvlLogs[n].kind \in Tvl!ChildKinds => children[tvlLogs[n].basket] # "absent"
        BY <1>1, <3>2 DEF ParentFirst
      <4>2. tvlLogs[n] \in TvlLog
        BY <1>1, <3>2
      <4>3. tvlLogs[n].kind \in Tvl!ChildKinds => tvlLogs[n].basket \in Baskets
        BY <4>2 DEF TvlLog, ParentLog, HolderLog, Tvl!ChildKinds
      <4> QED
        BY <1>8, <2>2, <3>2, <4>1, <4>3
    <3> QED
      BY <1>21, <3>1, <3>2
  <2> QED
    BY <1>1, <1>5, <2>1, <2>3 DEF ParentFirst
<1>23. ChildrenKnown'
  <2>1. f = "ours" => Opens(e, b)
    BY <1>9, <1>10 DEF Opens
  <2>2. ASSUME NEW x \in Tvl!Ours'
        PROVE  x \in found \/ \E n \in 1..Len(tvlLogs') : Opens(tvlLogs'[n], x)
    <3>1. CASE x \in Tvl!Ours
      BY <1>1, <1>21, <3>1 DEF ChildrenKnown
    <3>2. CASE x \notin Tvl!Ours
      <4>1. x = b /\ f = "ours"
        BY <1>8, <3>2
      <4> QED
        BY <1>21, <2>1, <4>1
    <3> QED
      BY <3>1, <3>2
  <2>3. found \subseteq Tvl!Ours'
    BY <1>1, <1>8 DEF ChildrenKnown
  <2> QED
    BY <1>5, <2>2, <2>3 DEF ChildrenKnown
<1>24. NothingBefore'
  <2>1. \A x \in Baskets : children'[x] = "absent" => children[x] = "absent"
    BY <1>1, <1>5, <1>8 DEF TvlTypes
  <2> QED
    BY <1>1, <1>5, <2>1 DEF NothingBefore
<1>25. stakes' \in [Baskets -> Int] /\ children' \in [Baskets -> Factories \cup {"absent"}]
  BY <1>1, <1>5 DEF TvlTypes
<1> QED
  BY <1>1, <1>5, <1>15, <1>19, <1>20, <1>22, <1>23, <1>24, <1>25, BasketStep DEF TvlTypes

-----------------------------------------------------------------------------
(***************************************************************************)
(* The announcement of the parent pool.                                    *)
(***************************************************************************)
\* Before it no log is the parent's or a child's of its own, and the tables
\* are already those of the block's end.
LEMMA BeforeParent ==
  ASSUME TvlInv, ~parent
  PROVE  /\ TvlTypes /\ ~tvlParents /\ Tvl!Ours = {} /\ Tvl!FactoryEvents = {}
         /\ \A n \in 1..Len(tvlLogs) : tvlLogs[n] \in TvlLog /\ ~ParentTakes(tvlLogs[n])
         /\ TvlFollows(tvlRows)
<1>1. /\ TvlTypes /\ ~tvlParents /\ Tvl!Ours = {} /\ Tvl!FactoryEvents = {}
      /\ \A n \in 1..Len(tvlLogs) : tvlLogs[n] \in TvlLog /\ ~ParentTakes(tvlLogs[n])
  BY DEF TvlInv, TvlTypes, ParentFirst, ParentOnce
<1>2. Tvl!FactoryRows = tvlRows
  BY <1>1 DEF Tvl!FactoryRows, TvlTypes, TvlTable, ParentPoolRow
<1>3. PICK v \in TvlTable : /\ ReplaysTo(TvlTable, tvlRows, tvlLogs, TvlApply(Tvl!Ours), v)
                            /\ TvlFollows(v)
  BY <1>2 DEF TvlInv, TvlPending, TvlReached
<1>4. v = tvlRows
  <2>1. PICK L \in Nat : L = Len(tvlLogs)
    BY <1>1 DEF TvlTypes
  <2>2. PICK g \in [0..L -> TvlTable] : Replays(g, tvlRows, tvlLogs, TvlApply(Tvl!Ours)) /\ v = g[L]
    BY <1>3, <2>1 DEF ReplaysTo
  <2>3. PICK f : f = [n \in 0..L |-> tvlRows]
    OBVIOUS
  <2>4. \A n \in 1..L : n \in 0..L /\ n - 1 \in 0..L
    OBVIOUS
  <2>5. ASSUME NEW n \in 1..L, f[n - 1] = g[n - 1] PROVE f[n] = g[n]
    <3>1. tvlLogs[n] \in TvlLog /\ g[n - 1] \in TvlTable
      BY <1>1, <2>1, <2>4
    <3>2. ~ParentTakes(tvlLogs[n]) /\ ~ChildTakes(tvlLogs[n], Tvl!Ours)
      BY <1>1, <2>1 DEF ChildTakes
    <3>3. TvlApply(Tvl!Ours)[<<tvlLogs[n], g[n - 1]>>] = g[n - 1]
      BY <3>1, <3>2 DEF TvlApply, TvlWrite
    <3> QED
      BY <2>1, <2>2, <2>3, <2>4, <2>5, <3>3 DEF Replays
  <2>6. f[0] = g[0] /\ f[L] = tvlRows
    BY <2>2, <2>3 DEF Replays
  <2>7. f[L] = g[L]
    BY <2>5, <2>6, SameSteps
  <2> QED
    BY <2>2, <2>6, <2>7
<1> QED
  BY <1>1, <1>3, <1>4

LEMMA CreateParentStep ==
  ASSUME TvlInv, Tvl!CreateParent
  PROVE  TvlInv'
<1>0. PICK yes \in BOOLEAN : yes = TRUE
  OBVIOUS
<1>1. PICK c, base : /\ c = [kind |-> "BASKET_TVL_MINING_CREATED"]
                     /\ base = [tvlRows EXCEPT !.pool.created = yes]
  OBVIOUS
<1>2. /\ ~parent /\ parent' = TRUE /\ tvlLogs' = tvlLogs \o <<c>> /\ stakes' = stakes
      /\ children' = children /\ positions' = positions
      /\ tvlParents' = tvlParents /\ found' = found /\ tvlRows' = tvlRows
  BY <1>1 DEF Tvl!CreateParent, Tvl!Emit
<1>3. /\ TvlTypes /\ ~tvlParents /\ Tvl!Ours = {} /\ Tvl!FactoryEvents = {}
      /\ \A n \in 1..Len(tvlLogs) : tvlLogs[n] \in TvlLog /\ ~ParentTakes(tvlLogs[n])
      /\ TvlFollows(tvlRows)
  BY <1>2, BeforeParent
<1>4. /\ tvlRows \in TvlTable /\ tvlLogs \in Seq(TvlLog) /\ c \in TvlLog
      /\ c.kind = "BASKET_TVL_MINING_CREATED"
  BY <1>1, <1>3 DEF TvlTypes, TvlLog
<1>5. tvlLogs' = Append(tvlLogs, c) /\ tvlLogs' \in Seq(TvlLog)
  BY <1>2, <1>4, AppendIsConcat, AppendProperties
<1>6. /\ base \in TvlTable /\ base.pool.created = TRUE
      /\ base.pool.mining = tvlRows.pool.mining /\ base.pool.baskets = tvlRows.pool.baskets
      /\ base.stakes = tvlRows.stakes /\ base.children = tvlRows.children
      /\ base.positions = tvlRows.positions
  <2>1. PICK p \in ParentPoolRow : p = tvlRows.pool
    BY <1>4 DEF TvlTable
  <2>2. /\ base.pool = [p EXCEPT !.created = yes] /\ base = [tvlRows EXCEPT !.pool = base.pool]
        /\ base.stakes = tvlRows.stakes /\ base.children = tvlRows.children
        /\ base.positions = tvlRows.positions
    BY <1>1, <1>4, <2>1 DEF TvlTable
  <2>3. /\ base.pool \in ParentPoolRow /\ base.pool.created = yes
        /\ base.pool.mining = p.mining /\ base.pool.baskets = p.baskets
    BY <2>2 DEF ParentPoolRow
  <2>4. base \in TvlTable
    BY <1>4, <2>2, <2>3 DEF TvlTable
  <2> QED
    BY <1>0, <2>1, <2>2, <2>3, <2>4
<1>7. Tvl!Ours' = Tvl!Ours
  BY <1>2 DEF Tvl!Ours
<1>8. TvlReached(base, Tvl!Ours, tvlLogs, base)
  <2>1. ASSUME NEW n \in 1..Len(tvlLogs) PROVE TvlApply(Tvl!Ours)[<<tvlLogs[n], base>>] = base
    <3>1. tvlLogs[n] \in TvlLog /\ ~ParentTakes(tvlLogs[n]) /\ ~ChildTakes(tvlLogs[n], Tvl!Ours)
      BY <1>3 DEF ChildTakes
    <3> QED
      BY <1>6, <3>1 DEF TvlApply, TvlWrite
  <2> QED
    BY <1>4, <1>6, <2>1, ReplayNothing DEF TvlReached
<1>9. TvlReached(base, Tvl!Ours', tvlLogs', base)
  <2>1. ~ParentTakes(c) /\ ~ChildTakes(c, Tvl!Ours)
    BY <1>4 DEF ParentTakes, ChildTakes, Tvl!ParentKinds, Tvl!ChildKinds
  <2>2. base = TvlWrite(base, c, Tvl!Ours)
    BY <2>1 DEF TvlWrite
  <2> QED
    BY <1>4, <1>5, <1>6, <1>7, <1>8, <2>2, TvlReachOneMore
<1>10. OfKind(tvlLogs', "BASKET_TVL_MINING_CREATED") = {Len(tvlLogs) + 1} /\ Len(tvlLogs) + 1 \in Nat
  <2>1. OfKind(tvlLogs, "BASKET_TVL_MINING_CREATED") = {}
    BY <1>3 DEF OfKind, Tvl!FactoryEvents
  <2> QED
    BY ONLY <1>4, <1>5, <2>1, OneMoreOf
<1>11. Tvl!FactoryEvents' = {Len(tvlLogs) + 1}
  BY <1>10 DEF OfKind, Tvl!FactoryEvents
<1>12. Tvl!FactoryRows' = base
  <2>1. Tvl!FactoryEvents' # {}
    BY <1>11
  <2>2. PICK p \in ParentPoolRow : p = tvlRows.pool
    BY <1>4 DEF TvlTable
  <2>3. (p.created \/ Tvl!FactoryEvents' # {}) = yes
    BY <1>0, <2>1
  <2> QED
    BY <1>1, <1>2, <1>4, <2>2, <2>3 DEF Tvl!FactoryRows
<1>13. TvlFollows(base)'
  <2>1. StakeRows(base)'
    BY <1>2, <1>3, <1>6, <1>7 DEF TvlFollows, StakeRows
  <2>2. ChildRows(base)' /\ TotalRows(base)'
    BY <1>2, <1>3, <1>6, <1>7 DEF TvlFollows, ChildRows, TotalRows
  <2> QED
    BY <2>1, <2>2 DEF TvlFollows
<1>14. TvlTypes'
  BY <1>2, <1>3, <1>5 DEF TvlTypes
<1>15. ParentFirst'
  <2>1. \A n \in 1..Len(tvlLogs') : tvlLogs'[n] = c \/ (n \in 1..Len(tvlLogs) /\ tvlLogs'[n] = tvlLogs[n])
    BY <1>4, <1>5, LogAppended
  <2>2. ~ParentTakes(c) /\ c.kind \notin Tvl!ChildKinds
    BY <1>4 DEF ParentTakes, Tvl!ParentKinds, Tvl!ChildKinds
  <2> QED
    BY <1>2, <1>7, <2>1, <2>2 DEF TvlInv, ParentFirst
<1>16. ParentOnce'
  BY <1>2, <1>3, <1>10, <1>11 DEF ParentOnce
<1>17. NothingBefore'
  BY <1>2 DEF TvlInv, NothingBefore
<1>18. ChildrenKnown'
  BY <1>2, <1>3, <1>7 DEF TvlInv, ChildrenKnown
<1>19. TvlPending'
  BY <1>6, <1>9, <1>12, <1>13 DEF TvlPending
<1> QED
  BY <1>14, <1>15, <1>16, <1>17, <1>18, <1>19 DEF TvlInv

-----------------------------------------------------------------------------
(***************************************************************************)
(* The end of a block: the writer takes the parent's logs first and then   *)
(* the children's, and the tables are those of the logs in their order.    *)
(***************************************************************************)
\* The columns a parent's log changes, and those a child's log changes.
SameParents(v, w) ==
    /\ w.pool = v.pool /\ w.stakes = v.stakes
    /\ \A b \in Baskets : w.children[b].created = v.children[b].created

SameChildren(v, w) ==
    /\ w.positions = v.positions
    /\ \A b \in Baskets : /\ w.children[b].staked = v.children[b].staked
                          /\ w.children[b].claimed = v.children[b].claimed

LEMMA SameTables ==
  ASSUME NEW v \in TvlTable, NEW w \in TvlTable, SameParents(v, w), SameChildren(v, w)
  PROVE  v = w
<1>1. ASSUME NEW b \in Baskets PROVE v.children[b] = w.children[b]
  <2>1. v.children[b] \in ChildPoolRow /\ w.children[b] \in ChildPoolRow
    BY DEF TvlTable
  <2>2. /\ w.children[b].created = v.children[b].created
        /\ w.children[b].staked = v.children[b].staked
        /\ w.children[b].claimed = v.children[b].claimed
    BY DEF SameParents, SameChildren
  <2> QED
    BY <2>1, <2>2 DEF ChildPoolRow
<1>2. v.children = w.children
  BY <1>1 DEF TvlTable
<1>3. w.pool = v.pool /\ w.stakes = v.stakes /\ w.positions = v.positions
  BY DEF SameParents, SameChildren
<1> QED
  BY <1>2, <1>3 DEF TvlTable

Opened(v, w, b, c) ==
    /\ w.children[c].staked = v.children[c].staked /\ w.children[c].claimed = v.children[c].claimed
    /\ IF c = b THEN w.children[c].created = TRUE ELSE w.children[c].created = v.children[c].created

LEMMA OpenedColumns ==
  ASSUME NEW v \in TvlTable, NEW b \in Baskets, NEW w, Opening(v, w, b), NEW c \in Baskets
  PROVE  Opened(v, w, b, c)
<1>1. w.children = [v.children EXCEPT ![b] = [created |-> TRUE, staked |-> v.children[b].staked,
                                              claimed |-> v.children[b].claimed]]
  BY DEF Opening
<1>2. CASE c = b
  <2>1. w.children[c] = [created |-> TRUE, staked |-> v.children[b].staked, claimed |-> v.children[b].claimed]
    BY <1>1, <1>2 DEF TvlTable
  <2> QED
    BY <1>2, <2>1 DEF Opened
<1>3. CASE c # b
  <2>1. w.children[c] = v.children[c]
    BY <1>1, <1>3 DEF TvlTable
  <2> QED
    BY <1>3, <2>1 DEF Opened
<1> QED
  BY <1>2, <1>3

\* A parent's log changes the same of tables that agree in its columns, and
\* nothing else.
LEMMA ParentRowKeeps ==
  ASSUME NEW e \in ParentLog, NEW v \in TvlTable, NEW x \in TvlTable, SameParents(v, x),
         NEW w, w = Tvl!ParentRow(v, e), NEW y, y = Tvl!ParentRow(x, e)
  PROVE  /\ w \in TvlTable /\ y \in TvlTable
         /\ SameParents(w, y) /\ SameChildren(v, w) /\ SameChildren(x, y)
<1>1. PICK b \in Baskets : b = e.basket
  BY DEF ParentLog
<1>2. x.pool = v.pool /\ x.stakes = v.stakes /\ \A c \in Baskets : x.children[c].created = v.children[c].created
  BY DEF SameParents
<1>3. CASE \E n \in Int, a \in Int, m \in Int : /\ w \in TvlTable /\ y \in TvlTable
                                               /\ Staking(v, w, b, n, a, m) /\ Staking(x, y, b, n, a, m)
  <2>1. PICK n \in Int, a \in Int, m \in Int : /\ w \in TvlTable /\ y \in TvlTable
                                               /\ Staking(v, w, b, n, a, m) /\ Staking(x, y, b, n, a, m)
    BY <1>3
  <2>2. w.children = v.children /\ w.positions = v.positions /\ y.children = x.children /\ y.positions = x.positions
    BY <2>1 DEF Staking
  <2>3. w.pool = y.pool /\ w.stakes = y.stakes
    BY <1>2, <2>1 DEF Staking
  <2> QED
    BY <1>2, <2>1, <2>2, <2>3 DEF SameParents, SameChildren
<1>4. CASE e.kind = "BASKET_STAKE_CREATED"
  <2>1. PICK a \in Int : a = e.amount
    BY <1>4 DEF ParentLog
  <2>2. w \in TvlTable /\ Staking(v, w, b, 1, a, a)
    BY <1>1, <1>4, <2>1, StakeCreatedRow
  <2>3. y \in TvlTable /\ Staking(x, y, b, 1, a, a)
    BY <1>1, <1>4, <2>1, StakeCreatedRow
  <2> QED
    BY <1>3, <2>2, <2>3
<1>5. CASE e.kind = "BASKET_STAKE_UPDATED"
  <2>1. PICK a \in Int, p \in Int : a = e.amount /\ p = e.previous
    BY <1>5 DEF ParentLog
  <2>2. w \in TvlTable /\ Staking(v, w, b, 0, a, a - p)
    BY <1>1, <1>5, <2>1, StakeUpdatedRows
  <2>3. y \in TvlTable /\ Staking(x, y, b, 0, a, a - p)
    BY <1>1, <1>5, <2>1, StakeUpdatedRows
  <2>4. a - p \in Int
    OBVIOUS
  <2> QED
    BY <1>3, <2>2, <2>3, <2>4
<1>6. CASE e.kind = "BASKET_CHILD_POOL_CREATED"
  <2>1. w \in TvlTable /\ Opening(v, w, b)
    BY <1>1, <1>6, ChildOpenedRow
  <2>2. y \in TvlTable /\ Opening(x, y, b)
    BY <1>1, <1>6, ChildOpenedRow
  <2>3. ASSUME NEW c \in Baskets
        PROVE  /\ w.children[c].staked = v.children[c].staked
               /\ w.children[c].claimed = v.children[c].claimed
               /\ y.children[c].staked = x.children[c].staked
               /\ y.children[c].claimed = x.children[c].claimed
               /\ y.children[c].created = w.children[c].created
    <3>1. Opened(v, w, b, c)
      BY <2>1, OpenedColumns
    <3>2. Opened(x, y, b, c)
      BY <2>2, OpenedColumns
    <3>3. x.children[c].created = v.children[c].created
      BY <1>2
    <3> QED
      BY ONLY <3>1, <3>2, <3>3 DEF Opened
  <2>4. /\ w.pool = v.pool /\ w.stakes = v.stakes /\ w.positions = v.positions
        /\ y.pool = x.pool /\ y.stakes = x.stakes /\ y.positions = x.positions
    BY <2>1, <2>2 DEF Opening
  <2> QED
    BY <1>2, <2>1, <2>2, <2>3, <2>4 DEF SameParents, SameChildren
<1>7. \/ e.kind = "BASKET_STAKE_CREATED" \/ e.kind = "BASKET_STAKE_UPDATED"
      \/ e.kind = "BASKET_CHILD_POOL_CREATED"
  BY DEF ParentLog
<1> QED
  BY <1>4, <1>5, <1>6, <1>7

LEMMA PaidColumns ==
  ASSUME NEW v \in TvlTable, NEW b \in Baskets, NEW who, NEW d, NEW w, Paying(v, w, b, who, d), NEW c \in Baskets
  PROVE  /\ w.children[c].created = v.children[c].created
         /\ w.children[c].staked = IF c = b THEN v.children[c].staked + d.staked ELSE v.children[c].staked
         /\ w.children[c].claimed = IF c = b THEN v.children[c].claimed + d.claimed ELSE v.children[c].claimed
<1>1. w.children = [v.children EXCEPT ![b] = [created |-> v.children[b].created,
                                              staked |-> v.children[b].staked + d.staked,
                                              claimed |-> v.children[b].claimed + d.claimed]]
  BY DEF Paying
<1>2. CASE c = b
  <2>1. w.children[c] = [created |-> v.children[b].created, staked |-> v.children[b].staked + d.staked,
                         claimed |-> v.children[b].claimed + d.claimed]
    BY <1>1, <1>2 DEF TvlTable
  <2> QED
    BY <1>2, <2>1
<1>3. CASE c # b
  <2>1. w.children[c] = v.children[c]
    BY <1>1, <1>3 DEF TvlTable
  <2> QED
    BY <1>3, <2>1
<1> QED
  BY <1>2, <1>3

\* Likewise a child's log.
LEMMA ChildRowKeeps ==
  ASSUME NEW e \in HolderLog, NEW v \in TvlTable, NEW x \in TvlTable, SameChildren(v, x),
         NEW w, w = Tvl!ChildRow(v, e), NEW y, y = Tvl!ChildRow(x, e)
  PROVE  /\ w \in TvlTable /\ y \in TvlTable
         /\ SameChildren(w, y) /\ SameParents(v, w) /\ SameParents(x, y)
<1>1. PICK b \in Baskets, who \in Members, d \in Position : b = e.basket /\ who = e.account /\ d = Added(e)
  BY AddedTypes
<1>2. x.positions = v.positions /\ \A c \in Baskets : /\ x.children[c].staked = v.children[c].staked
                                                      /\ x.children[c].claimed = v.children[c].claimed
  BY DEF SameChildren
<1>3. w \in TvlTable /\ Paying(v, w, b, who, d) /\ y \in TvlTable /\ Paying(x, y, b, who, d)
  BY <1>1, PayingRow
<1>4. \A c \in Baskets : /\ w.children[c].created = v.children[c].created
                         /\ y.children[c].created = x.children[c].created
                         /\ y.children[c].staked = w.children[c].staked
                         /\ y.children[c].claimed = w.children[c].claimed
  BY <1>2, <1>3, PaidColumns
<1>5. y.positions = w.positions /\ w.pool = v.pool /\ w.stakes = v.stakes /\ y.pool = x.pool /\ y.stakes = x.stakes
  BY <1>2, <1>3 DEF Paying
<1> QED
  BY <1>3, <1>4, <1>5 DEF SameParents, SameChildren

\* What holds at the beginning and is kept by each step holds throughout.
LEMMA EveryStep ==
  ASSUME NEW L \in Nat, NEW S, 0 \in S, \A n \in 1..L : n - 1 \in S => n \in S
  PROVE  L \in S
<1> DEFINE Outside == {n \in 0..L : n \notin S}
<1>1. Outside = {}
  <2> SUFFICES ASSUME Outside # {} PROVE FALSE
    OBVIOUS
  <2>1. PICK n \in Outside : \A k \in Outside : n <= k
    <3>1. Outside \subseteq Nat
      OBVIOUS
    <3> HIDE DEF Outside
    <3> QED
      BY <3>1, LeastNumber
  <2>2. n \in 1..L /\ n - 1 \in 0..L /\ ~ (n <= n - 1)
    BY <2>1
  <2>3. n - 1 \in S
    BY <2>1, <2>2
  <2> QED
    BY <2>1, <2>2, <2>3
<1> QED
  BY <1>1

\* The maps take exactly the logs of the parent and of its children.
LEMMA BasketLogsTaken ==
  ASSUME TvlInv
  PROVE  /\ \A n \in 1..Len(tvlLogs) : n \in Tvl!ParentEvents <=> ParentTakes(tvlLogs[n])
         /\ found \cup Tvl!NewChildren = Tvl!Ours
         /\ \A n \in 1..Len(tvlLogs) : n \in Tvl!ChildEvents <=> ChildTakes(tvlLogs[n], Tvl!Ours)
<1>1. DOMAIN tvlLogs = 1..Len(tvlLogs)
  BY DEF TvlInv, TvlTypes
<1>2. ASSUME NEW n \in 1..Len(tvlLogs) PROVE n \in Tvl!ParentEvents <=> ParentTakes(tvlLogs[n])
  <2>1. n \in Tvl!ParentEvents <=> ParentTakes(tvlLogs[n]) /\ (tvlParents \/ Tvl!FactoryEvents # {})
    BY <1>1 DEF Tvl!ParentEvents, Tvl!IsParentLog, ParentTakes
  <2>2. ParentTakes(tvlLogs[n]) => tvlParents \/ Tvl!FactoryEvents # {}
    <3>1. ParentTakes(tvlLogs[n]) => parent
      BY DEF TvlInv, ParentFirst
    <3>2. parent => tvlParents \/ Tvl!FactoryEvents # {}
      BY DEF TvlInv, ParentOnce
    <3> QED
      BY <3>1, <3>2
  <2> QED
    BY <2>1, <2>2
<1>3. \A b : b \in Tvl!NewChildren <=> \E n \in 1..Len(tvlLogs) : Opens(tvlLogs[n], b)
  <2>1. \A b : b \in Tvl!NewChildren <=>
                  \E n \in Tvl!ParentEvents : tvlLogs[n].kind = "BASKET_CHILD_POOL_CREATED" /\ b = tvlLogs[n].basket
    BY DEF Tvl!NewChildren
  <2>2. Tvl!ParentEvents \subseteq 1..Len(tvlLogs)
    BY <1>1 DEF Tvl!ParentEvents
  <2> QED
    BY <1>2, <2>1, <2>2 DEF Opens
<1>4. found \cup Tvl!NewChildren = Tvl!Ours
  <2>1. \A b \in Tvl!NewChildren : b \in Tvl!Ours
    BY <1>3 DEF Opens, TvlInv, ParentFirst
  <2> QED
    BY <1>3, <2>1 DEF TvlInv, ChildrenKnown
<1>5. \A n \in 1..Len(tvlLogs) : n \in Tvl!ChildEvents <=> ChildTakes(tvlLogs[n], Tvl!Ours)
  BY <1>1, <1>4 DEF Tvl!ChildEvents, Tvl!IsChildLog, ChildTakes
<1> QED
  BY <1>2, <1>4, <1>5

LEMMA LogKinds ==
  ASSUME NEW e \in TvlLog
  PROVE  /\ ParentTakes(e) => e \in ParentLog /\ \A O : ~ChildTakes(e, O)
         /\ \A O : ChildTakes(e, O) => e \in HolderLog
<1>1. /\ e.kind = "BASKET_TVL_MINING_CREATED" => ~ParentTakes(e) /\ \A O : ~ChildTakes(e, O)
      /\ ParentTakes(e) => \A O : ~ChildTakes(e, O)
  BY DEF ParentTakes, ChildTakes, Tvl!ParentKinds, Tvl!ChildKinds
<1>2. e \in ParentLog => \A O : ~ChildTakes(e, O)
  BY DEF ParentLog, ChildTakes, Tvl!ChildKinds
<1>3. e \in HolderLog => ~ParentTakes(e)
  BY DEF HolderLog, ParentTakes, Tvl!ParentKinds, Tvl!ChildKinds
<1>4. e.kind = "BASKET_TVL_MINING_CREATED" \/ e \in ParentLog \/ e \in HolderLog
  BY DEF TvlLog
<1> QED
  BY <1>1, <1>2, <1>3, <1>4

\* One step of the replay, by who sent the log.
LEMMA TvlReplayStep ==
  ASSUME TvlInv, NEW L \in Nat, L = Len(tvlLogs), NEW g \in [0..L -> TvlTable],
         Replays(g, Tvl!FactoryRows, tvlLogs, TvlApply(Tvl!Ours)), NEW n \in 1..L
  PROVE  /\ tvlLogs[n] \in TvlLog /\ g[n - 1] \in TvlTable
         /\ n \in Tvl!ParentEvents =>
               n \notin Tvl!ChildEvents /\ tvlLogs[n] \in ParentLog /\ g[n] = Tvl!ParentRow(g[n - 1], tvlLogs[n])
         /\ n \in Tvl!ChildEvents => tvlLogs[n] \in HolderLog /\ g[n] = Tvl!ChildRow(g[n - 1], tvlLogs[n])
         /\ n \notin Tvl!ParentEvents /\ n \notin Tvl!ChildEvents => g[n] = g[n - 1]
<1>1. n - 1 \in 0..L
  OBVIOUS
<1>2. tvlLogs[n] \in TvlLog /\ g[n - 1] \in TvlTable
  BY <1>1 DEF TvlInv, TvlTypes
<1>3. g[n] = TvlWrite(g[n - 1], tvlLogs[n], Tvl!Ours)
  <2>1. TvlApply(Tvl!Ours)[<<tvlLogs[n], g[n - 1]>>] = TvlWrite(g[n - 1], tvlLogs[n], Tvl!Ours)
    BY <1>2 DEF TvlApply
  <2> QED
    BY <2>1 DEF Replays
<1>4. /\ n \in Tvl!ParentEvents <=> ParentTakes(tvlLogs[n])
      /\ n \in Tvl!ChildEvents <=> ChildTakes(tvlLogs[n], Tvl!Ours)
  BY BasketLogsTaken
<1>5. /\ ParentTakes(tvlLogs[n]) => tvlLogs[n] \in ParentLog /\ ~ChildTakes(tvlLogs[n], Tvl!Ours)
      /\ ChildTakes(tvlLogs[n], Tvl!Ours) => tvlLogs[n] \in HolderLog
  BY <1>2, LogKinds
<1> QED
  BY <1>2, <1>3, <1>4, <1>5 DEF TvlWrite

\* After the parent's logs alone, its columns are those of the replay and
\* the children's those of before.
LEMMA ParentRowsAfterBlock ==
  ASSUME TvlInv, NEW L \in Nat, L = Len(tvlLogs), NEW g \in [0..L -> TvlTable],
         Replays(g, Tvl!FactoryRows, tvlLogs, TvlApply(Tvl!Ours))
  PROVE  /\ Tvl!ParentRows \in TvlTable /\ SameParents(g[L], Tvl!ParentRows)
         /\ SameChildren(g[0], Tvl!ParentRows)
<1> DEFINE Solves(f) == f = [n \in 0..L |-> IF n = 0 THEN Tvl!FactoryRows
                                ELSE IF n \in Tvl!ParentEvents THEN Tvl!ParentRow(f[n - 1], tvlLogs[n])
                                ELSE f[n - 1]]
           step == [x \in (1..L) \X TvlTable |->
                       IF x[1] \in Tvl!ParentEvents THEN Tvl!ParentRow(x[2], tvlLogs[x[1]]) ELSE x[2]]
<1>1. \A n \in 0..L : n = 0 \/ n \in 1..L
  OBVIOUS
<1>2. \A n \in 1..L : n # 0 /\ n \in 0..L /\ n - 1 \in 0..L
  OBVIOUS
<1>3. 0 \in 0..L /\ g[0] = Tvl!FactoryRows /\ Tvl!FactoryRows \in TvlTable
  BY DEF Replays
<1>4. ASSUME NEW n \in 1..L, NEW v \in TvlTable
      PROVE  step[<<n, v>>] = (IF n \in Tvl!ParentEvents THEN Tvl!ParentRow(v, tvlLogs[n]) ELSE v)
  OBVIOUS
<1>5. \A n \in 1..L, v \in TvlTable : step[<<n, v>>] \in TvlTable
  <2> SUFFICES ASSUME NEW n \in 1..L, NEW v \in TvlTable PROVE step[<<n, v>>] \in TvlTable
    OBVIOUS
  <2>1. CASE n \in Tvl!ParentEvents
    <3>1. tvlLogs[n] \in ParentLog
      BY <2>1, TvlReplayStep
    <3>2. SameParents(v, v)
      BY DEF SameParents
    <3>3. Tvl!ParentRow(v, tvlLogs[n]) \in TvlTable
      BY <3>1, <3>2, ParentRowKeeps
    <3> HIDE DEF step
    <3> QED
      BY <1>4, <2>1, <3>3
  <2>2. CASE n \notin Tvl!ParentEvents
    <3> HIDE DEF step
    <3> QED
      BY <1>4, <2>2
  <2> QED
    BY <2>1, <2>2
<1>6. \E f : Solves(f)
  <2>1. PICK f \in [0..L -> TvlTable] : StepsFrom(f, Tvl!FactoryRows, step, L)
    <3> HIDE DEF step
    <3> QED
      BY <1>3, <1>5, StepsExist
  <2>2. f[0] = Tvl!FactoryRows /\ \A n \in 1..L : f[n] = step[<<n, f[n - 1]>>]
    BY <2>1 DEF StepsFrom
  <2>3. \A n \in 1..L : f[n - 1] \in TvlTable
    BY <1>2, <2>1
  <2>4. \A n \in 0..L : f[n] = IF n = 0 THEN Tvl!FactoryRows
                               ELSE IF n \in Tvl!ParentEvents THEN Tvl!ParentRow(f[n - 1], tvlLogs[n])
                               ELSE f[n - 1]
    <3> HIDE DEF step
    <3> QED
      BY <1>1, <1>2, <1>4, <2>2, <2>3
  <2>5. Solves(f)
    BY <2>1, <2>4
  <2> HIDE DEF Solves
  <2> QED
    BY <2>5
<1>7. PICK f : Solves(f) /\ Tvl!ParentRows = f[L]
  <2>1. Tvl!ParentRows = (CHOOSE f : Solves(f))[L]
    BY DEF Tvl!ParentRows
  <2> HIDE DEF Solves
  <2> QED
    BY <1>6, <2>1
<1>8. /\ f[0] = Tvl!FactoryRows
      /\ \A n \in 1..L : f[n] = IF n \in Tvl!ParentEvents THEN Tvl!ParentRow(f[n - 1], tvlLogs[n]) ELSE f[n - 1]
  BY <1>2, <1>3, <1>7
<1> DEFINE S == {n \in 0..L : f[n] \in TvlTable /\ SameParents(g[n], f[n]) /\ SameChildren(g[0], f[n])}
<1>9. 0 \in S
  BY <1>3, <1>8 DEF SameParents, SameChildren
<1>10. ASSUME NEW n \in 1..L, n - 1 \in S PROVE n \in S
  <2>1. f[n - 1] \in TvlTable /\ SameParents(g[n - 1], f[n - 1]) /\ SameChildren(g[0], f[n - 1])
    BY <1>10
  <2>2. n \in 0..L
    OBVIOUS
  <2>3. CASE n \in Tvl!ParentEvents
    <3>1. tvlLogs[n] \in ParentLog /\ g[n - 1] \in TvlTable /\ g[n] = Tvl!ParentRow(g[n - 1], tvlLogs[n])
      BY <2>3, TvlReplayStep
    <3>2. f[n] = Tvl!ParentRow(f[n - 1], tvlLogs[n])
      BY <1>8, <2>3
    <3>3. f[n] \in TvlTable /\ SameParents(g[n], f[n]) /\ SameChildren(f[n - 1], f[n])
      BY <2>1, <3>1, <3>2, ParentRowKeeps
    <3> QED
      BY <2>1, <2>2, <3>3 DEF SameChildren
  <2>4. CASE n \in Tvl!ChildEvents
    <3>1. /\ n \notin Tvl!ParentEvents
          /\ tvlLogs[n] \in HolderLog /\ g[n - 1] \in TvlTable /\ g[n] = Tvl!ChildRow(g[n - 1], tvlLogs[n])
      BY <2>4, TvlReplayStep
    <3>2. f[n] = f[n - 1]
      BY <1>8, <3>1
    <3>3. SameChildren(g[n - 1], g[n - 1])
      BY DEF SameChildren
    <3>4. SameParents(g[n - 1], g[n])
      BY <3>1, <3>3, ChildRowKeeps
    <3> QED
      BY <2>1, <2>2, <3>2, <3>4 DEF SameParents
  <2>5. CASE n \notin Tvl!ParentEvents /\ n \notin Tvl!ChildEvents
    <3>1. g[n] = g[n - 1]
      BY <2>5, TvlReplayStep
    <3>2. f[n] = f[n - 1]
      BY <1>8, <2>5
    <3> QED
      BY <2>1, <2>2, <3>1, <3>2
  <2> QED
    BY <2>3, <2>4, <2>5
<1>11. L \in S
  <2> HIDE DEF S
  <2> QED
    BY <1>9, <1>10, EveryStep
<1> QED
  BY <1>7, <1>11

\* After the children's logs too, the tables are those of the replay.
LEMMA BasketRowsAfterBlock ==
  ASSUME TvlInv, NEW v, TvlReached(Tvl!FactoryRows, Tvl!Ours, tvlLogs, v)
  PROVE  Tvl!RowsAfter = v
<1>1. PICK L \in Nat : L = Len(tvlLogs)
  BY DEF TvlInv, TvlTypes
<1>2. PICK g \in [0..L -> TvlTable] : /\ Replays(g, Tvl!FactoryRows, tvlLogs, TvlApply(Tvl!Ours))
                                      /\ v = g[L]
  BY <1>1 DEF TvlReached, ReplaysTo
<1>3. PICK P \in TvlTable : P = Tvl!ParentRows /\ SameParents(g[L], P) /\ SameChildren(g[0], P)
  BY <1>1, <1>2, ParentRowsAfterBlock
<1> DEFINE Solves(f) == f = [n \in 0..L |-> IF n = 0 THEN P
                                ELSE IF n \in Tvl!ChildEvents THEN Tvl!ChildRow(f[n - 1], tvlLogs[n])
                                ELSE f[n - 1]]
           step == [x \in (1..L) \X TvlTable |->
                       IF x[1] \in Tvl!ChildEvents THEN Tvl!ChildRow(x[2], tvlLogs[x[1]]) ELSE x[2]]
<1>4. \A n \in 0..L : n = 0 \/ n \in 1..L
  OBVIOUS
<1>5. 0 \in 0..L /\ \A n \in 1..L : n # 0 /\ n \in 0..L /\ n - 1 \in 0..L
  OBVIOUS
<1>6. ASSUME NEW n \in 1..L, NEW x \in TvlTable
      PROVE  step[<<n, x>>] = (IF n \in Tvl!ChildEvents THEN Tvl!ChildRow(x, tvlLogs[n]) ELSE x)
  OBVIOUS
<1>7. \A n \in 1..L, x \in TvlTable : step[<<n, x>>] \in TvlTable
  <2> SUFFICES ASSUME NEW n \in 1..L, NEW x \in TvlTable PROVE step[<<n, x>>] \in TvlTable
    OBVIOUS
  <2>1. CASE n \in Tvl!ChildEvents
    <3>1. tvlLogs[n] \in HolderLog
      BY <1>1, <1>2, <2>1, TvlReplayStep
    <3>2. SameChildren(x, x)
      BY DEF SameChildren
    <3>3. Tvl!ChildRow(x, tvlLogs[n]) \in TvlTable
      BY <3>1, <3>2, ChildRowKeeps
    <3> HIDE DEF step
    <3> QED
      BY <1>6, <2>1, <3>3
  <2>2. CASE n \notin Tvl!ChildEvents
    <3> HIDE DEF step
    <3> QED
      BY <1>6, <2>2
  <2> QED
    BY <2>1, <2>2
<1>8. \E f : Solves(f)
  <2>1. PICK f \in [0..L -> TvlTable] : StepsFrom(f, P, step, L)
    <3> HIDE DEF step
    <3> QED
      BY <1>3, <1>7, StepsExist
  <2>2. f[0] = P /\ \A n \in 1..L : f[n] = step[<<n, f[n - 1]>>]
    BY <2>1 DEF StepsFrom
  <2>3. \A n \in 1..L : f[n - 1] \in TvlTable
    BY <1>5, <2>1
  <2>4. \A n \in 0..L : f[n] = IF n = 0 THEN P
                               ELSE IF n \in Tvl!ChildEvents THEN Tvl!ChildRow(f[n - 1], tvlLogs[n])
                               ELSE f[n - 1]
    <3> HIDE DEF step
    <3> QED
      BY <1>4, <1>5, <1>6, <2>2, <2>3
  <2>5. Solves(f)
    BY <2>1, <2>4
  <2> HIDE DEF Solves
  <2> QED
    BY <2>5
<1>9. PICK f : Solves(f) /\ Tvl!RowsAfter = f[L]
  <2>1. Tvl!RowsAfter = (CHOOSE f : Solves(f))[L]
    BY <1>1, <1>3 DEF Tvl!RowsAfter
  <2> HIDE DEF Solves
  <2> QED
    BY <1>8, <2>1
<1>10. /\ f[0] = P
       /\ \A n \in 1..L : f[n] = IF n \in Tvl!ChildEvents THEN Tvl!ChildRow(f[n - 1], tvlLogs[n]) ELSE f[n - 1]
  BY <1>5, <1>9
<1> DEFINE S == {n \in 0..L : f[n] \in TvlTable /\ SameParents(P, f[n]) /\ SameChildren(g[n], f[n])}
<1>11. 0 \in S
  BY <1>3, <1>5, <1>10 DEF SameParents
<1>12. ASSUME NEW n \in 1..L, n - 1 \in S PROVE n \in S
  <2>1. f[n - 1] \in TvlTable /\ SameParents(P, f[n - 1]) /\ SameChildren(g[n - 1], f[n - 1])
    BY <1>12
  <2>2. n \in 0..L
    OBVIOUS
  <2>3. CASE n \in Tvl!ChildEvents
    <3>1. tvlLogs[n] \in HolderLog /\ g[n - 1] \in TvlTable /\ g[n] = Tvl!ChildRow(g[n - 1], tvlLogs[n])
      BY <1>1, <1>2, <2>3, TvlReplayStep
    <3>2. f[n] = Tvl!ChildRow(f[n - 1], tvlLogs[n])
      BY <1>10, <2>3
    <3>3. f[n] \in TvlTable /\ SameChildren(g[n], f[n]) /\ SameParents(f[n - 1], f[n])
      BY <2>1, <3>1, <3>2, ChildRowKeeps
    <3> QED
      BY <2>1, <2>2, <3>3 DEF SameParents
  <2>4. CASE n \in Tvl!ParentEvents
    <3>1. /\ n \notin Tvl!ChildEvents
          /\ tvlLogs[n] \in ParentLog /\ g[n - 1] \in TvlTable /\ g[n] = Tvl!ParentRow(g[n - 1], tvlLogs[n])
      BY <1>1, <1>2, <2>4, TvlReplayStep
    <3>2. f[n] = f[n - 1]
      BY <1>10, <3>1
    <3>3. SameParents(g[n - 1], g[n - 1])
      BY DEF SameParents
    <3>4. SameChildren(g[n - 1], g[n])
      BY <3>1, <3>3, ParentRowKeeps
    <3> QED
      BY <2>1, <2>2, <3>2, <3>4 DEF SameChildren
  <2>5. CASE n \notin Tvl!ParentEvents /\ n \notin Tvl!ChildEvents
    <3>1. g[n] = g[n - 1]
      BY <1>1, <1>2, <2>5, TvlReplayStep
    <3>2. f[n] = f[n - 1]
      BY <1>10, <2>5
    <3> QED
      BY <2>1, <2>2, <3>1, <3>2
  <2> QED
    BY <2>3, <2>4, <2>5
<1>13. L \in S
  <2> HIDE DEF S
  <2> QED
    BY <1>11, <1>12, EveryStep
<1>14. SameParents(g[L], f[L]) /\ SameChildren(g[L], f[L]) /\ f[L] \in TvlTable /\ g[L] \in TvlTable
  BY <1>3, <1>13 DEF SameParents
<1>15. g[L] = f[L]
  <2> HIDE DEF Solves
  <2> QED
    BY <1>14, SameTables
<1> QED
  BY <1>2, <1>9, <1>15

LEMMA TvlEndBlockStep ==
  ASSUME TvlInv, Tvl!EndBlock
  PROVE  TvlInv'
<1>1. PICK v \in TvlTable : TvlReached(Tvl!FactoryRows, Tvl!Ours, tvlLogs, v) /\ TvlFollows(v)
  BY DEF TvlInv, TvlPending
<1>2. /\ tvlParents' = (tvlParents \/ Tvl!FactoryEvents # {}) /\ found' = found \cup Tvl!NewChildren
      /\ tvlRows' = v /\ tvlLogs' = <<>>
      /\ parent' = parent /\ stakes' = stakes /\ children' = children /\ positions' = positions
  BY <1>1, BasketRowsAfterBlock DEF Tvl!EndBlock
<1>3. Tvl!Ours' = Tvl!Ours /\ found' = Tvl!Ours
  BY <1>2, BasketLogsTaken DEF Tvl!Ours
<1>4. Tvl!FactoryEvents' = {} /\ tvlLogs' \in Seq(TvlLog) /\ \A n \in 1..Len(tvlLogs') : FALSE
  BY <1>2 DEF Tvl!FactoryEvents
<1>5. TvlTypes'
  BY <1>2, <1>3, <1>4 DEF TvlInv, TvlTypes, Tvl!Ours
<1>6. parent <=> tvlParents'
  <2>1. Tvl!FactoryEvents # {} => parent
    BY DEF TvlInv, ParentOnce
  <2>2. tvlParents => parent
    BY DEF TvlInv, ParentFirst
  <2>3. parent => tvlParents \/ Tvl!FactoryEvents # {}
    BY DEF TvlInv, ParentOnce
  <2> QED
    BY <1>2, <2>1, <2>2, <2>3
<1>7. ParentFirst'
  BY <1>2, <1>3, <1>4, <1>6 DEF TvlInv, ParentFirst
<1>8. ParentOnce'
  BY <1>2, <1>4, <1>6 DEF ParentOnce
<1>9. NothingBefore'
  BY <1>2 DEF TvlInv, NothingBefore
<1>10. ChildrenKnown'
  BY <1>3 DEF ChildrenKnown
<1>11. Tvl!FactoryRows' = v
  BY <1>2, <1>4 DEF Tvl!FactoryRows, TvlTable, ParentPoolRow
<1>12. TvlFollows(v)'
  BY <1>1, <1>2, <1>3 DEF TvlFollows, StakeRows, ChildRows, TotalRows
<1>13. TvlReached(Tvl!FactoryRows, Tvl!Ours, tvlLogs, v)'
  BY <1>4, <1>11, ReplayNothing DEF TvlReached
<1> QED
  BY <1>5, <1>7, <1>8, <1>9, <1>10, <1>12, <1>13 DEF TvlInv, TvlPending

-----------------------------------------------------------------------------
(***************************************************************************)
(* The Basket pools' invariant holds.                                      *)
(***************************************************************************)
LEMMA TvlContractStep ==
  ASSUME TvlInv, Tvl!ContractStep
  PROVE  TvlInv'
<1>0. /\ 1..MaxAmount \subseteq Int /\ 0..MaxAmount \subseteq Int /\ \A n \in 1..MaxAmount : n > 0
  BY MiningAssumption
<1>1. CASE Tvl!CreateParent
  BY <1>1, CreateParentStep
<1>2. CASE \E b \in Baskets : \E f \in Factories, a \in 1..MaxAmount : Tvl!Stake(f, b, a)
  BY <1>0, <1>2, StakeStep
<1>3. CASE \E b \in Baskets : \E a \in 0..MaxAmount : Tvl!UpdateStake(b, a)
  BY <1>0, <1>3, UpdateStakeStep
<1>4. CASE \E b \in Baskets : \E who \in Members, a \in 1..MaxAmount : Tvl!Deposit(b, who, a)
  BY <1>0, <1>4, DepositStep
<1>5. CASE \E b \in Baskets : \E who \in Members, a \in 1..MaxAmount : Tvl!RequestWithdraw(b, who, a)
  BY <1>0, <1>5, RequestWithdrawStep
<1>6. CASE \E b \in Baskets : \E who \in Members, a \in 1..MaxAmount : Tvl!Redeem(b, who, a)
  BY <1>0, <1>6, RedeemStep
<1>7. CASE \E b \in Baskets : \E who \in Members : Tvl!Claim(b, who)
  BY <1>7, ClaimStep
<1> QED
  BY <1>1, <1>2, <1>3, <1>4, <1>5, <1>6, <1>7 DEF Tvl!ContractStep

LEMMA TvlStutterStep ==
  ASSUME TvlInv, UNCHANGED tvlVars
  PROVE  TvlInv'
<1>1. /\ parent' = parent /\ stakes' = stakes /\ children' = children /\ positions' = positions
      /\ tvlLogs' = tvlLogs /\ tvlParents' = tvlParents /\ found' = found /\ tvlRows' = tvlRows
  BY DEF tvlVars
<1>2. PICK v \in TvlTable : TvlReached(Tvl!FactoryRows, Tvl!Ours, tvlLogs, v) /\ TvlFollows(v)
  BY DEF TvlInv, TvlPending
<1>3. Tvl!FactoryEvents' = Tvl!FactoryEvents /\ Tvl!Ours' = Tvl!Ours
  BY <1>1 DEF Tvl!FactoryEvents, Tvl!Ours
<1>4. TvlReached(Tvl!FactoryRows, Tvl!Ours, tvlLogs, v)'
  BY <1>1, <1>2, <1>3 DEF TvlReached, Tvl!FactoryRows
<1>5. TvlFollows(v)'
  BY <1>1, <1>2, <1>3 DEF TvlFollows, StakeRows, ChildRows, TotalRows
<1>6. TvlTypes' /\ ParentFirst' /\ ParentOnce' /\ NothingBefore' /\ ChildrenKnown'
  BY <1>1, <1>3 DEF TvlInv, TvlTypes, ParentFirst, ParentOnce, NothingBefore, ChildrenKnown
<1> QED
  BY <1>4, <1>5, <1>6 DEF TvlInv, TvlPending

LEMMA TvlInitial == Tvl!Init => TvlInv
<1> SUFFICES ASSUME Tvl!Init PROVE TvlInv
  OBVIOUS
<1> DEFINE blank == [h \in Members |-> Tvl!Empty]
<1>1. /\ parent = FALSE /\ stakes = [b \in Baskets |-> 0] /\ children = [b \in Baskets |-> "absent"]
      /\ positions = [b \in Baskets |-> blank] /\ tvlLogs = <<>> /\ tvlParents = FALSE /\ found = {}
      /\ tvlRows = [pool      |-> [created |-> FALSE, baskets |-> 0, mining |-> 0],
                    stakes    |-> [b \in Baskets |-> 0],
                    children  |-> [b \in Baskets |-> [created |-> FALSE, staked |-> 0, claimed |-> 0]],
                    positions |-> [b \in Baskets |-> blank]]
  BY DEF Tvl!Init
<1>2. /\ tvlRows.pool = [created |-> FALSE, baskets |-> 0, mining |-> 0]
      /\ tvlRows.stakes = [b \in Baskets |-> 0]
      /\ tvlRows.children = [b \in Baskets |-> [created |-> FALSE, staked |-> 0, claimed |-> 0]]
      /\ tvlRows.positions = [b \in Baskets |-> blank]
  BY <1>1
<1>3. Tvl!Empty \in Position /\ Tvl!Empty.staked = 0 /\ Tvl!Empty.claimed = 0
  BY DEF Tvl!Empty, Position
<1>4. [b \in Baskets |-> blank] \in [Baskets -> [Members -> Position]]
  BY <1>3
<1>5. tvlRows \in TvlTable
  <2>1. tvlRows.pool \in ParentPoolRow
    BY <1>2 DEF ParentPoolRow
  <2>2. tvlRows.children \in [Baskets -> ChildPoolRow]
    BY <1>2 DEF ChildPoolRow
  <2>3. tvlRows.stakes \in [Baskets -> Int] /\ tvlRows.positions \in [Baskets -> [Members -> Position]]
    BY <1>2, <1>4
  <2> QED
    BY <1>1, <2>1, <2>2, <2>3 DEF TvlTable
<1>6. TvlTypes
  <2>1. parent \in BOOLEAN /\ tvlParents \in BOOLEAN /\ found \in SUBSET Baskets
    BY <1>1
  <2>2. stakes \in [Baskets -> Int] /\ children \in [Baskets -> Factories \cup {"absent"}]
    BY <1>1
  <2>3. tvlLogs \in Seq(TvlLog) /\ positions \in [Baskets -> [Members -> Position]]
    BY <1>1, <1>4
  <2> QED
    BY <1>5, <2>1, <2>2, <2>3 DEF TvlTypes
<1>7. Tvl!Ours = {}
  BY <1>1 DEF Tvl!Ours
<1>8. Tvl!FactoryEvents = {} /\ \A n \in 1..Len(tvlLogs) : FALSE
  BY <1>1 DEF Tvl!FactoryEvents
<1>9. ParentFirst /\ ParentOnce /\ NothingBefore /\ ChildrenKnown
  BY <1>1, <1>7, <1>8 DEF ParentFirst, ParentOnce, NothingBefore, ChildrenKnown
<1>10. Tvl!FactoryRows = tvlRows
  BY <1>5, <1>8 DEF Tvl!FactoryRows, TvlTable, ParentPoolRow
<1>11. TvlReached(Tvl!FactoryRows, Tvl!Ours, tvlLogs, tvlRows)
  BY <1>5, <1>6, <1>8, <1>10, ReplayNothing DEF TvlReached, TvlTypes
<1>12. StakeRows(tvlRows)
  <2>1. SumFunctionOnSet(stakes, {}) = 0 /\ Cardinality({}) = 0
    BY SumEmpty, FS_EmptySet
  <2>2. tvlRows.pool.created = FALSE /\ tvlRows.pool.mining = 0 /\ tvlRows.pool.baskets = 0
    BY <1>2
  <2>3. tvlRows.pool.created = parent
    BY <1>1, <2>2
  <2> QED
    BY <1>7, <2>1, <2>2, <2>3 DEF StakeRows
<1>13. ASSUME NEW b \in Baskets
       PROVE  /\ tvlRows.children[b].created = FALSE /\ tvlRows.positions[b] = blank
              /\ tvlRows.children[b].staked = 0 /\ tvlRows.children[b].claimed = 0
  BY <1>2
<1>14. ChildRows(tvlRows)
  BY <1>7, <1>13 DEF ChildRows
<1>15. TotalRows(tvlRows)
  <2>1. [h \in Members |-> blank[h].staked] = [h \in Members |-> 0]
    BY <1>3
  <2>2. [h \in Members |-> blank[h].claimed] = [h \in Members |-> 0]
    BY <1>3
  <2>3. SumFunctionOnSet([h \in Members |-> 0], Members) = 0
    BY SumZero, MiningAssumption
  <2> HIDE DEF blank
  <2> QED
    BY <1>13, <2>1, <2>2, <2>3 DEF TotalRows
<1> QED
  BY <1>5, <1>6, <1>9, <1>11, <1>12, <1>14, <1>15 DEF TvlInv, TvlPending, TvlFollows

\* Between blocks the tables are the ones that follow the contracts.
LEMMA TvlRowsBetweenBlocks ==
  ASSUME TvlInv
  PROVE  Tvl!MiningIsTheSumOfStakes /\ Tvl!ChildTotalsFollow
<1> SUFFICES ASSUME tvlLogs = <<>> PROVE Tvl!MiningIsTheSumOfStakes /\ Tvl!ChildTotalsFollow
  BY DEF Tvl!MiningIsTheSumOfStakes, Tvl!ChildTotalsFollow, Tvl!Finished
<1>1. PICK v \in TvlTable : TvlReached(Tvl!FactoryRows, Tvl!Ours, tvlLogs, v) /\ TvlFollows(v)
  BY DEF TvlInv, TvlPending
<1>2. v = tvlRows
  <2>1. Tvl!FactoryEvents = {}
    BY DEF Tvl!FactoryEvents
  <2>2. Tvl!FactoryRows = tvlRows
    BY <2>1 DEF Tvl!FactoryRows, TvlInv, TvlTypes, TvlTable, ParentPoolRow
  <2> QED
    BY <1>1, <2>2 DEF TvlReached, ReplaysTo, Replays
<1>3. /\ \A S : Tvl!Cardinality(S) = Cardinality(S)
      /\ \A f, S : Tvl!SumFunctionOnSet(f, S) = SumFunctionOnSet(f, S)
  BY DEF Tvl!Cardinality, Cardinality, Tvl!SumFunctionOnSet, SumFunctionOnSet, Tvl!FoldFunctionOnSet,
         FoldFunctionOnSet, Tvl!MapThenFoldSet, MapThenFoldSet
<1>4. Tvl!MiningIsTheSumOfStakes
  BY <1>1, <1>2, <1>3 DEF Tvl!MiningIsTheSumOfStakes, TvlFollows, StakeRows
<1>5. ASSUME NEW b \in Baskets PROVE v.children[b].created = (b \in Tvl!Ours)
  <2>1. v.children[b].created \in BOOLEAN
    BY DEF TvlTable, ChildPoolRow
  <2>2. v.children[b].created <=> b \in Tvl!Ours
    BY <1>1 DEF TvlFollows, ChildRows
  <2> QED
    BY <2>1, <2>2
<1>6. Tvl!ChildTotalsFollow
  BY <1>1, <1>2, <1>3, <1>5 DEF Tvl!ChildTotalsFollow, TvlFollows, ChildRows, TotalRows
<1> QED
  BY <1>4, <1>6

-----------------------------------------------------------------------------
(***************************************************************************)
(* Both kinds of pool, and the community's count of them.                  *)
(***************************************************************************)
MiningInv ==
    /\ NftInv /\ TvlInv
    /\ pools_count = If(nftKnown, 1) + If(tvlParents, 1)

\* A pool is announced once: the events of a block are what it adds to the
\* pools known.
LEMMA PoolsCreated ==
  ASSUME NftInv, TvlInv, Nft!EndBlock, Tvl!EndBlock
  PROVE  /\ Cardinality(Nft!FactoryEvents) = If(nftKnown', 1) - If(nftKnown, 1)
         /\ Cardinality(Tvl!FactoryEvents) = If(tvlParents', 1) - If(tvlParents, 1)
<1>1. Cardinality({}) = 0 /\ \A n \in Nat : Cardinality({n}) = 1
  BY FS_EmptySet, FS_Singleton
<1>2. /\ nftKnown' <=> nftKnown \/ Nft!FactoryEvents # {}
      /\ tvlParents' <=> tvlParents \/ Tvl!FactoryEvents # {}
  BY DEF Nft!EndBlock, Tvl!EndBlock
<1>3. \/ Nft!FactoryEvents = {}
      \/ ~nftKnown /\ \E n \in Nat : Nft!FactoryEvents = {n}
  BY DEF NftInv, AnnouncedOnce
<1>4. \/ Tvl!FactoryEvents = {}
      \/ ~tvlParents /\ \E n \in Nat : Tvl!FactoryEvents = {n}
  BY DEF TvlInv, ParentOnce
<1>5. Cardinality(Nft!FactoryEvents) = If(nftKnown', 1) - If(nftKnown, 1)
  BY <1>1, <1>2, <1>3 DEF If
<1>6. Cardinality(Tvl!FactoryEvents) = If(tvlParents', 1) - If(tvlParents, 1)
  BY <1>1, <1>2, <1>4 DEF If
<1> QED
  BY <1>5, <1>6

\* A step of a contract leaves what the stores know.
LEMMA NftKnownKept ==
  ASSUME Nft!ContractStep
  PROVE  nftKnown' = nftKnown
<1>1. ASSUME NEW new, Nft!EmitAll(new) PROVE nftKnown' = nftKnown
  BY <1>1 DEF Nft!EmitAll
<1>2. CASE Nft!CreatePool
  BY <1>1, <1>2 DEF Nft!CreatePool
<1>3. ASSUME NEW b \in Batches,
             Nft!CreatePoolWithBatch(b) \/ Nft!CreateBatch(b) \/ Nft!PauseBatch(b) \/ Nft!CloseBatch(b)
      PROVE  nftKnown' = nftKnown
  BY <1>1, <1>3 DEF Nft!CreatePoolWithBatch, Nft!CreateBatch, Nft!PauseBatch, Nft!CloseBatch
<1>4. ASSUME NEW t \in Tokens, NEW who \in Members, NEW b \in Batches, NEW r \in Tokens \cup {NoToken},
             Nft!Mint(t, who, b, r)
      PROVE  nftKnown' = nftKnown
  BY <1>1, <1>4 DEF Nft!Mint
<1>5. ASSUME NEW t \in Tokens, NEW to \in Members \cup {NoOne}, Nft!LevelUp(t) \/ Nft!Transfer(t, to)
      PROVE  nftKnown' = nftKnown
  BY <1>1, <1>5 DEF Nft!LevelUp, Nft!Transfer
<1>6. ASSUME NEW t \in Tokens, NEW to \in Members, Nft!ForeignMove(t, to)
      PROVE  nftKnown' = nftKnown
  BY <1>1, <1>6 DEF Nft!ForeignMove
<1> QED
  BY <1>2, <1>3, <1>4, <1>5, <1>6 DEF Nft!ContractStep

LEMMA ParentsKept ==
  ASSUME Tvl!ContractStep
  PROVE  tvlParents' = tvlParents
<1>1. ASSUME NEW new, Tvl!Emit(new) PROVE tvlParents' = tvlParents
  BY <1>1 DEF Tvl!Emit
<1>2. CASE Tvl!CreateParent
  BY <1>1, <1>2 DEF Tvl!CreateParent
<1>3. ASSUME NEW b \in Baskets, NEW a, (\E f \in Factories : Tvl!Stake(f, b, a)) \/ Tvl!UpdateStake(b, a)
      PROVE  tvlParents' = tvlParents
  BY <1>1, <1>3 DEF Tvl!Stake, Tvl!UpdateStake
<1>4. ASSUME NEW b \in Baskets, NEW who \in Members, NEW a,
             Tvl!Deposit(b, who, a) \/ Tvl!RequestWithdraw(b, who, a) \/ Tvl!Redeem(b, who, a)
      PROVE  tvlParents' = tvlParents
  BY <1>1, <1>4 DEF Tvl!Deposit, Tvl!RequestWithdraw, Tvl!Redeem
<1>5. ASSUME NEW b \in Baskets, NEW who \in Members, Tvl!Claim(b, who)
      PROVE  tvlParents' = tvlParents
  BY <1>1, <1>5 DEF Tvl!Claim
<1> QED
  BY <1>2, <1>3, <1>4, <1>5 DEF Tvl!ContractStep

LEMMA MiningInitial == MiningInit => MiningInv
<1> SUFFICES ASSUME MiningInit PROVE MiningInv
  OBVIOUS
<1>1. Nft!Init /\ Tvl!Init /\ pools_count = 0
  BY DEF MiningInit
<1>2. ~nftKnown /\ ~tvlParents
  BY <1>1 DEF Nft!Init, Tvl!Init
<1> QED
  BY <1>1, <1>2, NftInitial, TvlInitial DEF MiningInv, If

LEMMA MiningStep ==
  ASSUME MiningInv, [MiningNext]_miningVars
  PROVE  MiningInv'
<1>1. NftInv /\ TvlInv /\ pools_count = If(nftKnown, 1) + If(tvlParents, 1)
  BY DEF MiningInv
<1>2. CASE NftStep
  <2>1. Nft!ContractStep /\ UNCHANGED tvlVars /\ pools_count' = pools_count
    BY <1>2 DEF NftStep, Bounded
  <2>2. nftKnown' = nftKnown
    BY <2>1, NftKnownKept
  <2>3. tvlParents' = tvlParents
    BY <2>1 DEF tvlVars
  <2> QED
    BY <1>1, <2>1, <2>2, <2>3, NftContractStep, TvlStutterStep DEF MiningInv
<1>3. CASE TvlStep
  <2>1. Tvl!ContractStep /\ UNCHANGED nftVars /\ pools_count' = pools_count
    BY <1>3 DEF TvlStep, Bounded
  <2>2. tvlParents' = tvlParents
    BY <2>1, ParentsKept
  <2>3. nftKnown' = nftKnown
    BY <2>1 DEF nftVars
  <2> QED
    BY <1>1, <2>1, <2>2, <2>3, TvlContractStep, NftStutterStep DEF MiningInv
<1>4. CASE EndMiningBlock
  <2>1. Nft!EndBlock /\ Tvl!EndBlock /\ pools_count' = pools_count + CreatedPools
    BY <1>4 DEF EndMiningBlock
  <2>2. CreatedPools = (If(nftKnown', 1) - If(nftKnown, 1)) + (If(tvlParents', 1) - If(tvlParents, 1))
    BY <1>1, <2>1, PoolsCreated DEF CreatedPools
  <2>3. pools_count' = If(nftKnown', 1) + If(tvlParents', 1)
    BY <1>1, <2>1, <2>2 DEF If
  <2> QED
    BY <1>1, <2>1, <2>3, NftEndBlockStep, TvlEndBlockStep DEF MiningInv
<1>5. CASE UNCHANGED miningVars
  <2>1. UNCHANGED nftVars /\ UNCHANGED tvlVars /\ pools_count' = pools_count
    BY <1>5 DEF miningVars
  <2>2. nftKnown' = nftKnown /\ tvlParents' = tvlParents
    BY <2>1 DEF nftVars, tvlVars
  <2> QED
    BY <1>1, <2>1, <2>2, NftStutterStep, TvlStutterStep DEF MiningInv
<1> QED
  BY <1>2, <1>3, <1>4, <1>5 DEF MiningNext

LEMMA MiningCounts ==
  ASSUME MiningInv
  PROVE  PoolTotalsFollow
<1> SUFFICES ASSUME Pending = 0
             PROVE  pools_count = (IF pool = "created" THEN 1 ELSE 0) + (IF parent THEN 1 ELSE 0)
  BY TvlRowsBetweenBlocks DEF PoolTotalsFollow, MiningInv
<1>1. nftLogs = <<>> /\ tvlLogs = <<>>
  <2>1. nftLogs \in Seq(NftLog) /\ tvlLogs \in Seq(TvlLog)
    BY DEF MiningInv, NftInv, NftTypes, TvlInv, TvlTypes
  <2>2. PICK m \in Nat, n \in Nat : m = Len(nftLogs) /\ n = Len(tvlLogs)
    BY <2>1
  <2>3. m = 0 /\ n = 0
    BY <2>2 DEF Pending
  <2> QED
    BY <2>1, <2>2, <2>3, EmptySeq
<1>2. Nft!FactoryEvents = {} /\ Tvl!FactoryEvents = {}
  BY <1>1 DEF Nft!FactoryEvents, Tvl!FactoryEvents
<1>3. pool = "created" <=> nftKnown
  BY <1>2 DEF MiningInv, NftInv, NftTypes, AnnouncedOnce, AfterCreation
<1>4. parent <=> tvlParents
  BY <1>2 DEF MiningInv, TvlInv, ParentFirst, ParentOnce
<1> QED
  BY <1>3, <1>4 DEF MiningInv, If

LEMMA MiningInvariance == MiningSpec => []MiningInv
<1>1. MiningInv /\ [MiningNext]_miningVars => MiningInv'
  BY MiningStep
<1> QED
  BY <1>1, MiningInitial, PTL DEF MiningSpec

\* In every finished block the mining weight of each account, and of the
\* pool, is that of the NFTs held, whatever was minted, levelled up, moved or
\* burned, in any order and by any number of logs of a block.
THEOREM WeightsAlwaysAgree == MiningSpec => []WeightsAgree
<1>1. MiningInv => WeightsAgree
  BY NftRowsBetweenBlocks DEF MiningInv, WeightsAgree
<1> QED
  BY <1>1, MiningInvariance, PTL

\* In every finished block the rows of NFTs and batches, with what was
\* minted and referred, are those of the contract, also for a pool whose first
\* batch came before its announcement in the block.
THEOREM NftRowsAlwaysFollow == MiningSpec => []NftRowsFollow
<1>1. MiningInv => NftRowsFollow
  BY NftRowsBetweenBlocks DEF MiningInv, NftRowsFollow
<1> QED
  BY <1>1, MiningInvariance, PTL

\* In every finished block the community has counted each of its pools once,
\* the parent pool's total is the sum of the stakes of its own baskets, and each
\* child pool's total that of its holders, though the writer takes the
\* parent's logs of a block before any of the children's.
THEOREM PoolTotalsAlwaysFollow == MiningSpec => []PoolTotalsFollow
<1>1. MiningInv => PoolTotalsFollow
  BY MiningCounts
<1> QED
  BY <1>1, MiningInvariance, PTL
=============================================================================

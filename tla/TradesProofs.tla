---------------------------- MODULE TradesProofs ----------------------------
(***************************************************************************)
(* The matchers of a receipt give every log the one it belongs to, as far  *)
(* as the properties say, for receipts of any length; the Basket domain    *)
(* counts every trade and keeps every event once, for any number of        *)
(* baskets of each generation, blocks and logs; and the trades, markets    *)
(* and registry rows of imported tokens are those of the chain, for any    *)
(* number of tokens, users, venues, calls and blocks.                      *)
(***************************************************************************)
EXTENDS MCBasketTrades, ImportedMarkets, FiniteFacts, SequenceTheorems

-----------------------------------------------------------------------------
(***************************************************************************)
(* The inductive invariant of a receipt.  The two logs of a trade are of   *)
(* one key and of two kinds, and no log of that key is between them; the   *)
(* first log of an open trade is the last of its key; and a log that is    *)
(* neither open nor of a pair is of a kind that comes alone.               *)
(***************************************************************************)
Logs == [kind : Kinds, key : Keys, call : Nat]

ReceiptTypes ==
    /\ logs \in Seq(Logs)
    /\ open \in [Keys -> Nat]
    /\ calls \in Nat
    /\ \A n \in DOMAIN logs : logs[n].call # 0 /\ logs[n].call <= calls
    /\ \A k \in Keys : open[k] <= calls

PairsFit ==
    \A m, n \in DOMAIN logs :
        m < n /\ logs[m].call = logs[n].call =>
            /\ logs[m].key = logs[n].key
            /\ logs[m].kind # logs[n].kind
            /\ \A i \in DOMAIN logs : m < i /\ i < n => logs[i].key # logs[m].key
            /\ logs[m].kind = "swap" => feeAfter

OpensAt(k, n) ==
    /\ logs[n].call = open[k] /\ logs[n].key = k
    /\ \A m \in DOMAIN logs : logs[m].call = open[k] => m = n
    /\ \A m \in DOMAIN logs : logs[m].key = k => m <= n
    /\ logs[n].kind = "swap" => feeAfter

OpenFits == \A k \in Keys : open[k] # 0 => \E n \in DOMAIN logs : OpensAt(k, n)

PairedUnlessAlone ==
    \A n \in DOMAIN logs :
        \/ logs[n].kind \in alone
        \/ logs[n].call = open[logs[n].key]
        \/ \E m \in DOMAIN logs : m # n /\ logs[m].call = logs[n].call

Mapped ==
    output.mapped =>
        /\ Complete
        /\ output = [mapped |-> TRUE, swaps |-> SwapTrades, baskets |-> BasketTrades,
                     v14 |-> V14Trades]

ReceiptInv == ReceiptTypes /\ PairsFit /\ OpenFits /\ PairedUnlessAlone /\ Mapped

-----------------------------------------------------------------------------
LEMMA InitReceipt ==
  ASSUME Init
  PROVE  ReceiptInv
<1>1. logs = <<>> /\ DOMAIN logs = {} /\ open = [k \in Keys |-> 0] /\ calls = 0 /\ ~output.mapped
  BY DEF Init, Nothing
<1>2. ReceiptTypes
  BY <1>1 DEF ReceiptTypes
<1> QED
  BY <1>1, <1>2 DEF ReceiptInv, PairsFit, OpenFits, PairedUnlessAlone, Mapped

\* One more log, at position p: the logs before it are as they were.
AddedAt(l, p, kind, key, call) ==
    /\ p = l + 1 /\ 1..p = 1..l \cup {p} /\ p \notin 1..l
    /\ DOMAIN logs = 1..l /\ DOMAIN logs' = 1..p /\ logs' \in Seq(Logs)
    /\ \A n \in 1..l : logs[n] \in Logs /\ logs'[n] = logs[n]
    /\ \A n \in 1..l : logs[n].call # 0 /\ logs[n].call <= calls
    /\ logs'[p] = [kind |-> kind, key |-> key, call |-> call]
    /\ calls' = IF call > calls THEN call ELSE calls
    /\ feeAfter' = feeAfter /\ alone' = alone /\ ~output'.mapped

LEMMA Added ==
  ASSUME ReceiptTypes, NEW kind \in Kinds, NEW key \in Keys, NEW call \in Nat, Add(kind, key, call)
  PROVE  \E l, p \in Nat : AddedAt(l, p, kind, key, call)
<1>1. PICK l \in Nat : l = Len(logs)
  BY DEF ReceiptTypes
<1>2. PICK p \in Nat : p = l + 1
  OBVIOUS
<1>3. logs \in Seq(Logs) /\ [kind |-> kind, key |-> key, call |-> call] \in Logs
  BY DEF ReceiptTypes, Logs
<1>4. /\ DOMAIN logs = 1..l /\ DOMAIN logs' = 1..p /\ logs' \in Seq(Logs)
      /\ \A n \in 1..l : logs[n] \in Logs /\ logs'[n] = logs[n]
      /\ logs'[p] = [kind |-> kind, key |-> key, call |-> call]
  BY <1>1, <1>2, <1>3 DEF Add
<1>5. p = l + 1 /\ 1..p = 1..l \cup {p} /\ p \notin 1..l
  BY <1>2
<1>6. /\ calls' = IF call > calls THEN call ELSE calls
      /\ feeAfter' = feeAfter /\ alone' = alone /\ ~output'.mapped
  BY DEF Add
<1>7. \A n \in 1..l : logs[n].call # 0 /\ logs[n].call <= calls
  BY <1>4 DEF ReceiptTypes
<1>8. AddedAt(l, p, kind, key, call)
  BY <1>4, <1>5, <1>6, <1>7 DEF AddedAt
<1> QED
  BY <1>8

\* The first log of a trade, and one that comes alone.
LEMMA NewCallStep ==
  ASSUME ReceiptInv, NEW kind \in Kinds, NEW key \in Keys, open[key] = 0, Add(kind, key, calls + 1),
         \/ open' = [open EXCEPT ![key] = calls + 1] /\ (kind = "swap" => feeAfter)
         \/ open' = open /\ kind \in alone
  PROVE  ReceiptInv'
<1>0. ReceiptTypes /\ PairsFit /\ OpenFits /\ PairedUnlessAlone
  BY DEF ReceiptInv
<1>1. /\ calls + 1 \in Nat /\ calls \in Nat /\ ~(calls + 1 <= calls) /\ calls + 1 # 0
      /\ open \in [Keys -> Nat] /\ \A k \in Keys : open[k] \in Nat /\ open[k] <= calls
  BY <1>0 DEF ReceiptTypes
<1>p. PICK l, p \in Nat : AddedAt(l, p, kind, key, calls + 1)
  BY <1>0, <1>1, Added
<1>2. /\ DOMAIN logs = 1..l /\ DOMAIN logs' = 1..p /\ logs' \in Seq(Logs)
      /\ \A n \in 1..l : logs[n] \in Logs /\ logs'[n] = logs[n]
      /\ \A n \in 1..l : logs[n].call # 0 /\ logs[n].call <= calls
      /\ logs'[p] = [kind |-> kind, key |-> key, call |-> calls + 1]
      /\ feeAfter' = feeAfter /\ alone' = alone /\ ~output'.mapped
  BY <1>p DEF AddedAt
<1>d. p = l + 1 /\ 1..p = 1..l \cup {p} /\ p \notin 1..l
  BY <1>p DEF AddedAt
<1>3. calls' = calls + 1
  BY <1>1, <1>p DEF AddedAt
<1>4. /\ open' \in [Keys -> Nat]
      /\ \A k \in Keys \ {key} : open'[k] = open[k]
      /\ \/ open'[key] = 0 /\ kind \in alone
         \/ open'[key] = calls + 1 /\ (kind = "swap" => feeAfter)
  BY <1>1
<1>5. \A n \in 1..l : logs[n].call \in Nat /\ logs[n].key \in Keys /\ logs[n].call # calls + 1
  BY <1>1, <1>2 DEF Logs
<1>6. ReceiptTypes'
  <2>1. \A n \in DOMAIN logs' : logs'[n].call # 0 /\ logs'[n].call <= calls'
    BY <1>1, <1>2, <1>d, <1>3, <1>5
  <2>2. \A k \in Keys : open'[k] <= calls'
    BY <1>1, <1>3, <1>4
  <2> QED
    BY <1>1, <1>2, <1>3, <1>4, <2>1, <2>2 DEF ReceiptTypes
<1>7. PairsFit'
  <2> SUFFICES ASSUME NEW m \in DOMAIN logs', NEW n \in DOMAIN logs', m < n, logs'[m].call = logs'[n].call
               PROVE  /\ logs'[m].key = logs'[n].key
                      /\ logs'[m].kind # logs'[n].kind
                      /\ \A i \in DOMAIN logs' : m < i /\ i < n => logs'[i].key # logs'[m].key
                      /\ logs'[m].kind = "swap" => feeAfter'
    BY DEF PairsFit
  <2>1. m \in 1..l
    BY <1>p, <1>2, <1>d
  <2>2. n # p
    BY <1>2, <1>5, <2>1
  <2>3. n \in 1..l
    BY <1>2, <1>d, <2>2
  <2>4. /\ logs[m].key = logs[n].key /\ logs[m].kind # logs[n].kind
        /\ \A i \in DOMAIN logs : m < i /\ i < n => logs[i].key # logs[m].key
        /\ logs[m].kind = "swap" => feeAfter
    BY <1>0, <1>2, <2>1, <2>3 DEF PairsFit
  <2>5. ASSUME NEW i \in DOMAIN logs', m < i, i < n PROVE logs'[i].key # logs'[m].key
    <3>1. i \in 1..l
      BY <1>p, <1>d, <1>2, <2>1, <2>3, <2>5
    <3> QED
      BY <1>2, <2>1, <2>4, <2>5, <3>1
  <2> QED
    BY <1>2, <2>1, <2>3, <2>4, <2>5
<1>8. OpenFits'
  <2> SUFFICES ASSUME NEW k \in Keys, open'[k] # 0
               PROVE  \E n \in DOMAIN logs' : OpensAt(k, n)'
    BY DEF OpenFits
  <2>1. CASE k = key
    <3>1. p \in DOMAIN logs' /\ \A m \in DOMAIN logs' : (m \in 1..l \/ m = p) /\ m <= p
      BY <1>p, <1>2, <1>d
    <3>2. \A m \in DOMAIN logs' : logs'[m].call = open'[k] => m = p
      BY <1>2, <1>4, <1>5, <2>1, <3>1
    <3>4. OpensAt(k, p)'
      BY <1>2, <1>4, <2>1, <3>1, <3>2 DEF OpensAt
    <3> QED
      BY <3>1, <3>4
  <2>2. CASE k # key
    <3>1. PICK n \in DOMAIN logs : OpensAt(k, n)
      BY <1>0, <1>4, <2>2 DEF OpenFits
    <3>2. n \in 1..l /\ n \in DOMAIN logs'
      BY <1>2, <1>d
    <3>3. open[k] # calls + 1 /\ open'[k] = open[k]
      BY <1>1, <1>4, <2>2
    <3>4. \A m \in DOMAIN logs' : logs'[m].call = open'[k] => m = n
      BY <1>2, <1>d, <3>1, <3>3 DEF OpensAt
    <3>5. \A m \in DOMAIN logs' : logs'[m].key = k => m <= n
      BY <1>2, <1>d, <2>2, <3>1 DEF OpensAt
    <3>6. logs'[n].call = open'[k] /\ logs'[n].key = k /\ (logs'[n].kind = "swap" => feeAfter')
      BY <1>2, <3>1, <3>2, <3>3 DEF OpensAt
    <3>7. OpensAt(k, n)'
      BY <3>4, <3>5, <3>6 DEF OpensAt
    <3> QED
      BY <3>2, <3>7
  <2> QED
    BY <2>1, <2>2
<1>9. PairedUnlessAlone'
  <2> SUFFICES ASSUME NEW n \in DOMAIN logs'
               PROVE  \/ logs'[n].kind \in alone'
                      \/ logs'[n].call = open'[logs'[n].key]
                      \/ \E m \in DOMAIN logs' : m # n /\ logs'[m].call = logs'[n].call
    BY DEF PairedUnlessAlone
  <2>1. CASE n = p
    BY <1>2, <1>4, <2>1
  <2>2. CASE n \in 1..l
    <3>1. \/ logs[n].kind \in alone
          \/ logs[n].call = open[logs[n].key]
          \/ \E m \in DOMAIN logs : m # n /\ logs[m].call = logs[n].call
      BY <1>0, <1>2, <2>2 DEF PairedUnlessAlone
    <3>2. logs[n].call = open[logs[n].key] => logs[n].key \in Keys \ {key}
      BY <1>2, <1>5, <2>2
    <3>3. \A m \in DOMAIN logs : m \in DOMAIN logs'
      BY <1>2, <1>d
    <3> QED
      BY <1>2, <1>4, <2>2, <3>1, <3>2, <3>3
  <2> QED
    BY <1>2, <1>d, <2>1, <2>2
<1> QED
  BY <1>2, <1>6, <1>7, <1>8, <1>9 DEF ReceiptInv, Mapped

\* The second log of a trade is of the other kind and closes it.
LEMMA SecondStep ==
  ASSUME ReceiptInv, NEW key \in Keys, Second(key)
  PROVE  ReceiptInv'
<1>0. ReceiptTypes /\ PairsFit /\ OpenFits /\ PairedUnlessAlone
  BY DEF ReceiptInv
<1>1. /\ calls \in Nat /\ open \in [Keys -> Nat] /\ open[key] # 0
      /\ \A k \in Keys : open[k] \in Nat /\ open[k] <= calls
      /\ open' = [open EXCEPT ![key] = 0]
  BY <1>0 DEF ReceiptTypes, Second
<1>h. PICK h \in DOMAIN logs : OpensAt(key, h)
  BY <1>0, <1>1 DEF OpenFits
<1>k. PICK kind : kind = IF logs[h].kind = "fee" THEN "swap" ELSE "fee"
  OBVIOUS
<1>a. kind \in Kinds /\ Add(kind, key, open[key])
  BY <1>h, <1>k DEF Second, OpensAt, Kinds
<1>p. PICK l, p \in Nat : AddedAt(l, p, kind, key, open[key])
  BY <1>0, <1>1, <1>a, Added
<1>2. /\ DOMAIN logs = 1..l /\ DOMAIN logs' = 1..p /\ logs' \in Seq(Logs)
      /\ \A n \in 1..l : logs[n] \in Logs /\ logs'[n] = logs[n]
      /\ \A n \in 1..l : logs[n].call # 0 /\ logs[n].call <= calls
      /\ logs'[p] = [kind |-> kind, key |-> key, call |-> open[key]]
      /\ feeAfter' = feeAfter /\ alone' = alone /\ ~output'.mapped
  BY <1>p DEF AddedAt
<1>d. p = l + 1 /\ 1..p = 1..l \cup {p} /\ p \notin 1..l
  BY <1>p DEF AddedAt
<1>3. calls' = calls
  BY <1>1, <1>p DEF AddedAt
<1>4. open' \in [Keys -> Nat] /\ open'[key] = 0 /\ \A k \in Keys \ {key} : open'[k] = open[k]
  BY <1>1
<1>5. \A n \in 1..l : logs[n].call \in Nat /\ logs[n].key \in Keys
  BY <1>2 DEF Logs
<1>6. ReceiptTypes'
  <2>1. \A n \in DOMAIN logs' : logs'[n].call # 0 /\ logs'[n].call <= calls'
    BY <1>1, <1>2, <1>d, <1>3
  <2>2. \A k \in Keys : open'[k] <= calls'
    BY <1>1, <1>3, <1>4
  <2> QED
    BY <1>1, <1>2, <1>3, <1>4, <2>1, <2>2 DEF ReceiptTypes
<1>7. /\ h \in 1..l /\ logs[h].call = open[key] /\ logs[h].key = key /\ logs[h].kind # kind
      /\ \A m \in 1..l : logs[m].call = open[key] => m = h
      /\ \A m \in 1..l : logs[m].key = key => m <= h
      /\ logs[h].kind = "swap" => feeAfter
  BY <1>h, <1>k, <1>2 DEF OpensAt
<1>8. PairsFit'
  <2> SUFFICES ASSUME NEW m \in DOMAIN logs', NEW n \in DOMAIN logs', m < n, logs'[m].call = logs'[n].call
               PROVE  /\ logs'[m].key = logs'[n].key
                      /\ logs'[m].kind # logs'[n].kind
                      /\ \A i \in DOMAIN logs' : m < i /\ i < n => logs'[i].key # logs'[m].key
                      /\ logs'[m].kind = "swap" => feeAfter'
    BY DEF PairsFit
  <2>1. m \in 1..l
    BY <1>p, <1>2, <1>d
  <2>2. CASE n = p
    <3>1. m = h
      BY <1>2, <1>7, <2>1, <2>2
    <3>2. ASSUME NEW i \in DOMAIN logs', m < i, i < n PROVE logs'[i].key # logs'[m].key
      <4>1. i \in 1..l /\ ~(i <= h)
        BY <1>p, <1>d, <1>2, <1>7, <2>2, <3>1, <3>2
      <4> QED
        BY <1>2, <1>7, <3>1, <4>1
    <3> QED
      BY <1>2, <1>7, <2>2, <3>1, <3>2
  <2>3. CASE n \in 1..l
    <3>4. /\ logs[m].key = logs[n].key /\ logs[m].kind # logs[n].kind
          /\ \A i \in DOMAIN logs : m < i /\ i < n => logs[i].key # logs[m].key
          /\ logs[m].kind = "swap" => feeAfter
      BY <1>0, <1>2, <2>1, <2>3 DEF PairsFit
    <3>5. ASSUME NEW i \in DOMAIN logs', m < i, i < n PROVE logs'[i].key # logs'[m].key
      <4>1. i \in 1..l
        BY <1>p, <1>d, <1>2, <2>1, <2>3, <3>5
      <4> QED
        BY <1>2, <2>1, <3>4, <3>5, <4>1
    <3> QED
      BY <1>2, <2>1, <2>3, <3>4, <3>5
  <2> QED
    BY <1>2, <1>d, <2>2, <2>3
<1>9. OpenFits'
  <2> SUFFICES ASSUME NEW k \in Keys, open'[k] # 0
               PROVE  \E n \in DOMAIN logs' : OpensAt(k, n)'
    BY DEF OpenFits
  <2>1. k # key /\ open'[k] = open[k]
    BY <1>4
  <2>2. PICK n \in DOMAIN logs : OpensAt(k, n)
    BY <1>0, <2>1 DEF OpenFits
  <2>3. n \in 1..l /\ n \in DOMAIN logs'
    BY <1>2, <1>d
  <2>4. open[k] # open[key]
    BY <1>2, <1>7, <2>1, <2>2 DEF OpensAt
  <2>5. \A m \in DOMAIN logs' : logs'[m].call = open'[k] => m = n
    BY <1>2, <1>d, <2>1, <2>2, <2>4 DEF OpensAt
  <2>6. \A m \in DOMAIN logs' : logs'[m].key = k => m <= n
    BY <1>2, <1>d, <2>1, <2>2 DEF OpensAt
  <2>7. logs'[n].call = open'[k] /\ logs'[n].key = k /\ (logs'[n].kind = "swap" => feeAfter')
    BY <1>2, <2>1, <2>2, <2>3 DEF OpensAt
  <2>8. OpensAt(k, n)'
    BY <2>5, <2>6, <2>7 DEF OpensAt
  <2> QED
    BY <2>3, <2>8
<1>10. PairedUnlessAlone'
  <2> SUFFICES ASSUME NEW n \in DOMAIN logs'
               PROVE  \/ logs'[n].kind \in alone'
                      \/ logs'[n].call = open'[logs'[n].key]
                      \/ \E m \in DOMAIN logs' : m # n /\ logs'[m].call = logs'[n].call
    BY DEF PairedUnlessAlone
  <2>0. \A m \in 1..l : m \in DOMAIN logs' /\ m # p
    BY <1>2, <1>d
  <2>1. CASE n = p
    BY <1>2, <1>7, <2>0, <2>1
  <2>2. CASE n \in 1..l
    <3>1. \/ logs[n].kind \in alone
          \/ logs[n].call = open[logs[n].key]
          \/ \E m \in DOMAIN logs : m # n /\ logs[m].call = logs[n].call
      BY <1>0, <1>2, <2>2 DEF PairedUnlessAlone
    <3>2. CASE logs[n].call = open[logs[n].key] /\ logs[n].key = key
      <4>1. n = h /\ p \in DOMAIN logs'
        BY <1>2, <1>d, <1>7, <2>2, <3>2
      <4> QED
        BY <1>2, <1>7, <2>0, <4>1
    <3>3. CASE logs[n].call = open[logs[n].key] /\ logs[n].key # key
      BY <1>2, <1>4, <1>5, <2>2, <3>3
    <3> QED
      BY <1>2, <2>0, <2>2, <3>1, <3>2, <3>3
  <2> QED
    BY <1>2, <1>d, <2>1, <2>2
<1> QED
  BY <1>2, <1>6, <1>8, <1>9, <1>10 DEF ReceiptInv, Mapped

LEMMA NextReceipt ==
  ASSUME ReceiptInv, [Next]_vars
  PROVE  ReceiptInv'
<1>1. ASSUME NEW kind \in Kinds, NEW key \in Keys, First(kind, key) PROVE ReceiptInv'
  BY <1>1, NewCallStep DEF First
<1>2. ASSUME NEW key \in Keys, Second(key) PROVE ReceiptInv'
  BY <1>2, SecondStep
<1>3. ASSUME NEW kind \in Kinds, NEW key \in Keys, Lone(kind, key) PROVE ReceiptInv'
  BY <1>3, NewCallStep DEF Lone
<1>4. CASE UNCHANGED <<logs, open, calls, feeAfter, alone>> /\ (UNCHANGED output \/ MapReceipt)
  <2>1. ReceiptTypes' /\ PairsFit' /\ OpenFits' /\ PairedUnlessAlone'
    BY <1>4 DEF ReceiptInv, ReceiptTypes, PairsFit, OpenFits, OpensAt, PairedUnlessAlone
  <2>2. Mapped'
    <3>1. /\ Complete' = Complete /\ SwapTrades' = SwapTrades
          /\ BasketTrades' = BasketTrades /\ V14Trades' = V14Trades
      BY <1>4 DEF Complete, SwapTrades, BasketTrades, V14Trades, Taken, TakenUpTo, Take, Free, MatchingSwap, Place, Fees, Of
    <3>2. CASE UNCHANGED output
      BY <3>1, <3>2 DEF ReceiptInv, Mapped
    <3>3. CASE MapReceipt
      BY <3>1, <3>3 DEF MapReceipt, Mapped
    <3> QED
      BY <3>2, <3>3, <1>4
  <2> QED
    BY <2>1, <2>2 DEF ReceiptInv
<1>5. CASE UNCHANGED vars
  BY <1>4, <1>5 DEF vars
<1>6. CASE MapReceipt
  BY <1>4, <1>6 DEF MapReceipt
<1> QED
  BY <1>1, <1>2, <1>3, <1>5, <1>6 DEF Next

-----------------------------------------------------------------------------
\* Fees and swaps by what their logs say.
LEMMA KindsOfLogs ==
  ASSUME logs \in Seq(Logs)
  PROVE  /\ Len(logs) \in Nat /\ DOMAIN logs = 1..Len(logs)
         /\ \A n \in DOMAIN logs : logs[n] \in Logs /\ logs[n].key \in Keys /\ logs[n].kind \in Kinds
         /\ \A n : n \in Fees <=> n \in DOMAIN logs /\ logs[n].kind = "fee"
         /\ \A n : n \in Swaps <=> n \in DOMAIN logs /\ logs[n].kind = "swap"
         /\ \A key \in Keys, n \in DOMAIN logs :
               /\ n \in Of("fee", key) <=> n \in Fees /\ logs[n].key = key
               /\ n \in Of("swap", key) <=> n \in Swaps /\ logs[n].key = key
         /\ \A kind, key : Of(kind, key) \subseteq DOMAIN logs
<1>1. Len(logs) \in Nat /\ DOMAIN logs = 1..Len(logs) /\ \A n \in DOMAIN logs : logs[n] \in Logs
  OBVIOUS
<1>2. \A n \in DOMAIN logs : logs[n].key \in Keys /\ logs[n].kind \in Kinds
  BY <1>1 DEF Logs
<1> QED
  BY <1>1, <1>2 DEF Fees, Swaps, Of

(***************************************************************************)
(* The taking of swaps, one hook log at a time.  What a hook log has taken *)
(* is a later log of its key, nobody else's, and there was none before it  *)
(* that no earlier hook log had taken.                                     *)
(***************************************************************************)
Takings == [Fees -> 0..Len(logs)]

LEMMA TakeIn ==
  ASSUME logs \in Seq(Logs), NEW taken \in Takings, NEW n \in Fees
  PROVE  /\ Take(taken, n) \in Takings
         /\ \A f \in Fees \ {n} : Take(taken, n)[f] = taken[f]
         /\ \/ Free(taken, n) = {} /\ Take(taken, n)[n] = taken[n]
            \/ /\ Take(taken, n)[n] \in Free(taken, n)
               /\ \A m \in Free(taken, n) : Take(taken, n)[n] <= m
<1>1. CASE Free(taken, n) = {}
  BY <1>1 DEF Take
<1>2. CASE Free(taken, n) # {}
  <2>1. Free(taken, n) \subseteq DOMAIN logs /\ DOMAIN logs \subseteq Nat /\ DOMAIN logs \subseteq 0..Len(logs)
    BY KindsOfLogs DEF Free
  <2>2. PICK S : S = Free(taken, n)
    OBVIOUS
  <2>3. Min(S) \in S /\ \A m \in S : Min(S) <= m
    BY <1>2, <2>1, <2>2, LeastPosition
  <2>4. Min(S) \in 0..Len(logs)
    BY <2>1, <2>2, <2>3
  <2>5. Take(taken, n) = [taken EXCEPT ![n] = Min(S)]
    BY <1>2, <2>2 DEF Take
  <2> QED
    BY <2>2, <2>3, <2>4, <2>5 DEF Takings
<1> QED
  BY <1>1, <1>2

LEMMA TakenSteps ==
  ASSUME logs \in Seq(Logs)
  PROVE  /\ TakenUpTo \in [0..Len(logs) -> Takings]
         /\ TakenUpTo[0] = [f \in Fees |-> 0]
         /\ \A n \in 1..Len(logs) :
               TakenUpTo[n] = IF n \in Fees THEN Take(TakenUpTo[n - 1], n) ELSE TakenUpTo[n - 1]
<1> DEFINE Solves(g) == g = [n \in 0..Len(logs) |->
                               IF n = 0 THEN [f \in Fees |-> 0]
                               ELSE IF n \in Fees THEN Take(g[n - 1], n) ELSE g[n - 1]]
<1>1. PICK L \in Nat : L = Len(logs)
  OBVIOUS
<1>2. PICK V : V = Takings
  OBVIOUS
<1>3. PICK base : base = [f \in Fees |-> 0]
  OBVIOUS
<1>4. base \in V
  <2>1. 0 \in 0..Len(logs)
    BY <1>1
  <2> QED
    BY <1>2, <1>3, <2>1 DEF Takings
<1>5. PICK step : step = [x \in (1..L) \X V |-> IF x[1] \in Fees THEN Take(x[2], x[1]) ELSE x[2]]
  OBVIOUS
<1>6. \A n \in 1..L, v \in V : step[<<n, v>>] = IF n \in Fees THEN Take(v, n) ELSE v
  BY <1>5
<1>7. ASSUME NEW n \in 1..L, NEW v \in V PROVE step[<<n, v>>] \in V
  <2>1. CASE n \in Fees
    <3>1. v \in Takings
      BY <1>2
    <3>2. Take(v, n) \in Takings
      BY <2>1, <3>1, TakeIn
    <3> QED
      BY <1>2, <1>6, <2>1, <3>2
  <2> QED
    BY <1>6, <2>1
<1>8. PICK g \in [0..L -> V] : StepsFrom(g, base, step, L)
  BY <1>4, <1>7, StepsExist
<1>9. \A n \in 1..L : n - 1 \in 0..L /\ n # 0
  OBVIOUS
<1>10. \A n \in 1..L : g[n] = IF n \in Fees THEN Take(g[n - 1], n) ELSE g[n - 1]
  BY <1>6, <1>8, <1>9 DEF StepsFrom
<1>11. Solves(g)
  <2>1. g[0] = base
    BY <1>8 DEF StepsFrom
  <2>2. \A n \in 0..L : n = 0 \/ n \in 1..L
    OBVIOUS
  <2>3. \A n \in 0..L : g[n] = IF n = 0 THEN [f \in Fees |-> 0]
                                ELSE IF n \in Fees THEN Take(g[n - 1], n) ELSE g[n - 1]
    BY <1>3, <1>9, <1>10, <2>1, <2>2
  <2> QED
    BY <1>1, <2>3
<1>12. Solves(TakenUpTo)
  <2>1. TakenUpTo = CHOOSE h : Solves(h)
    BY DEF TakenUpTo
  <2> HIDE DEF Solves
  <2> QED
    BY <1>11, <2>1
<1>13. ASSUME NEW h, Solves(h) PROVE h = g
  <2> DEFINE Differ == {n \in 0..L : h[n] # g[n]}
  <2>1. \A n \in 0..L : h[n] = IF n = 0 THEN [f \in Fees |-> 0]
                                ELSE IF n \in Fees THEN Take(h[n - 1], n) ELSE h[n - 1]
    BY <1>1, <1>13
  <2>2. Differ = {}
    <3> SUFFICES ASSUME Differ # {} PROVE FALSE
      OBVIOUS
    <3>1. Differ \subseteq Nat
      OBVIOUS
    <3>2. PICK n \in Differ : \A k \in Differ : n <= k
      <4> HIDE DEF Differ
      <4> QED
        BY <3>1, LeastNumber
    <3>3. n # 0
      BY <1>1, <1>11, <2>1, <3>2
    <3>4. n \in 1..L /\ n - 1 \in 0..L /\ n - 1 \notin Differ
      BY <3>2, <3>3
    <3> QED
      BY <1>10, <2>1, <3>2, <3>3, <3>4
  <2>3. h = [n \in 0..L |-> h[n]]
    BY <1>1, <1>13
  <2> QED
    BY <1>8, <2>2, <2>3
<1>14. TakenUpTo = g
  <2> HIDE DEF Solves
  <2> QED
    BY <1>12, <1>13
<1> QED
  BY <1>1, <1>2, <1>3, <1>8, <1>10, <1>14 DEF StepsFrom

\* What has been taken before the hook log at n + 1.
TakenWell(t, n) ==
    /\ \A f \in Fees : f > n => t[f] = 0
    /\ \A f \in Fees : t[f] # 0 => t[f] \in Swaps /\ logs[t[f]].key = logs[f].key /\ t[f] > f
    /\ \A f, g \in Fees : t[f] # 0 /\ t[f] = t[g] => f = g
    /\ \A f \in Fees, m \in Swaps :
          f <= n /\ logs[m].key = logs[f].key /\ m > f /\ (t[f] = 0 \/ m < t[f])
              => \E g \in Fees : g < f /\ t[g] = m

LEMMA TakeWell ==
  ASSUME logs \in Seq(Logs), NEW t \in Takings, NEW n \in 1..Len(logs), n \in Fees, TakenWell(t, n - 1)
  PROVE  TakenWell(Take(t, n), n)
<1>1. PICK u \in Takings : u = Take(t, n)
  BY TakeIn
<1>2. /\ \A f \in Fees \ {n} : u[f] = t[f]
      /\ \/ Free(t, n) = {} /\ u[n] = t[n]
         \/ u[n] \in Free(t, n) /\ \A m \in Free(t, n) : u[n] <= m
  BY <1>1, TakeIn
<1>3. /\ n \in Nat /\ Fees \subseteq Nat /\ Swaps \subseteq Nat /\ \A m \in Swaps : m # 0
      /\ \A f \in Fees : f <= n => f = n \/ f <= n - 1
      /\ \A f \in Fees : f > n => f > n - 1
      /\ n > n - 1 /\ \A f \in Fees : ~(f > n - 1) => f < n
      /\ u \in [Fees -> Nat] /\ t \in [Fees -> Nat]
  <2>1. Fees \subseteq 1..Len(logs) /\ Swaps \subseteq 1..Len(logs) /\ Len(logs) \in Nat
    BY KindsOfLogs
  <2>2. Fees \subseteq Nat /\ Swaps \subseteq Nat /\ n \in Nat /\ \A m \in Swaps : m # 0
    BY <2>1
  <2>3. u \in [Fees -> Nat] /\ t \in [Fees -> Nat]
    BY <2>1 DEF Takings
  <2> QED
    BY <2>2, <2>3
<1>4. \A m : m \in Free(t, n) <=> m \in Swaps /\ logs[m].key = logs[n].key /\ m > n /\ \A f \in Fees : t[f] # m
  <2>1. logs[n].key \in Keys /\ DOMAIN logs = 1..Len(logs)
    BY KindsOfLogs
  <2> QED
    BY <2>1, KindsOfLogs DEF Free
<1>5. t[n] = 0
  BY <1>3 DEF TakenWell
<1>6. \A f \in Fees : f > n => u[f] = 0
  BY <1>2, <1>3 DEF TakenWell
<1>7. ASSUME NEW f \in Fees, u[f] # 0 PROVE u[f] \in Swaps /\ logs[u[f]].key = logs[f].key /\ u[f] > f
  BY <1>2, <1>4, <1>5, <1>7 DEF TakenWell
<1>8. ASSUME NEW f \in Fees, NEW g \in Fees, u[f] # 0, u[f] = u[g] PROVE f = g
  BY <1>2, <1>4, <1>5, <1>8 DEF TakenWell
<1>9. ASSUME NEW f \in Fees, NEW m \in Swaps, f <= n, logs[m].key = logs[f].key, m > f, u[f] = 0 \/ m < u[f]
      PROVE  \E g \in Fees : g < f /\ u[g] = m
  <2>1. CASE f = n
    <3>1. m \notin Free(t, n)
      BY <1>2, <1>3, <1>4, <1>9, <2>1
    <3>2. PICK g \in Fees : t[g] = m
      BY <1>4, <1>9, <2>1, <3>1
    <3>3. g < n /\ g # n
      BY <1>3, <3>2 DEF TakenWell
    <3> QED
      BY <1>2, <2>1, <3>2, <3>3
  <2>2. CASE f # n
    <3>1. f <= n - 1 /\ u[f] = t[f]
      BY <1>2, <1>3, <1>9, <2>2
    <3>2. PICK g \in Fees : g < f /\ t[g] = m
      BY <1>9, <3>1 DEF TakenWell
    <3>3. g # n
      BY <1>3, <1>5, <3>2
    <3> QED
      BY <1>2, <3>2, <3>3
  <2> QED
    BY <2>1, <2>2
<1>10. TakenWell(u, n)
  BY <1>6, <1>7, <1>8, <1>9 DEF TakenWell
<1> QED
  BY <1>1, <1>10

LEMMA TakenIsWell ==
  ASSUME logs \in Seq(Logs)
  PROVE  Taken \in Takings /\ TakenWell(Taken, Len(logs))
<1>1. PICK L \in Nat : L = Len(logs)
  OBVIOUS
<1>2. PICK T : T = TakenUpTo
  OBVIOUS
<1>3. /\ T \in [0..L -> Takings] /\ T[0] = [f \in Fees |-> 0]
      /\ \A n \in 1..L : T[n] = IF n \in Fees THEN Take(T[n - 1], n) ELSE T[n - 1]
  BY <1>1, <1>2, TakenSteps
<1>f. Fees \subseteq 1..L /\ Swaps \subseteq 1..L
  BY <1>1, KindsOfLogs
<1> DEFINE Bad == {n \in 0..L : ~TakenWell(T[n], n)}
<1>4. Bad = {}
  <2> SUFFICES ASSUME Bad # {} PROVE FALSE
    OBVIOUS
  <2>1. PICK n \in Bad : \A k \in Bad : n <= k
    <3>1. Bad \subseteq Nat
      OBVIOUS
    <3> HIDE DEF Bad
    <3> QED
      BY <3>1, LeastNumber
  <2>2. n # 0
    <3>1. TakenWell(T[0], 0)
      BY <1>3, <1>f DEF TakenWell
    <3> QED
      BY <2>1, <3>1
  <2>3. n \in 1..L /\ n - 1 \in 0..L /\ n - 1 \notin Bad
    BY <2>1, <2>2
  <2>4. TakenWell(T[n - 1], n - 1) /\ T[n - 1] \in Takings
    BY <1>3, <2>3
  <2>5. CASE n \in Fees
    <3>1. TakenWell(Take(T[n - 1], n), n)
      BY <1>1, <2>3, <2>4, <2>5, TakeWell
    <3> QED
      BY <1>3, <2>1, <2>3, <2>5, <3>1
  <2>6. CASE n \notin Fees
    <3>1. T[n] = T[n - 1] /\ \A f \in Fees : (f > n => f > n - 1) /\ (f <= n => f <= n - 1)
      BY <1>3, <1>f, <2>3, <2>6
    <3>2. TakenWell(T[n], n)
      BY <2>4, <3>1 DEF TakenWell
    <3> QED
      BY <2>1, <3>2
  <2> QED
    BY <2>5, <2>6
<1>5. T[L] = Taken /\ L \in 0..L
  BY <1>1, <1>2 DEF Taken
<1>6. TakenWell(T[L], L)
  BY <1>4, <1>5
<1> QED
  BY <1>1, <1>3, <1>5, <1>6

-----------------------------------------------------------------------------
\* Two logs of one trade: of one key and two kinds, no log of the key
\* between them, and no third log of the trade.
Between(i, m, n) == (m < i /\ i < n) \/ (n < i /\ i < m)

LEMMA PairFacts ==
  ASSUME ReceiptInv, NEW m \in DOMAIN logs, NEW n \in DOMAIN logs, m # n, logs[m].call = logs[n].call
  PROVE  /\ logs[m].key = logs[n].key /\ logs[m].kind # logs[n].kind
         /\ \A i \in DOMAIN logs : Between(i, m, n) => logs[i].key # logs[m].key
         /\ logs[m].kind = "fee" /\ ~feeAfter => m < n
         /\ \A i \in DOMAIN logs : logs[i].call = logs[m].call => i = m \/ i = n
         /\ Partner(n) = m
<1>1. PairsFit /\ logs \in Seq(Logs)
  BY DEF ReceiptInv, ReceiptTypes
<1>2. DOMAIN logs \subseteq Nat /\ \A i \in DOMAIN logs : logs[i].kind \in {"fee", "swap"}
  BY <1>1, KindsOfLogs DEF Kinds
<1>3. ASSUME NEW i \in DOMAIN logs, NEW j \in DOMAIN logs, i # j, logs[i].call = logs[j].call
      PROVE  /\ logs[i].kind # logs[j].kind /\ logs[i].key = logs[j].key
             /\ \A k \in DOMAIN logs : Between(k, i, j) => logs[k].key # logs[i].key
             /\ logs[i].kind = "fee" /\ ~feeAfter => i < j
  <2>0. i \in Nat /\ j \in Nat /\ (i < j \/ j < i)
    BY <1>2, <1>3
  <2>1. CASE i < j
    <3>1. /\ logs[i].kind # logs[j].kind /\ logs[i].key = logs[j].key
          /\ \A k \in DOMAIN logs : i < k /\ k < j => logs[k].key # logs[i].key
      BY <1>1, <1>3, <2>1 DEF PairsFit
    <3>2. \A k \in DOMAIN logs : Between(k, i, j) => i < k /\ k < j
      BY <1>2, <2>0, <2>1 DEF Between
    <3> QED
      BY <2>1, <3>1, <3>2
  <2>2. CASE j < i
    <3>1. /\ logs[i].kind # logs[j].kind /\ logs[i].key = logs[j].key
          /\ \A k \in DOMAIN logs : j < k /\ k < i => logs[k].key # logs[j].key
          /\ logs[j].kind = "swap" => feeAfter
      BY <1>1, <1>3, <2>2 DEF PairsFit
    <3>2. \A k \in DOMAIN logs : Between(k, i, j) => j < k /\ k < i
      BY <1>2, <2>0, <2>2 DEF Between
    <3>3. logs[i].kind = "fee" => logs[j].kind = "swap"
      BY <1>2, <3>1
    <3> QED
      BY <3>1, <3>2, <3>3
  <2> QED
    BY <2>0, <2>1, <2>2
<1>4. ASSUME NEW i \in DOMAIN logs, logs[i].call = logs[m].call, i # m, i # n PROVE FALSE
  BY <1>2, <1>3, <1>4
<1>5. PICK other : other = {i \in DOMAIN logs \ {n} : logs[i].call = logs[n].call}
  OBVIOUS
<1>6. other = {m}
  BY <1>4, <1>5
<1>7. m \in Nat /\ other \subseteq Nat /\ other # {}
  BY <1>2, <1>6
<1>8. Min(other) \in other
  BY <1>7, LeastPosition
<1>9. Partner(n) = m
  BY <1>5, <1>6, <1>8 DEF Partner
<1> QED
  BY <1>3, <1>4, <1>9

LEMMA PartnerOf ==
  ASSUME ReceiptInv, NEW n \in DOMAIN logs, Partner(n) # 0
  PROVE  Partner(n) \in DOMAIN logs /\ Partner(n) # n /\ logs[Partner(n)].call = logs[n].call
<1>1. logs \in Seq(Logs)
  BY DEF ReceiptInv, ReceiptTypes
<1>2. DOMAIN logs \subseteq Nat
  BY <1>1, KindsOfLogs
<1>3. PICK other : other = {m \in DOMAIN logs \ {n} : logs[m].call = logs[n].call}
  OBVIOUS
<1>4. Partner(n) = Min(other) /\ other # {}
  BY <1>3 DEF Partner
<1>5. other \subseteq Nat
  BY <1>2, <1>3
<1>6. Min(other) \in other
  BY <1>4, <1>5, LeastPosition
<1> QED
  BY <1>3, <1>4, <1>6

LEMMA FeePartner ==
  ASSUME ReceiptInv, Complete, "fee" \notin alone, NEW f \in Fees
  PROVE  /\ Partner(f) \in Swaps /\ f \in DOMAIN logs /\ Partner(f) \in DOMAIN logs /\ Partner(f) # f
         /\ logs[Partner(f)].call = logs[f].call /\ logs[Partner(f)].key = logs[f].key
         /\ Partner(Partner(f)) = f
<1>1. logs \in Seq(Logs) /\ PairedUnlessAlone /\ \A i \in DOMAIN logs : logs[i].call # 0
  BY DEF ReceiptInv, ReceiptTypes
<1>2. f \in DOMAIN logs /\ logs[f].kind = "fee" /\ logs[f].key \in Keys
  BY <1>1, KindsOfLogs
<1>3. logs[f].call # open[logs[f].key]
  BY <1>1, <1>2 DEF Complete
<1>4. PICK m \in DOMAIN logs : m # f /\ logs[m].call = logs[f].call
  BY <1>1, <1>2, <1>3 DEF PairedUnlessAlone
<1>5. Partner(f) = m /\ Partner(m) = f /\ logs[m].key = logs[f].key /\ logs[m].kind # "fee"
  BY <1>2, <1>4, PairFacts
<1>6. m \in Swaps
  BY <1>1, <1>5, KindsOfLogs DEF Kinds
<1> QED
  BY <1>2, <1>4, <1>5, <1>6

\* Hooks that log before the swap: every fee takes its own swap.
LEMMA TakenIsPartner ==
  ASSUME ReceiptInv, Complete, "fee" \notin alone, ~feeAfter
  PROVE  \A f \in Fees : Taken[f] = Partner(f) /\ Taken[f] # 0
<1>1. logs \in Seq(Logs)
  BY DEF ReceiptInv, ReceiptTypes
<1>2. PICK T \in Takings : T = Taken /\ TakenWell(T, Len(logs))
  BY <1>1, TakenIsWell
<1>3. /\ Len(logs) \in Nat /\ DOMAIN logs = 1..Len(logs)
      /\ Fees \subseteq DOMAIN logs /\ Swaps \subseteq DOMAIN logs
      /\ \A n \in DOMAIN logs : n \in Nat /\ n # 0 /\ n <= Len(logs)
  BY <1>1, KindsOfLogs
<1>4. PICK P : P = [f \in Fees |-> Partner(f)]
  OBVIOUS
<1>5. \A f \in Fees : /\ P[f] \in Swaps /\ P[f] # f /\ logs[P[f]].key = logs[f].key
                      /\ logs[P[f]].call = logs[f].call /\ f < P[f]
                      /\ \A i \in DOMAIN logs : Between(i, f, P[f]) => logs[i].key # logs[f].key
  <2> TAKE f \in Fees
  <2>1. /\ P[f] \in Swaps /\ P[f] # f /\ f \in DOMAIN logs /\ P[f] \in DOMAIN logs
        /\ logs[P[f]].call = logs[f].call /\ logs[P[f]].key = logs[f].key
    BY <1>4, FeePartner
  <2>2. logs[f].kind = "fee"
    BY <1>1, KindsOfLogs
  <2> QED
    BY <2>1, <2>2, PairFacts
<1>6. \A f, g \in Fees : P[f] = P[g] => f = g
  <2> TAKE f, g \in Fees
  <2>1. Partner(P[f]) = f /\ Partner(P[g]) = g
    BY <1>4, FeePartner
  <2> QED
    BY <2>1
<1> DEFINE Bad == {f \in Fees : T[f] # P[f]}
<1>7. Bad = {}
  <2> SUFFICES ASSUME Bad # {} PROVE FALSE
    OBVIOUS
  <2>1. PICK f \in Bad : \A g \in Bad : f <= g
    <3>1. Bad \subseteq Nat
      BY <1>3
    <3> HIDE DEF Bad
    <3> QED
      BY <3>1, LeastNumber
  <2>2. f \in Fees /\ T[f] # P[f] /\ f \in Nat /\ P[f] \in Nat /\ f <= Len(logs)
    BY <1>3, <1>5, <2>1
  <2>3. \A g \in Fees : g < f => T[g] = P[g]
    <3> SUFFICES ASSUME NEW g \in Fees, g < f, T[g] # P[g] PROVE FALSE
      OBVIOUS
    <3>1. g \in Bad /\ g \in Nat
      BY <1>3
    <3>2. f <= g
      BY <2>1, <3>1
    <3> QED
      BY <2>2, <3>1, <3>2
  <2>4. ~ (T[f] = 0 \/ P[f] < T[f])
    <3> SUFFICES ASSUME T[f] = 0 \/ P[f] < T[f] PROVE FALSE
      OBVIOUS
    <3>1. PICK g \in Fees : g < f /\ T[g] = P[f]
      BY <1>2, <1>5, <2>2 DEF TakenWell
    <3>2. g = f
      BY <1>6, <2>2, <2>3, <3>1
    <3>3. g \in Nat
      BY <1>3
    <3> QED
      BY <2>2, <3>1, <3>2, <3>3
  <2>5. T[f] \in Swaps /\ logs[T[f]].key = logs[f].key /\ T[f] > f
    BY <1>2, <2>2, <2>4 DEF TakenWell
  <2>6. T[f] \in DOMAIN logs /\ Between(T[f], f, P[f])
    <3>1. T[f] \in Nat /\ T[f] \in DOMAIN logs
      BY <1>3, <2>5
    <3> QED
      BY <2>2, <2>4, <2>5, <3>1 DEF Between
  <2> QED
    BY <1>5, <2>2, <2>5, <2>6
<1>8. \A f \in Fees : T[f] = P[f] /\ P[f] # 0
  BY <1>3, <1>5, <1>7
<1> QED
  BY <1>2, <1>4, <1>8

\* Each router log is spent on one trade, logged before it.
LEMMA SpentOnce ==
  ASSUME ReceiptInv
  PROVE  RouterLogsSpentOnce
<1> SUFFICES ASSUME output.mapped, ~feeAfter, NEW s \in Swaps
             PROVE  LET spent == {f \in Fees : <<f, s>> \in output.baskets}
                    IN  /\ Cardinality(spent) <= 1
                        /\ Partner(s) # 0 => spent # {}
                        /\ \A f \in spent : f < s /\ logs[f].key = logs[s].key
  BY DEF RouterLogsSpentOnce
<1>1. logs \in Seq(Logs) /\ output.baskets = BasketTrades
  BY DEF ReceiptInv, ReceiptTypes, Mapped
<1>2. PICK T \in Takings : T = Taken /\ TakenWell(T, Len(logs))
  BY <1>1, TakenIsWell
<1>3. /\ Len(logs) \in Nat /\ DOMAIN logs = 1..Len(logs)
      /\ Fees \subseteq DOMAIN logs /\ Swaps \subseteq DOMAIN logs
      /\ \A n \in DOMAIN logs : n \in Nat /\ n # 0 /\ n <= Len(logs)
  BY <1>1, KindsOfLogs
<1>4. PICK spent : spent = {f \in Fees : <<f, s>> \in output.baskets}
  OBVIOUS
<1>5. spent = {f \in Fees : T[f] = s}
  BY <1>1, <1>2, <1>4 DEF BasketTrades
<1>6. Cardinality(spent) <= 1
  <2>1. \A f, g \in spent : f = g
    BY <1>2, <1>3, <1>5 DEF TakenWell
  <2>2. CASE spent = {}
    BY <2>2, FS_EmptySet
  <2>3. CASE spent # {}
    <3>1. PICK f : spent = {f}
      BY <2>1, <2>3
    <3>2. Cardinality({f}) = 1
      BY FS_Singleton
    <3> QED
      BY <3>1, <3>2
  <2> QED
    BY <2>2, <2>3
<1>7. \A f \in spent : f < s /\ logs[f].key = logs[s].key
  BY <1>2, <1>3, <1>5 DEF TakenWell
<1>8. ASSUME Partner(s) # 0 PROVE spent # {}
  <2>1. PICK f : f = Partner(s)
    OBVIOUS
  <2>2. f \in DOMAIN logs /\ f # s /\ logs[f].call = logs[s].call /\ s \in DOMAIN logs
    BY <1>3, <1>8, <2>1, PartnerOf
  <2>3. /\ logs[f].key = logs[s].key /\ logs[f].kind # logs[s].kind
        /\ \A i \in DOMAIN logs : Between(i, f, s) => logs[i].key # logs[f].key
        /\ logs[f].kind = "fee" => f < s
    BY <2>2, PairFacts
  <2>4. f \in Fees /\ f < s
    BY <1>1, <2>2, <2>3, KindsOfLogs DEF Kinds
  <2>5. SUFFICES ASSUME \A g \in Fees : T[g] # s PROVE FALSE
    BY <1>5
  <2>6. ~ (T[f] = 0 \/ s < T[f])
    BY <1>2, <1>3, <2>2, <2>3, <2>4, <2>5 DEF TakenWell
  <2>7. T[f] \in Swaps /\ logs[T[f]].key = logs[f].key /\ T[f] > f /\ T[f] # s
    BY <1>2, <2>4, <2>5, <2>6 DEF TakenWell
  <2>8. T[f] \in DOMAIN logs /\ Between(T[f], f, s)
    <3>1. T[f] \in Nat /\ T[f] \in DOMAIN logs /\ s \in Nat
      BY <1>3, <2>7
    <3> QED
      BY <2>6, <2>7, <3>1 DEF Between
  <2> QED
    BY <2>3, <2>7, <2>8
<1> QED
  BY <1>4, <1>6, <1>7, <1>8

(***************************************************************************)
(* matching_swap: if every fee of a key has a swap of its own, the counts  *)
(* of the key are equal exactly if every swap has a fee, and then the n-th *)
(* fee's swap is the n-th swap, because the trades of a key do not         *)
(* overlap.  If fees are alone and no swap is, the fees are more.          *)
(***************************************************************************)
AllPaired(f) == \A s \in Of("swap", logs[f].key) : Partner(s) # 0

LEMMA PartnersOfKey ==
  ASSUME ReceiptInv, NEW key \in Keys
  PROVE  /\ \A f \in Of("fee", key) : Partner(f) # 0 => Partner(f) \in Of("swap", key) /\ Partner(Partner(f)) = f
         /\ \A s \in Of("swap", key) : Partner(s) # 0 => Partner(s) \in Of("fee", key) /\ Partner(Partner(s)) = s
         /\ \A f, g \in Of("fee", key) :
               f < g /\ Partner(f) # 0 /\ Partner(g) # 0 => Partner(f) < Partner(g)
<1>1. logs \in Seq(Logs)
  BY DEF ReceiptInv, ReceiptTypes
<1>2. \A f \in Of("fee", key) : f \in DOMAIN logs /\ f \in Nat /\ logs[f].key = key /\ logs[f].kind = "fee"
  BY <1>1, KindsOfLogs
<1>3. \A s \in Of("swap", key) : s \in DOMAIN logs /\ s \in Nat /\ logs[s].key = key /\ logs[s].kind = "swap"
  BY <1>1, KindsOfLogs
<1>4. ASSUME NEW n \in DOMAIN logs, Partner(n) # 0, logs[n].key = key
      PROVE  \E m \in DOMAIN logs : /\ m = Partner(n) /\ Partner(m) = n
                                   /\ m # n /\ logs[m].call = logs[n].call
                                   /\ logs[m].key = key /\ logs[m].kind # logs[n].kind
  <2>1. PICK m : m = Partner(n)
    OBVIOUS
  <2>2. m \in DOMAIN logs /\ m # n /\ logs[m].call = logs[n].call
    BY <1>4, <2>1, PartnerOf
  <2>3. logs[n].key = logs[m].key /\ logs[n].kind # logs[m].kind /\ Partner(m) = n
    BY <1>4, <2>2, PairFacts
  <2> QED
    BY <1>4, <2>1, <2>2, <2>3
<1>5. ASSUME NEW f \in Of("fee", key), Partner(f) # 0
      PROVE  Partner(f) \in Of("swap", key) /\ Partner(Partner(f)) = f
  <2>1. PICK m \in DOMAIN logs : m = Partner(f) /\ Partner(m) = f /\ logs[m].key = key /\ logs[m].kind # "fee"
    BY <1>2, <1>4, <1>5
  <2>2. m \in Of("swap", key)
    BY <1>1, <2>1, KindsOfLogs DEF Kinds
  <2> QED
    BY <2>1, <2>2
<1>6. ASSUME NEW s \in Of("swap", key), Partner(s) # 0
      PROVE  Partner(s) \in Of("fee", key) /\ Partner(Partner(s)) = s
  <2>1. PICK m \in DOMAIN logs : m = Partner(s) /\ Partner(m) = s /\ logs[m].key = key /\ logs[m].kind # "swap"
    BY <1>3, <1>4, <1>6
  <2>2. m \in Of("fee", key)
    BY <1>1, <2>1, KindsOfLogs DEF Kinds
  <2> QED
    BY <2>1, <2>2
<1>7. ASSUME NEW f \in Of("fee", key), NEW g \in Of("fee", key), f < g, Partner(f) # 0, Partner(g) # 0
      PROVE  Partner(f) < Partner(g)
  <2>1. PICK p, q : p = Partner(f) /\ q = Partner(g)
    OBVIOUS
  <2>2. /\ p \in Of("swap", key) /\ q \in Of("swap", key)
        /\ Partner(p) = f /\ Partner(q) = g
    BY <1>5, <1>7, <2>1
  <2>3. /\ f \in DOMAIN logs /\ p \in DOMAIN logs /\ f # p /\ logs[f].call = logs[p].call
        /\ g \in DOMAIN logs /\ q \in DOMAIN logs /\ g # q /\ logs[g].call = logs[q].call
    BY <1>2, <1>7, <2>1, PartnerOf
  <2>4. /\ \A i \in DOMAIN logs : Between(i, f, p) => logs[i].key # key
        /\ \A i \in DOMAIN logs : Between(i, g, q) => logs[i].key # key
    BY <1>2, <2>3, PairFacts
  <2>5. ~Between(g, f, p) /\ ~Between(f, g, q) /\ ~Between(q, f, p) /\ ~Between(p, g, q)
    BY <1>2, <1>3, <2>2, <2>3, <2>4
  <2>6. f \in Nat /\ g \in Nat /\ p \in Nat /\ q \in Nat /\ g # p /\ f # q /\ p # q
    BY <1>2, <1>3, <1>7, <2>2, <2>3
  <2>7. p < q
    BY <1>7, <2>3, <2>5, <2>6 DEF Between
  <2> QED
    BY <2>1, <2>7
<1> QED
  BY <1>5, <1>6, <1>7

\* No fee of the key is alone.
LEMMA MatchedIffPaired ==
  ASSUME ReceiptInv, NEW f \in Fees, \A n \in Of("fee", logs[f].key) : Partner(n) # 0
  PROVE  MatchingSwap(f) = IF AllPaired(f) THEN Partner(f) ELSE 0
<1>1. logs \in Seq(Logs)
  BY DEF ReceiptInv, ReceiptTypes
<1>k. PICK key \in Keys : key = logs[f].key
  BY <1>1, KindsOfLogs
<1>2. PICK F, S : F = Of("fee", key) /\ S = Of("swap", key)
  OBVIOUS
<1>3. /\ f \in F /\ IsFiniteSet(F) /\ IsFiniteSet(S) /\ Cardinality(F) \in Nat /\ Cardinality(S) \in Nat
      /\ F \subseteq Nat /\ S \subseteq Nat /\ f \in DOMAIN logs /\ 0 \notin S \cup F
      /\ \A n \in F : logs[n].kind = "fee" /\ logs[n].key = key
      /\ \A n \in S : logs[n].kind = "swap" /\ logs[n].key = key
  <2>1. Len(logs) \in Nat /\ F \subseteq 1..Len(logs) /\ S \subseteq 1..Len(logs) /\ f \in F /\ f \in DOMAIN logs
    BY <1>1, <1>2, <1>k, KindsOfLogs
  <2>2. IsFiniteSet(1..Len(logs))
    BY <2>1, FS_Interval
  <2>3. IsFiniteSet(F) /\ IsFiniteSet(S)
    BY <2>1, <2>2, FS_Subset
  <2>4. Cardinality(F) \in Nat /\ Cardinality(S) \in Nat
    BY <2>3, FS_CardinalityType
  <2>5. F \subseteq Nat /\ S \subseteq Nat /\ 0 \notin S \cup F
    BY <2>1
  <2> QED
    BY <2>1, <2>3, <2>4, <2>5, <1>2 DEF Of
<1>4. PICK P : P = [n \in F \cup S |-> Partner(n)]
  OBVIOUS
<1>5. /\ \A n \in F : P[n] \in S /\ P[P[n]] = n
      /\ \A n \in S : P[n] # 0 => P[n] \in F /\ P[P[n]] = n
      /\ \A m, n \in F : m < n => P[m] < P[n]
  <2>1. \A n \in F : Partner(n) # 0
    BY <1>2, <1>k
  <2> QED
    BY <1>2, <1>4, <2>1, PartnersOfKey
<1>6. PICK R : R = {P[n] : n \in F}
  OBVIOUS
<1>7. R \subseteq S /\ IsFiniteSet(R) /\ Cardinality(R) = Cardinality(F)
  <2>1. \A m, n \in F : P[m] = P[n] => m = n
    BY <1>5
  <2> QED
    BY <1>3, <1>5, <1>6, <2>1, FiniteImage
<1>8. AllPaired(f) <=> R = S
  <2>1. AllPaired(f) <=> \A n \in S : P[n] # 0
    BY <1>2, <1>k, <1>4 DEF AllPaired
  <2>2. \A n \in S : P[n] # 0 => n \in R
    BY <1>5, <1>6
  <2>3. \A n \in R : P[n] # 0
    BY <1>3, <1>5, <1>6
  <2> QED
    BY <1>7, <2>1, <2>2, <2>3
<1>9. AllPaired(f) <=> Cardinality(F) = Cardinality(S)
  BY <1>3, <1>7, <1>8, FS_Subset
<1>10. CASE ~AllPaired(f)
  BY <1>2, <1>9, <1>k, <1>10 DEF MatchingSwap
<1>11. CASE AllPaired(f)
  <2>1. PICK A : A = [n \in F |-> {m \in F : m <= n}]
    OBVIOUS
  <2>2. PICK B : B = [n \in S |-> {m \in S : m <= n}]
    OBVIOUS
  <2>3. /\ \A n \in F : Place(n) = Cardinality(A[n])
        /\ \A n \in S : Place(n) = Cardinality(B[n])
    BY <1>2, <1>3, <2>1, <2>2 DEF Place
  <2>4. /\ \A n \in S : B[n] \subseteq S /\ n \in B[n]
        /\ \A m, n \in S : \/ m = n
                           \/ B[m] \subseteq B[n] /\ n \notin B[m]
                           \/ B[n] \subseteq B[m] /\ m \notin B[n]
    <3>1. \A n \in S : B[n] = {m \in S : m <= n} /\ n \in Nat
      BY <1>3, <2>2
    <3>2. ASSUME NEW m \in S, NEW n \in S, m < n PROVE B[m] \subseteq B[n] /\ n \notin B[m]
      <4>1. m \in Nat /\ n \in Nat /\ \A x \in S : x \in Nat
        BY <3>1
      <4>2. \A x \in S : x <= m => x <= n
        BY <3>2, <4>1
      <4>3. ~ (n <= m)
        BY <3>2, <4>1
      <4> QED
        BY <3>1, <4>2, <4>3
    <3>3. \A m, n \in S : m = n \/ m < n \/ n < m
      BY <3>1
    <3>4. \A n \in S : B[n] \subseteq S /\ n \in B[n]
      BY <3>1
    <3> QED
      BY <3>2, <3>3, <3>4
  <2>5. \A m, n \in S : Cardinality(B[m]) = Cardinality(B[n]) => m = n
    BY <1>3, <2>4, Ranking
  <2>6. {P[n] : n \in A[f]} = B[P[f]]
    <3>1. ASSUME NEW n \in A[f] PROVE P[n] \in B[P[f]]
      <4>1. n \in F /\ (n = f \/ n < f)
        BY <1>3, <2>1, <3>1
      <4>2. P[n] \in S /\ P[f] \in S /\ (P[n] = P[f] \/ P[n] < P[f])
        BY <1>3, <1>5, <4>1
      <4>3. P[n] \in Nat /\ P[f] \in Nat
        BY <1>3, <4>2
      <4> QED
        BY <2>2, <4>2, <4>3
    <3>2. ASSUME NEW s \in B[P[f]] PROVE \E n \in A[f] : s = P[n]
      <4>1. P[f] \in S /\ s \in S /\ s <= P[f]
        BY <1>3, <1>5, <2>2, <3>2
      <4>2. PICK n \in F : s = P[n]
        BY <1>6, <1>8, <1>11, <4>1
      <4>3. ~ (f < n)
        <5>1. P[f] \in Nat /\ s \in Nat
          BY <1>3, <4>1
        <5> QED
          BY <1>3, <1>5, <4>1, <4>2, <5>1
      <4>4. n \in A[f]
        BY <1>3, <2>1, <4>2, <4>3
      <4> QED
        BY <4>2, <4>4
    <3> QED
      BY <3>1, <3>2
  <2>7. Cardinality(B[P[f]]) = Cardinality(A[f])
    <3>1. IsFiniteSet(A[f]) /\ A[f] \subseteq F
      BY <1>3, <2>1, FS_Subset
    <3>2. \A m, n \in A[f] : P[m] = P[n] => m = n
      BY <1>5, <3>1
    <3>3. PICK U, V : U = A[f] /\ V = B[P[f]]
      OBVIOUS
    <3>4. V = {P[n] : n \in U} /\ IsFiniteSet(U) /\ \A m, n \in U : P[m] = P[n] => m = n
      BY <2>6, <3>1, <3>2, <3>3
    <3>5. Cardinality(V) = Cardinality(U)
      BY <3>4, FiniteImage
    <3> QED
      BY <3>3, <3>5
  <2>8. \A m \in S : Place(m) = Place(f) <=> m = P[f]
    <3>1. P[f] \in S /\ Place(f) = Cardinality(B[P[f]])
      BY <1>3, <1>5, <2>3, <2>7
    <3>2. \A m \in S : Place(m) = Cardinality(B[m])
      BY <2>3
    <3> QED
      BY <2>5, <3>1, <3>2
  <2>9. P[f] \in S /\ P[f] = Partner(f)
    BY <1>3, <1>4, <1>5
  <2>10. MatchingSwap(f) = CHOOSE m \in S : Place(m) = Place(f)
    BY <1>2, <1>9, <1>11, <1>k DEF MatchingSwap
  <2> QED
    BY <1>11, <2>8, <2>9, <2>10
<1> QED
  BY <1>10, <1>11

\* Fees are alone and no swap is.
LEMMA UnmatchedWithLoneFees ==
  ASSUME ReceiptInv, NEW f \in Fees, AllPaired(f), NEW g \in Of("fee", logs[f].key), Partner(g) = 0
  PROVE  MatchingSwap(f) = 0
<1>1. logs \in Seq(Logs)
  BY DEF ReceiptInv, ReceiptTypes
<1>2. PICK key \in Keys : key = logs[f].key
  BY <1>1, KindsOfLogs
<1>3. PICK F, S : F = Of("fee", key) /\ S = Of("swap", key)
  OBVIOUS
<1>4. IsFiniteSet(F) /\ IsFiniteSet(S) /\ g \in F /\ 0 \notin S /\ F \subseteq Nat
  <2>1. Len(logs) \in Nat /\ F \subseteq 1..Len(logs) /\ S \subseteq 1..Len(logs)
    BY <1>1, <1>3, KindsOfLogs
  <2>2. IsFiniteSet(1..Len(logs))
    BY <2>1, FS_Interval
  <2>3. IsFiniteSet(F) /\ IsFiniteSet(S)
    BY <2>1, <2>2, FS_Subset
  <2> QED
    BY <1>2, <1>3, <2>1, <2>3
<1>5. PICK P : P = [n \in S |-> Partner(n)]
  OBVIOUS
<1>6. \A n \in S : P[n] \in F /\ Partner(P[n]) = n
  <2>1. \A n \in S : Partner(n) # 0
    BY <1>2, <1>3 DEF AllPaired
  <2> QED
    BY <1>3, <1>5, <2>1, PartnersOfKey
<1>7. PICK R : R = {P[n] : n \in S}
  OBVIOUS
<1>8. R \subseteq F /\ IsFiniteSet(R) /\ Cardinality(R) = Cardinality(S)
  <2>1. \A m, n \in S : P[m] = P[n] => m = n
    BY <1>6
  <2> QED
    BY <1>4, <1>6, <1>7, <2>1, FiniteImage
<1>9. R # F
  BY <1>4, <1>6, <1>7
<1>10. Cardinality(F) # Cardinality(S)
  BY <1>4, <1>8, <1>9, FS_Subset
<1> QED
  BY <1>2, <1>3, <1>10 DEF MatchingSwap

LEMMA MatchTruly ==
  ASSUME ReceiptInv
  PROVE  MatchesTruly
<1> DEFINE clear == {f \in Fees : Lonely(logs[f].key) = {}}
           told == {f \in Fees : Lonely(logs[f].key) # Kinds}
<1> SUFFICES ASSUME output.mapped
             PROVE  /\ "fee" \notin alone /\ ~feeAfter =>
                          /\ output.swaps = {<<f, Partner(f)>> : f \in Fees}
                          /\ output.baskets = output.swaps
                    /\ {t \in output.v14 : t[1] \in told} = {<<f, Partner(f)>> : f \in clear}
  BY DEF MatchesTruly
<1>1. /\ Complete /\ output.swaps = SwapTrades /\ output.baskets = BasketTrades
      /\ output.v14 = V14Trades
  BY DEF ReceiptInv, Mapped
<1>2. ASSUME "fee" \notin alone, ~feeAfter
      PROVE  output.swaps = {<<f, Partner(f)>> : f \in Fees} /\ output.baskets = output.swaps
  <2>1. \A f \in Fees : Taken[f] = Partner(f) /\ Taken[f] # 0
    BY <1>1, <1>2, TakenIsPartner
  <2> QED
    BY <1>1, <2>1 DEF SwapTrades, BasketTrades
<1>3. ASSUME NEW f \in told
      PROVE  IF f \in clear THEN MatchingSwap(f) = Partner(f) /\ Partner(f) # 0
                            ELSE MatchingSwap(f) = 0
  <2>1. PICK key : key = logs[f].key
    OBVIOUS
  <2>2. f \in Fees /\ f \in Of("fee", key)
    BY <2>1, KindsOfLogs DEF ReceiptInv, ReceiptTypes
  <2>3. /\ "fee" \in Lonely(key) <=> \E n \in Of("fee", key) : Partner(n) = 0
        /\ "swap" \in Lonely(key) <=> \E n \in Of("swap", key) : Partner(n) = 0
        /\ Lonely(key) \subseteq {"fee", "swap"}
    BY DEF Lonely, Kinds
  <2>4. CASE "fee" \notin Lonely(key)
    <3>1. \A n \in Of("fee", key) : Partner(n) # 0
      BY <2>3, <2>4
    <3>2. MatchingSwap(f) = IF AllPaired(f) THEN Partner(f) ELSE 0
      BY <2>1, <2>2, <3>1, MatchedIffPaired
    <3>3. f \in clear <=> AllPaired(f)
      BY <2>1, <2>2, <2>3, <2>4 DEF AllPaired
    <3> QED
      BY <2>2, <3>1, <3>2, <3>3
  <2>5. CASE "fee" \in Lonely(key)
    <3>1. PICK g \in Of("fee", key) : Partner(g) = 0
      BY <2>3, <2>5
    <3>2. "swap" \notin Lonely(key)
      BY <2>1, <2>3, <2>5 DEF Kinds
    <3>3. AllPaired(f)
      BY <2>1, <2>3, <3>2 DEF AllPaired
    <3>4. MatchingSwap(f) = 0
      BY <2>1, <2>2, <3>1, <3>3, UnmatchedWithLoneFees
    <3>5. f \notin clear
      BY <2>1, <2>5
    <3> QED
      BY <3>4, <3>5
  <2> QED
    BY <2>4, <2>5
<1>4. clear \subseteq told
  BY DEF Kinds
<1>5. {t \in output.v14 : t[1] \in told} = {<<f, Partner(f)>> : f \in clear}
  <2> HIDE DEF clear, told
  <2>1. output.v14 = {<<f, MatchingSwap(f)>> : f \in {g \in Fees : MatchingSwap(g) # 0}}
    BY <1>1 DEF V14Trades
  <2>2. ASSUME NEW t \in output.v14, t[1] \in told
        PROVE  t \in {<<f, Partner(f)>> : f \in clear}
    <3>1. PICK f \in Fees : MatchingSwap(f) # 0 /\ t = <<f, MatchingSwap(f)>>
      BY <2>1
    <3>2. f \in told
      BY <2>2, <3>1
    <3> QED
      BY <1>3, <3>1, <3>2
  <2>3. ASSUME NEW f \in clear
        PROVE  <<f, Partner(f)>> \in {t \in output.v14 : t[1] \in told}
    <3>1. f \in told /\ f \in Fees
      BY <1>4 DEF clear
    <3>2. MatchingSwap(f) = Partner(f) /\ MatchingSwap(f) # 0
      BY <1>3, <3>1
    <3> QED
      BY <2>1, <3>1, <3>2
  <2> QED
    BY <2>2, <2>3
<1> QED
  BY <1>2, <1>5

-----------------------------------------------------------------------------
(***************************************************************************)
(* The Basket domain.  The inductive invariant says of a block that is     *)
(* under way that the rows and what the open block holds for them make     *)
(* what the contracts have.                                                *)
(***************************************************************************)
BasketKinds == {"BasketRegistered", "buys", "sells", "hook", "executor"}
Statuses == {"NONE", "ACTIVE", "SETTLED"}

BlockLogs ==
    [kind : BasketKinds, basket : Baskets] \cup [kind : {"token"}, basket : Baskets \cup {Stranger}]
    \cup [kind : {"AUCTION_CREATED", "BID_PLACED", "AUCTION_SETTLED"}, bid : Nat,
          bidder : Bidders \cup {NoBidder}]
    \cup [kind : Domain!Moves]

AuctionRows ==
    [status : Statuses, bid : Nat, bidder : Bidders \cup {NoBidder},
     bids : SUBSET [bidder : Bidders \cup {NoBidder}, total : Nat, is_initial : BOOLEAN],
     moves : Nat]

\* The open block's logs of a kind and a basket, and its registrations.
At(k, b) == {i \in DOMAIN blockLogs : blockLogs[i].kind = k /\ blockLogs[i].basket = b}
Held(k, b) == Cardinality(At(k, b))
Registers(b) == At("BasketRegistered", b) # {}

Created(b) == rows.baskets[b].created

DomainTypes ==
    /\ streams \in MCAssemblies
    /\ blockLogs \in Seq(BlockLogs)
    /\ launched \subseteq Baskets /\ registered \subseteq launched
    /\ traded \in [Baskets -> [buys : Nat, sells : Nat]]
    /\ emitted \in [Baskets \cup {Stranger} -> [Domain!Origins -> Nat]]
    /\ auction \in AuctionRows
    /\ stores \in [streams -> SUBSET Baskets]
    /\ rows.baskets \in [Baskets -> [created : BOOLEAN, buys : Nat, sells : Nat]]
    /\ rows.events \in [Baskets \cup {Stranger} -> [Domain!Origins -> Nat]]
    /\ rows.auction \in AuctionRows

LaunchFits ==
    /\ blockLogs = <<>> => launched = registered
    /\ \A b \in Baskets : b \in registered <=> Created(b) \/ Registers(b)
    /\ \A s \in streams : s.tokens => stores[s] = {b \in Baskets : Created(b)}
    /\ \A b \in Baskets : traded[b] # Domain!NoTrades => b \in launched
    /\ \A i \in DOMAIN blockLogs :
          blockLogs[i].kind \in Domain!Origins /\ blockLogs[i].basket \in Baskets
              => blockLogs[i].basket \in launched

TradesPending ==
    \A b \in Baskets :
        /\ traded[b].buys = rows.baskets[b].buys + Held("buys", b)
        /\ traded[b].sells = rows.baskets[b].sells + Held("sells", b)

EventsPending ==
    \A o \in Domain!Origins :
        /\ \A b \in Baskets : emitted[b][o] = rows.events[b][o] + Held(o, b)
        /\ emitted[Stranger][o] = 0 /\ rows.events[Stranger][o] = 0

Settled(a) ==
    IF a.status = "SETTLED" THEN {[winner |-> a.bidder, burned |-> a.bid]} ELSE {}

AuctionPending ==
    /\ auction = Domain!AuctionAfter(rows.auction)
    /\ auction.status = "NONE" => auction.bids = {}
    /\ rows.results \cup Domain!Results = Settled(auction)

DomainInv == DomainTypes /\ LaunchFits /\ TradesPending /\ EventsPending /\ AuctionPending

-----------------------------------------------------------------------------
\* The auction's row after one log, and after each log of a sequence.
AuctionStep(row, log) == IF log.kind \in Domain!AuctionKinds THEN Domain!AuctionRow(row, log) ELSE row

AuctionRun(g, q, row) ==
    /\ g \in [0..Len(q) -> AuctionRows]
    /\ g[0] = row
    /\ \A n \in 1..Len(q) : g[n] = AuctionStep(g[n - 1], q[n])

LEMMA AuctionStepType ==
  ASSUME NEW row \in AuctionRows, NEW log \in BlockLogs
  PROVE  AuctionStep(row, log) \in AuctionRows
<1>1. CASE log \in [kind : Domain!Moves]
  <2>1. AuctionStep(row, log) = [row EXCEPT !.moves = row.moves + 1]
    BY <1>1 DEF AuctionStep, Domain!AuctionKinds, Domain!Moves, Domain!AuctionRow
  <2> QED
    BY <2>1 DEF AuctionRows
<1>2. CASE log \in [kind : {"AUCTION_CREATED", "BID_PLACED", "AUCTION_SETTLED"}, bid : Nat,
                    bidder : Bidders \cup {NoBidder}]
  <2>1. AuctionStep(row, log) = [row EXCEPT !.status = Domain!StatusAfter(row.status, log), !.bid = log.bid,
                     !.bidder = log.bidder, !.bids = row.bids \cup Domain!BidRows(log)]
    BY <1>2 DEF AuctionStep, Domain!AuctionKinds, Domain!Moves, Domain!AuctionRow
  <2>2. Domain!StatusAfter(row.status, log) \in Statuses
    <3>1. CASE log.kind = "AUCTION_CREATED"
      BY <3>1 DEF Domain!StatusAfter, Statuses
    <3>2. CASE log.kind = "AUCTION_SETTLED"
      BY <3>2 DEF Domain!StatusAfter, Statuses
    <3>3. CASE log.kind = "BID_PLACED"
      BY <3>3 DEF Domain!StatusAfter, AuctionRows
    <3> QED
      BY <1>2, <3>1, <3>2, <3>3
  <2>3. Domain!BidRows(log) \subseteq [bidder : Bidders \cup {NoBidder}, total : Nat, is_initial : BOOLEAN]
    <3>1. CASE log.kind = "AUCTION_SETTLED"
      BY <3>1 DEF Domain!BidRows
    <3>2. CASE log.kind # "AUCTION_SETTLED"
      <4>1. PICK first \in BOOLEAN : first = (log.kind = "AUCTION_CREATED")
        OBVIOUS
      <4>2. Domain!BidRows(log) = {[bidder |-> log.bidder, total |-> log.bid, is_initial |-> first]}
        BY <3>2, <4>1 DEF Domain!BidRows, Domain!Bid
      <4> QED
        BY <1>2, <4>2
    <3> QED
      BY <3>1, <3>2
  <2> QED
    BY <1>2, <2>1, <2>2, <2>3 DEF AuctionRows
<1>3. CASE log.kind \notin Domain!AuctionKinds
  BY <1>3 DEF AuctionStep
<1> QED
  BY <1>1, <1>2, <1>3 DEF BlockLogs, BasketKinds, Domain!AuctionKinds, Domain!Moves

LEMMA RunExists ==
  ASSUME NEW q \in Seq(BlockLogs), NEW row \in AuctionRows
  PROVE  \E g : AuctionRun(g, q, row)
<1>1. PICK L \in Nat : L = Len(q)
  OBVIOUS
<1>2. PICK step : step = [x \in (1..L) \X AuctionRows |-> AuctionStep(x[2], q[x[1]])]
  OBVIOUS
<1>3. \A n \in 1..L, v \in AuctionRows : step[<<n, v>>] = AuctionStep(v, q[n])
  BY <1>2
<1>4. ASSUME NEW n \in 1..L, NEW v \in AuctionRows PROVE step[<<n, v>>] \in AuctionRows
  <2>1. q[n] \in BlockLogs
    BY <1>1
  <2> QED
    BY <1>3, <2>1, AuctionStepType
<1>5. PICK g \in [0..L -> AuctionRows] : StepsFrom(g, row, step, L)
  BY <1>4, StepsExist
<1>6. \A n \in 1..L : n - 1 \in 0..L
  OBVIOUS
<1>7. g[0] = row /\ \A n \in 1..L : g[n] = AuctionStep(g[n - 1], q[n])
  BY <1>3, <1>5, <1>6 DEF StepsFrom
<1> QED
  BY <1>1, <1>7 DEF AuctionRun

\* A sequence and a continuation of it have the same rows on the way.
LEMMA RunsAgree ==
  ASSUME NEW q, Len(q) \in Nat, NEW r, Len(r) \in Nat, Len(q) <= Len(r),
         \A n \in 1..Len(q) : r[n] = q[n],
         NEW row, NEW g, NEW h, AuctionRun(g, q, row), AuctionRun(h, r, row)
  PROVE  \A n \in 0..Len(q) : g[n] = h[n]
<1> DEFINE Differ == {n \in 0..Len(q) : g[n] # h[n]}
<1> SUFFICES ASSUME Differ # {} PROVE FALSE
  OBVIOUS
<1>1. PICK n \in Differ : \A k \in Differ : n <= k
  <2>1. Differ \subseteq Nat
    OBVIOUS
  <2> HIDE DEF Differ
  <2> QED
    BY <2>1, LeastNumber
<1>2. n # 0
  BY <1>1 DEF AuctionRun
<1>3. n \in 1..Len(q) /\ n \in 1..Len(r) /\ n - 1 \in 0..Len(q) /\ n - 1 \notin Differ
  BY <1>1, <1>2
<1>4. g[n] = AuctionStep(g[n - 1], q[n]) /\ h[n] = AuctionStep(h[n - 1], r[n])
  BY <1>3 DEF AuctionRun
<1> QED
  BY <1>1, <1>3, <1>4

LEMMA AuctionAfterRun ==
  ASSUME blockLogs \in Seq(BlockLogs), NEW row \in AuctionRows
  PROVE  \E g : AuctionRun(g, blockLogs, row) /\ Domain!AuctionAfter(row) = g[Len(blockLogs)]
<1> DEFINE Solves(g) == g = [n \in 0..Len(blockLogs) |->
                               IF n = 0 THEN row
                               ELSE IF blockLogs[n].kind \in Domain!AuctionKinds
                                    THEN Domain!AuctionRow(g[n - 1], blockLogs[n]) ELSE g[n - 1]]
<1>1. PICK L \in Nat : L = Len(blockLogs)
  OBVIOUS
<1>2. PICK g : AuctionRun(g, blockLogs, row)
  BY RunExists
<1>3. /\ g \in [0..L -> AuctionRows] /\ g[0] = row
      /\ \A n \in 1..L : g[n] = AuctionStep(g[n - 1], blockLogs[n])
  BY <1>1, <1>2 DEF AuctionRun
<1>4. \A n \in 0..L : n = 0 \/ n \in 1..L
  OBVIOUS
<1>5. Solves(g)
  <2>1. \A n \in 0..L : g[n] = IF n = 0 THEN row
                               ELSE IF blockLogs[n].kind \in Domain!AuctionKinds
                                    THEN Domain!AuctionRow(g[n - 1], blockLogs[n]) ELSE g[n - 1]
    BY <1>3, <1>4 DEF AuctionStep
  <2>2. g = [n \in 0..L |-> g[n]]
    BY <1>3
  <2> QED
    BY <1>1, <2>1, <2>2
<1>6. ASSUME NEW h, Solves(h) PROVE h = g
  <2>1. \A n \in 0..L : h[n] = IF n = 0 THEN row
                               ELSE IF blockLogs[n].kind \in Domain!AuctionKinds
                                    THEN Domain!AuctionRow(h[n - 1], blockLogs[n]) ELSE h[n - 1]
    BY <1>1, <1>6
  <2>2. h = [n \in 0..L |-> h[n]]
    BY <1>1, <1>6
  <2>3. \A n \in 1..L : n \in 0..L /\ n # 0 /\ n - 1 \in 0..L
    OBVIOUS
  <2> DEFINE Differ == {n \in 0..L : h[n] # g[n]}
  <2>4. Differ = {}
    <3> SUFFICES ASSUME Differ # {} PROVE FALSE
      OBVIOUS
    <3>1. PICK n \in Differ : \A k \in Differ : n <= k
      <4>1. Differ \subseteq Nat
        OBVIOUS
      <4> HIDE DEF Differ
      <4> QED
        BY <4>1, LeastNumber
    <3>2. n # 0
      BY <1>3, <2>1, <3>1
    <3>3. n \in 1..L /\ n - 1 \in 0..L /\ n - 1 \notin Differ
      BY <3>1, <3>2
    <3>4. g[n] = AuctionStep(g[n - 1], blockLogs[n]) /\ h[n - 1] = g[n - 1]
      BY <1>3, <3>3
    <3>5. h[n] = AuctionStep(h[n - 1], blockLogs[n])
      BY <2>1, <2>3, <3>3 DEF AuctionStep
    <3> QED
      BY <3>1, <3>4, <3>5
  <2> QED
    BY <1>3, <2>2, <2>4
<1>7. Domain!AuctionAfter(row) = g[L]
  <2>1. PICK f : f = CHOOSE h : Solves(h)
    OBVIOUS
  <2>2. Domain!AuctionAfter(row) = f[Len(blockLogs)]
    BY <2>1 DEF Domain!AuctionAfter
  <2> HIDE DEF Solves
  <2>3. f = g
    BY <1>5, <1>6, <2>1
  <2> QED
    BY <1>1, <2>2, <2>3
<1> QED
  BY <1>1, <1>2, <1>7

AuctionRuns ==
  blockLogs \in Seq(BlockLogs) =>
      \A v \in AuctionRows :
          \E h : AuctionRun(h, blockLogs, v) /\ Domain!AuctionAfter(v) = h[Len(blockLogs)]

LEMMA AuctionRunsAre == AuctionRuns
BY AuctionAfterRun DEF AuctionRuns

LEMMA AuctionAfterLog ==
  ASSUME blockLogs \in Seq(BlockLogs), NEW e \in BlockLogs, blockLogs' = Append(blockLogs, e),
         NEW row \in AuctionRows
  PROVE  (Domain!AuctionAfter(row))' = AuctionStep(Domain!AuctionAfter(row), e)
<1>1. PICK q, r : q = blockLogs /\ r = blockLogs'
  OBVIOUS
<1>2. /\ q \in Seq(BlockLogs) /\ r \in Seq(BlockLogs) /\ Len(q) \in Nat /\ Len(r) = Len(q) + 1
      /\ r[Len(q) + 1] = e /\ \A n \in 1..Len(q) : r[n] = q[n]
  BY <1>1
<1>3. PICK g : AuctionRun(g, q, row) /\ Domain!AuctionAfter(row) = g[Len(q)]
  BY <1>1, AuctionAfterRun
<1>4. \E h : AuctionRun(h, blockLogs', row) /\ (Domain!AuctionAfter(row))' = h[Len(blockLogs')]
  <2>1. AuctionRuns'
    BY AuctionRunsAre, PTL
  <2> QED
    BY <1>1, <1>2, <2>1 DEF AuctionRuns
<1>5. PICK h : AuctionRun(h, r, row) /\ (Domain!AuctionAfter(row))' = h[Len(r)]
  BY <1>1, <1>4
<1>6. \A n \in 0..Len(q) : g[n] = h[n]
  BY <1>2, <1>3, <1>5, RunsAgree
<1>7. /\ h[Len(r)] = AuctionStep(h[Len(r) - 1], r[Len(r)])
      /\ Len(r) - 1 = Len(q) /\ Len(q) \in 0..Len(q)
  <2>1. Len(r) \in 1..Len(r) /\ Len(r) - 1 = Len(q) /\ Len(q) \in 0..Len(q)
    BY <1>2
  <2>2. \A n \in 1..Len(r) : h[n] = AuctionStep(h[n - 1], r[n])
    BY <1>5 DEF AuctionRun
  <2> QED
    BY <2>1, <2>2
<1> QED
  BY <1>2, <1>3, <1>5, <1>6, <1>7

\* What the open block holds, with one log more.
LEMMA AtAfter ==
  ASSUME blockLogs \in Seq(BlockLogs), NEW e \in BlockLogs, blockLogs' = Append(blockLogs, e),
         NEW k, NEW b
  PROVE  At(k, b)' = At(k, b) \cup (IF e.kind = k /\ e.basket = b THEN {Len(blockLogs) + 1} ELSE {})
<1>1. PICK q, r : q = blockLogs /\ r = blockLogs'
  OBVIOUS
<1>2. /\ DOMAIN q = 1..Len(q) /\ DOMAIN r = (1..Len(q)) \cup {Len(q) + 1} /\ Len(q) \in Nat
      /\ r[Len(q) + 1] = e /\ \A n \in 1..Len(q) : r[n] = q[n]
  BY <1>1
<1>3. At(k, b) = {i \in 1..Len(q) : q[i].kind = k /\ q[i].basket = b}
  BY <1>1, <1>2 DEF At
<1>4. At(k, b)' = {i \in (1..Len(q)) \cup {Len(q) + 1} : r[i].kind = k /\ r[i].basket = b}
  BY <1>1, <1>2 DEF At
<1>5. At(k, b)' = {i \in 1..Len(q) : q[i].kind = k /\ q[i].basket = b}
                    \cup {i \in {Len(q) + 1} : e.kind = k /\ e.basket = b}
  BY <1>2, <1>4
<1> QED
  BY <1>1, <1>3, <1>5

LEMMA HeldFinite ==
  ASSUME blockLogs \in Seq(BlockLogs), NEW k, NEW b
  PROVE  IsFiniteSet(At(k, b)) /\ At(k, b) \subseteq 1..Len(blockLogs) /\ Held(k, b) \in Nat
<1>1. Len(blockLogs) \in Nat /\ At(k, b) \subseteq 1..Len(blockLogs)
  BY DEF At
<1>2. IsFiniteSet(1..Len(blockLogs))
  BY <1>1, FS_Interval
<1>3. IsFiniteSet(At(k, b))
  BY <1>1, <1>2, FS_Subset
<1> QED
  BY <1>1, <1>3, FS_CardinalityType DEF Held

LEMMA HeldAfter ==
  ASSUME blockLogs \in Seq(BlockLogs), NEW e \in BlockLogs, blockLogs' = Append(blockLogs, e),
         NEW k, NEW b
  PROVE  /\ e.kind = k /\ e.basket = b => Held(k, b)' = Held(k, b) + 1
         /\ ~(e.kind = k /\ e.basket = b) => Held(k, b)' = Held(k, b)
<1>1. IsFiniteSet(At(k, b)) /\ At(k, b) \subseteq 1..Len(blockLogs) /\ Len(blockLogs) \in Nat
  BY HeldFinite
<1>2. ASSUME e.kind = k, e.basket = b PROVE Held(k, b)' = Held(k, b) + 1
  <2>1. At(k, b)' = At(k, b) \cup {Len(blockLogs) + 1}
    BY <1>2, AtAfter
  <2>2. Len(blockLogs) + 1 \notin At(k, b)
    BY <1>1
  <2>3. Cardinality(At(k, b) \cup {Len(blockLogs) + 1}) = Cardinality(At(k, b)) + 1
    BY <1>1, <2>2, FS_AddElement
  <2> QED
    BY <2>1, <2>3 DEF Held
<1>3. ASSUME ~(e.kind = k /\ e.basket = b) PROVE Held(k, b)' = Held(k, b)
  <2>1. At(k, b)' = At(k, b) \cup {}
    <3>1. At(k, b)' = At(k, b) \cup (IF e.kind = k /\ e.basket = b THEN {Len(blockLogs) + 1} ELSE {})
      BY AtAfter
    <3> QED
      BY <1>3, <3>1
  <2> QED
    BY <2>1 DEF Held
<1> QED
  BY <1>2, <1>3

LEMMA RegistersAfter ==
  ASSUME blockLogs \in Seq(BlockLogs), NEW e \in BlockLogs, blockLogs' = Append(blockLogs, e),
         NEW b
  PROVE  Registers(b)' <=> Registers(b) \/ (e.kind = "BasketRegistered" /\ e.basket = b)
<1>1. At("BasketRegistered", b)' = At("BasketRegistered", b) \cup
          (IF e.kind = "BasketRegistered" /\ e.basket = b THEN {Len(blockLogs) + 1} ELSE {})
  BY AtAfter
<1> QED
  BY <1>1 DEF Registers

LEMMA ResultsAfter ==
  ASSUME blockLogs \in Seq(BlockLogs), NEW e \in BlockLogs, blockLogs' = Append(blockLogs, e)
  PROVE  Domain!Results' = Domain!Results \cup (IF e.kind = "AUCTION_SETTLED"
                                                THEN {[winner |-> e.bidder, burned |-> e.bid]} ELSE {})
<1>1. PICK q, r : q = blockLogs /\ r = blockLogs'
  OBVIOUS
<1>2. /\ DOMAIN q = 1..Len(q) /\ DOMAIN r = (1..Len(q)) \cup {Len(q) + 1} /\ Len(q) \in Nat
      /\ r[Len(q) + 1] = e /\ \A n \in 1..Len(q) : r[n] = q[n]
  BY <1>1
<1>3. Domain!Results = {[winner |-> q[i].bidder, burned |-> q[i].bid] :
                           i \in {j \in 1..Len(q) : q[j].kind = "AUCTION_SETTLED"}}
  BY <1>1, <1>2 DEF Domain!Results, Domain!OfKind
<1>4. Domain!Results' = {[winner |-> r[i].bidder, burned |-> r[i].bid] :
                           i \in {j \in (1..Len(q)) \cup {Len(q) + 1} : r[j].kind = "AUCTION_SETTLED"}}
  BY <1>1, <1>2 DEF Domain!Results, Domain!OfKind
<1>5. {j \in (1..Len(q)) \cup {Len(q) + 1} : r[j].kind = "AUCTION_SETTLED"}
        = {j \in 1..Len(q) : q[j].kind = "AUCTION_SETTLED"}
            \cup (IF e.kind = "AUCTION_SETTLED" THEN {Len(q) + 1} ELSE {})
  BY <1>2
<1>6. Domain!Results' = {[winner |-> r[i].bidder, burned |-> r[i].bid] :
                           i \in {j \in 1..Len(q) : q[j].kind = "AUCTION_SETTLED"}}
                         \cup {[winner |-> r[i].bidder, burned |-> r[i].bid] :
                                 i \in (IF e.kind = "AUCTION_SETTLED" THEN {Len(q) + 1} ELSE {})}
  BY <1>4, <1>5
<1> QED
  BY <1>2, <1>3, <1>6

\* A log of the baskets leaves the auction's rows, one of the auction what
\* the block holds of the baskets.
LEMMA AuctionKept ==
  ASSUME DomainTypes, AuctionPending, NEW e \in BlockLogs, blockLogs' = Append(blockLogs, e),
         e.kind \notin Domain!AuctionKinds, auction' = auction, rows' = rows
  PROVE  AuctionPending'
<1>1. blockLogs \in Seq(BlockLogs) /\ rows.auction \in AuctionRows
  BY DEF DomainTypes
<1>2. (Domain!AuctionAfter(rows.auction))' = Domain!AuctionAfter(rows.auction)
  <2>1. PICK row \in AuctionRows : row = rows.auction
    BY <1>1
  <2>2. (Domain!AuctionAfter(row))' = Domain!AuctionAfter(row)
    BY <1>1, AuctionAfterLog DEF AuctionStep
  <2>3. (Domain!AuctionAfter(rows.auction))' = (Domain!AuctionAfter(row))'
    BY <2>1 DEF Domain!AuctionAfter, Domain!AuctionRow, Domain!StatusAfter, Domain!BidRows
  <2> QED
    BY <2>1, <2>2, <2>3
<1>3. Domain!Results' = Domain!Results
  BY <1>1, ResultsAfter DEF Domain!AuctionKinds
<1> QED
  BY <1>2, <1>3 DEF AuctionPending

\* A log is emitted: what the contracts have and what the block holds grow
\* together.
LEMMA Emitted ==
  ASSUME DomainTypes, NEW e \in BlockLogs, Domain!Emit(e)
  PROVE  /\ blockLogs' = Append(blockLogs, e) /\ blockLogs' \in Seq(BlockLogs) /\ blockLogs' # <<>>
         /\ streams' = streams /\ stores' = stores /\ rows' = rows
<1>1. blockLogs \in Seq(BlockLogs) /\ blockLogs' = Append(blockLogs, e)
  BY DEF DomainTypes, Domain!Emit
<1>2. blockLogs' \in Seq(BlockLogs) /\ blockLogs' # <<>>
  BY <1>1
<1> QED
  BY <1>1, <1>2 DEF Domain!Emit

LEMMA LaunchAfter ==
  ASSUME DomainTypes, LaunchFits, NEW e \in BlockLogs, Domain!Emit(e),
         launched \subseteq launched',
         e.kind \in Domain!Origins /\ e.basket \in Baskets => e.basket \in launched',
         registered' = registered \cup {b \in Baskets : e.kind = "BasketRegistered" /\ e.basket = b},
         \A b \in Baskets : traded'[b] # Domain!NoTrades => b \in launched'
  PROVE  LaunchFits'
<1>1. /\ blockLogs' = Append(blockLogs, e) /\ blockLogs \in Seq(BlockLogs) /\ blockLogs' # <<>>
      /\ streams' = streams /\ stores' = stores /\ rows' = rows
  BY Emitted DEF DomainTypes
<1>2. \A b \in Baskets : b \in registered' <=> Created(b)' \/ Registers(b)'
  <2> TAKE b \in Baskets
  <2>1. Registers(b)' <=> Registers(b) \/ (e.kind = "BasketRegistered" /\ e.basket = b)
    BY <1>1, RegistersAfter
  <2>2. Created(b)' = Created(b)
    BY <1>1 DEF Created
  <2>3. b \in registered <=> Created(b) \/ Registers(b)
    BY DEF LaunchFits
  <2> QED
    BY <2>1, <2>2, <2>3
<1>3. \A s \in streams' : s.tokens => stores'[s] = {b \in Baskets : Created(b)'}
  BY <1>1 DEF LaunchFits, Created
<1>4. ASSUME NEW i \in DOMAIN blockLogs', blockLogs'[i].kind \in Domain!Origins,
             blockLogs'[i].basket \in Baskets
      PROVE  blockLogs'[i].basket \in launched'
  <2>1. CASE i \in DOMAIN blockLogs
    BY <1>1, <1>4, <2>1 DEF LaunchFits
  <2>2. CASE i \notin DOMAIN blockLogs
    <3>1. blockLogs'[i] = e
      BY <1>1, <2>2
    <3> QED
      BY <1>4, <3>1
  <2> QED
    BY <2>1, <2>2
<1> QED
  BY <1>1, <1>2, <1>3, <1>4 DEF LaunchFits

LEMMA TradesAfter ==
  ASSUME DomainTypes, TradesPending, NEW e \in BlockLogs, Domain!Emit(e),
         \A b \in Baskets :
             /\ traded'[b].buys = IF e.kind = "buys" /\ e.basket = b
                                  THEN traded[b].buys + 1 ELSE traded[b].buys
             /\ traded'[b].sells = IF e.kind = "sells" /\ e.basket = b
                                   THEN traded[b].sells + 1 ELSE traded[b].sells
  PROVE  TradesPending'
<1>1. blockLogs' = Append(blockLogs, e) /\ blockLogs \in Seq(BlockLogs) /\ rows' = rows
  BY Emitted DEF DomainTypes
<1>2. ASSUME NEW b \in Baskets
      PROVE  /\ traded'[b].buys = rows'.baskets[b].buys + Held("buys", b)'
             /\ traded'[b].sells = rows'.baskets[b].sells + Held("sells", b)'
  <2>1. Held("buys", b) \in Nat /\ Held("sells", b) \in Nat
    BY <1>1, HeldFinite
  <2>2. rows.baskets[b].buys \in Nat /\ rows.baskets[b].sells \in Nat
    BY DEF DomainTypes
  <2>3. Held("buys", b)' = IF e.kind = "buys" /\ e.basket = b THEN Held("buys", b) + 1 ELSE Held("buys", b)
    BY <1>1, HeldAfter
  <2>4. Held("sells", b)' = IF e.kind = "sells" /\ e.basket = b THEN Held("sells", b) + 1 ELSE Held("sells", b)
    BY <1>1, HeldAfter
  <2>5. traded[b].buys = rows.baskets[b].buys + Held("buys", b)
        /\ traded[b].sells = rows.baskets[b].sells + Held("sells", b)
    BY DEF TradesPending
  <2>6. traded'[b].buys = rows'.baskets[b].buys + Held("buys", b)'
    <3>1. traded'[b].buys = IF e.kind = "buys" /\ e.basket = b THEN traded[b].buys + 1 ELSE traded[b].buys
      OBVIOUS
    <3> QED
      <4>1. rows'.baskets[b].buys = rows.baskets[b].buys /\ traded[b].buys = rows.baskets[b].buys + Held("buys", b)
        BY <1>1, <2>5
      <4>2. CASE e.kind = "buys" /\ e.basket = b
        <5>1. traded'[b].buys = traded[b].buys + 1 /\ Held("buys", b)' = Held("buys", b) + 1
          BY <2>3, <2>4, <3>1, <4>2
        <5> QED
          BY <2>1, <2>2, <4>1, <5>1
      <4>3. CASE ~(e.kind = "buys" /\ e.basket = b)
        <5>1. traded'[b].buys = traded[b].buys /\ Held("buys", b)' = Held("buys", b)
          BY <2>3, <2>4, <3>1, <4>3
        <5> QED
          BY <4>1, <5>1
      <4> QED
        BY <4>2, <4>3
  <2>7. traded'[b].sells = rows'.baskets[b].sells + Held("sells", b)'
    <3>1. traded'[b].sells = IF e.kind = "sells" /\ e.basket = b THEN traded[b].sells + 1 ELSE traded[b].sells
      OBVIOUS
    <3> QED
      <4>1. rows'.baskets[b].sells = rows.baskets[b].sells /\ traded[b].sells = rows.baskets[b].sells + Held("sells", b)
        BY <1>1, <2>5
      <4>2. CASE e.kind = "sells" /\ e.basket = b
        <5>1. traded'[b].sells = traded[b].sells + 1 /\ Held("sells", b)' = Held("sells", b) + 1
          BY <2>3, <2>4, <3>1, <4>2
        <5> QED
          BY <2>1, <2>2, <4>1, <5>1
      <4>3. CASE ~(e.kind = "sells" /\ e.basket = b)
        <5>1. traded'[b].sells = traded[b].sells /\ Held("sells", b)' = Held("sells", b)
          BY <2>3, <2>4, <3>1, <4>3
        <5> QED
          BY <4>1, <5>1
      <4> QED
        BY <4>2, <4>3
  <2> QED
    BY <2>6, <2>7
<1> QED
  BY <1>2 DEF TradesPending

LEMMA EventsAfter ==
  ASSUME DomainTypes, EventsPending, NEW e \in BlockLogs, Domain!Emit(e),
         \A b \in Baskets, o \in Domain!Origins :
             emitted'[b][o] = IF e.kind = o /\ e.basket = b THEN emitted[b][o] + 1 ELSE emitted[b][o],
         emitted'[Stranger] = emitted[Stranger]
  PROVE  EventsPending'
<1>1. blockLogs' = Append(blockLogs, e) /\ blockLogs \in Seq(BlockLogs) /\ rows' = rows
  BY Emitted DEF DomainTypes
<1>2. ASSUME NEW b \in Baskets, NEW o \in Domain!Origins
      PROVE  emitted'[b][o] = rows'.events[b][o] + Held(o, b)'
  <2>1. Held(o, b) \in Nat
    BY <1>1, HeldFinite
  <2>2. rows.events[b][o] \in Nat
    BY DEF DomainTypes
  <2>3. Held(o, b)' = IF e.kind = o /\ e.basket = b THEN Held(o, b) + 1 ELSE Held(o, b)
    BY <1>1, HeldAfter
  <2>4. emitted[b][o] = rows.events[b][o] + Held(o, b)
    BY DEF EventsPending
  <2> QED
    BY <1>1, <2>1, <2>2, <2>3, <2>4
<1> QED
  BY <1>1, <1>2 DEF EventsPending

LEMMA RegisterStep ==
  ASSUME DomainInv, NEW b \in Baskets, Domain!Register(b)
  PROVE  DomainInv'
<1>1. PICK e : e = [kind |-> "BasketRegistered", basket |-> b]
  OBVIOUS
<1>2. /\ e \in BlockLogs /\ e.kind = "BasketRegistered" /\ e.basket = b
      /\ e.kind \notin Domain!AuctionKinds /\ e.kind \notin Domain!Origins /\ Domain!Emit(e)
  BY <1>1 DEF BlockLogs, BasketKinds, Domain!AuctionKinds, Domain!Moves, Domain!Origins, Domain!Register
<1>3. /\ DomainTypes /\ LaunchFits /\ TradesPending /\ EventsPending /\ AuctionPending
      /\ launched' = launched \cup {b} /\ registered' = registered \cup {b}
      /\ traded' = traded /\ emitted' = emitted /\ auction' = auction
  BY DEF DomainInv, Domain!Register
<1>4. /\ blockLogs' = Append(blockLogs, e) /\ blockLogs' \in Seq(BlockLogs)
      /\ streams' = streams /\ stores' = stores /\ rows' = rows
  BY <1>2, <1>3, Emitted
<1>5. DomainTypes'
  BY <1>3, <1>4 DEF DomainTypes
<1>6. LaunchFits'
  <2>1. registered' = registered \cup {c \in Baskets : e.kind = "BasketRegistered" /\ e.basket = c}
    BY <1>2, <1>3
  <2>2. \A c \in Baskets : traded'[c] # Domain!NoTrades => c \in launched'
    BY <1>3 DEF LaunchFits
  <2> QED
    BY <1>2, <1>3, <2>1, <2>2, LaunchAfter
<1>7. TradesPending'
  BY <1>2, <1>3, TradesAfter
<1>8. EventsPending'
  BY <1>2, <1>3, EventsAfter
<1>9. AuctionPending'
  BY <1>2, <1>3, <1>4, AuctionKept
<1> QED
  BY <1>5, <1>6, <1>7, <1>8, <1>9 DEF DomainInv

LEMMA TradeStep ==
  ASSUME DomainInv, NEW b \in Baskets, NEW side \in {"buys", "sells"}, Domain!Trade(b, side)
  PROVE  DomainInv'
<1>1. PICK e : e = [kind |-> side, basket |-> b]
  OBVIOUS
<1>2. /\ e \in BlockLogs /\ e.kind = side /\ e.basket = b
      /\ e.kind \notin Domain!AuctionKinds /\ e.kind \notin Domain!Origins
      /\ e.kind # "BasketRegistered" /\ Domain!Emit(e)
  BY <1>1 DEF BlockLogs, BasketKinds, Domain!AuctionKinds, Domain!Moves, Domain!Origins, Domain!Trade
<1>3. /\ DomainTypes /\ LaunchFits /\ TradesPending /\ EventsPending /\ AuctionPending
      /\ launched' = launched \cup {b} /\ registered' = registered
      /\ traded' = [traded EXCEPT ![b][side] = @ + 1]
      /\ emitted' = emitted /\ auction' = auction
  BY DEF DomainInv, Domain!Trade
<1>4. /\ blockLogs' = Append(blockLogs, e) /\ blockLogs' \in Seq(BlockLogs)
      /\ streams' = streams /\ stores' = stores /\ rows' = rows
  BY <1>2, <1>3, Emitted
<1>5. traded \in [Baskets -> [buys : Nat, sells : Nat]]
  BY <1>3 DEF DomainTypes
<1>6. /\ traded' \in [Baskets -> [buys : Nat, sells : Nat]]
      /\ \A c \in Baskets : c # b => traded'[c] = traded[c]
      /\ side = "buys" => traded'[b].buys = traded[b].buys + 1 /\ traded'[b].sells = traded[b].sells
      /\ side = "sells" => traded'[b].sells = traded[b].sells + 1 /\ traded'[b].buys = traded[b].buys
  <2>1. CASE side = "buys"
    BY <1>3, <1>5, <2>1
  <2>2. CASE side = "sells"
    BY <1>3, <1>5, <2>2
  <2> QED
    BY <2>1, <2>2
<1>7. DomainTypes'
  BY <1>3, <1>4, <1>6 DEF DomainTypes
<1>8. LaunchFits'
  <2>1. registered' = registered \cup {c \in Baskets : e.kind = "BasketRegistered" /\ e.basket = c}
    BY <1>2, <1>3
  <2>2. \A c \in Baskets : traded'[c] # Domain!NoTrades => c \in launched'
    BY <1>3, <1>6 DEF LaunchFits
  <2> QED
    BY <1>2, <1>3, <2>1, <2>2, LaunchAfter
<1>9. TradesPending'
  <2>1. \A c \in Baskets :
             /\ traded'[c].buys = IF e.kind = "buys" /\ e.basket = c
                                  THEN traded[c].buys + 1 ELSE traded[c].buys
             /\ traded'[c].sells = IF e.kind = "sells" /\ e.basket = c
                                   THEN traded[c].sells + 1 ELSE traded[c].sells
    <3> TAKE c \in Baskets
    <3>1. CASE c # b
      BY <1>2, <1>6, <3>1
    <3>2. CASE c = b /\ side = "buys"
      BY <1>2, <1>6, <3>2
    <3>3. CASE c = b /\ side = "sells"
      BY <1>2, <1>6, <3>3
    <3> QED
      BY <3>1, <3>2, <3>3
  <2> QED
    BY <1>2, <1>3, <2>1, TradesAfter
<1>10. EventsPending'
  BY <1>2, <1>3, EventsAfter
<1>11. AuctionPending'
  BY <1>2, <1>3, <1>4, AuctionKept
<1> QED
  BY <1>7, <1>8, <1>9, <1>10, <1>11 DEF DomainInv

LEMMA BasketEventStep ==
  ASSUME DomainInv, NEW b \in Baskets, NEW origin \in Domain!Origins, Domain!BasketEvent(b, origin)
  PROVE  DomainInv'
<1>1. PICK e : e = [kind |-> origin, basket |-> b]
  OBVIOUS
<1>2. /\ e \in BlockLogs /\ e.kind = origin /\ e.basket = b
      /\ e.kind \notin Domain!AuctionKinds /\ e.kind \notin {"BasketRegistered", "buys", "sells"}
      /\ Domain!Emit(e)
  <2>1. origin \in {"hook", "executor"} \/ origin = "token"
    BY DEF Domain!Origins
  <2>2. e \in BlockLogs
    BY <1>1, <2>1 DEF BlockLogs, BasketKinds
  <2> QED
    BY <1>1, <2>2 DEF Domain!AuctionKinds, Domain!Moves, Domain!Origins, Domain!BasketEvent
<1>3. /\ DomainTypes /\ LaunchFits /\ TradesPending /\ EventsPending /\ AuctionPending
      /\ launched' = launched /\ registered' = registered /\ traded' = traded
      /\ b \in launched
      /\ emitted' = [emitted EXCEPT ![b][origin] = @ + 1] /\ auction' = auction
  BY DEF DomainInv, Domain!BasketEvent
<1>4. /\ blockLogs' = Append(blockLogs, e) /\ blockLogs' \in Seq(BlockLogs)
      /\ streams' = streams /\ stores' = stores /\ rows' = rows
  BY <1>2, <1>3, Emitted
<1>5. emitted \in [Baskets \cup {Stranger} -> [Domain!Origins -> Nat]] /\ b # Stranger
  BY <1>3, TradesAssumption DEF DomainTypes
<1>6. /\ emitted' \in [Baskets \cup {Stranger} -> [Domain!Origins -> Nat]]
      /\ \A c \in Baskets \cup {Stranger}, o \in Domain!Origins :
             emitted'[c][o] = IF c = b /\ o = origin THEN emitted[c][o] + 1 ELSE emitted[c][o]
      /\ emitted'[Stranger] = emitted[Stranger]
  BY <1>3, <1>5
<1>7. DomainTypes'
  BY <1>3, <1>4, <1>6 DEF DomainTypes
<1>8. LaunchFits'
  <2>1. registered' = registered \cup {c \in Baskets : e.kind = "BasketRegistered" /\ e.basket = c}
    BY <1>2, <1>3
  <2>2. \A c \in Baskets : traded'[c] # Domain!NoTrades => c \in launched'
    BY <1>3 DEF LaunchFits
  <2> QED
    BY <1>2, <1>3, <2>1, <2>2, LaunchAfter
<1>9. TradesPending'
  BY <1>2, <1>3, TradesAfter
<1>10. EventsPending'
  BY <1>2, <1>3, <1>6, EventsAfter
<1>11. AuctionPending'
  BY <1>2, <1>3, <1>4, AuctionKept
<1> QED
  BY <1>7, <1>8, <1>9, <1>10, <1>11 DEF DomainInv

LEMMA ForeignEventStep ==
  ASSUME DomainInv, Domain!ForeignEvent
  PROVE  DomainInv'
<1>1. PICK e : e = [kind |-> "token", basket |-> Stranger]
  OBVIOUS
<1>2. /\ e \in BlockLogs /\ e.kind = "token" /\ e.basket \notin Baskets
      /\ e.kind \notin Domain!AuctionKinds /\ Domain!Emit(e)
  BY <1>1, TradesAssumption DEF BlockLogs, Domain!AuctionKinds, Domain!Moves, Domain!ForeignEvent
<1>3. /\ DomainTypes /\ LaunchFits /\ TradesPending /\ EventsPending /\ AuctionPending
      /\ launched' = launched /\ registered' = registered /\ traded' = traded
      /\ emitted' = emitted /\ auction' = auction
  BY DEF DomainInv, Domain!ForeignEvent, Domain!chain
<1>4. /\ blockLogs' = Append(blockLogs, e) /\ blockLogs' \in Seq(BlockLogs)
      /\ streams' = streams /\ stores' = stores /\ rows' = rows
  BY <1>2, <1>3, Emitted
<1>5. DomainTypes'
  BY <1>3, <1>4 DEF DomainTypes
<1>6. LaunchFits'
  <2>1. registered' = registered \cup {c \in Baskets : e.kind = "BasketRegistered" /\ e.basket = c}
    BY <1>2, <1>3
  <2>2. \A c \in Baskets : traded'[c] # Domain!NoTrades => c \in launched'
    BY <1>3 DEF LaunchFits
  <2> QED
    BY <1>2, <1>3, <2>1, <2>2, LaunchAfter
<1>7. TradesPending'
  BY <1>2, <1>3, TradesAfter
<1>8. EventsPending'
  BY <1>2, <1>3, EventsAfter
<1>9. AuctionPending'
  BY <1>2, <1>3, <1>4, AuctionKept
<1> QED
  BY <1>5, <1>6, <1>7, <1>8, <1>9 DEF DomainInv

\* A log of the auction: what it does to the auction is what it does to the
\* auction's row.
LEMMA AuctionStepKeeps ==
  ASSUME DomainInv, NEW e \in BlockLogs, Domain!Emit(e), e.kind \in Domain!AuctionKinds,
         UNCHANGED <<launched, registered, traded, emitted>>,
         auction' = AuctionStep(auction, e), auction'.status # "NONE" \/ auction'.bids = {},
         Settled(auction) \cup (IF e.kind = "AUCTION_SETTLED"
                                THEN {[winner |-> e.bidder, burned |-> e.bid]} ELSE {})
             = Settled(auction')
  PROVE  DomainInv'
<1>2. e.kind \notin Domain!Origins \cup BasketKinds
  BY DEF Domain!AuctionKinds, Domain!Moves, Domain!Origins, BasketKinds
<1>3. /\ DomainTypes /\ LaunchFits /\ TradesPending /\ EventsPending /\ AuctionPending
      /\ launched' = launched /\ registered' = registered /\ traded' = traded /\ emitted' = emitted
  BY DEF DomainInv
<1>4. /\ blockLogs' = Append(blockLogs, e) /\ blockLogs' \in Seq(BlockLogs)
      /\ streams' = streams /\ stores' = stores /\ rows' = rows
  BY <1>3, Emitted
<1>5. DomainTypes'
  <2>1. auction' \in AuctionRows
    BY <1>3, AuctionStepType DEF DomainTypes
  <2> QED
    BY <1>3, <1>4, <2>1 DEF DomainTypes
<1>6. LaunchFits'
  <2>1. registered' = registered \cup {c \in Baskets : e.kind = "BasketRegistered" /\ e.basket = c}
    BY <1>2, <1>3 DEF BasketKinds
  <2>2. \A c \in Baskets : traded'[c] # Domain!NoTrades => c \in launched'
    BY <1>3 DEF LaunchFits
  <2> QED
    BY <1>2, <1>3, <2>1, <2>2, LaunchAfter
<1>7. TradesPending'
  BY <1>2, <1>3, TradesAfter DEF BasketKinds
<1>8. EventsPending'
  BY <1>2, <1>3, EventsAfter
<1>9. AuctionPending'
  <2>1. (Domain!AuctionAfter(rows.auction))' = AuctionStep(Domain!AuctionAfter(rows.auction), e)
    <3>1. PICK row \in AuctionRows : row = rows.auction
      BY <1>3 DEF DomainTypes
    <3>2. (Domain!AuctionAfter(row))' = AuctionStep(Domain!AuctionAfter(row), e)
      BY <1>3, <1>4, AuctionAfterLog DEF DomainTypes
    <3>3. (Domain!AuctionAfter(rows.auction))' = (Domain!AuctionAfter(row))'
      BY <1>4, <3>1 DEF Domain!AuctionAfter, Domain!AuctionRow, Domain!StatusAfter, Domain!BidRows
    <3> QED
      BY <3>1, <3>2, <3>3
  <2>2. Domain!Results' = Domain!Results \cup (IF e.kind = "AUCTION_SETTLED"
                                                THEN {[winner |-> e.bidder, burned |-> e.bid]} ELSE {})
    BY <1>3, <1>4, ResultsAfter DEF DomainTypes
  <2>3. rows'.results \cup Domain!Results' = Settled(auction')
    BY <1>3, <1>4, <2>2 DEF AuctionPending
  <2> QED
    BY <1>3, <1>4, <2>1, <2>3 DEF AuctionPending
<1> QED
  BY <1>5, <1>6, <1>7, <1>8, <1>9 DEF DomainInv

LEMMA CreateAuctionStep ==
  ASSUME DomainInv, NEW who \in Bidders, NEW bid \in 1..MaxBid, Domain!CreateAuction(who, bid)
  PROVE  DomainInv'
<1>1. PICK e : e = [kind |-> "AUCTION_CREATED", bid |-> bid, bidder |-> who]
  OBVIOUS
<1>2. e \in BlockLogs /\ Domain!Emit(e) /\ e.kind \in Domain!AuctionKinds
  BY <1>1 DEF BlockLogs, Domain!AuctionKinds, Domain!CreateAuction
<1>3. /\ auction \in AuctionRows /\ auction.status = "NONE" /\ auction.bids = {}
      /\ UNCHANGED <<launched, registered, traded, emitted>>
      /\ auction' = [auction EXCEPT !.status = "ACTIVE", !.bid = bid, !.bidder = who,
                                    !.bids = {Domain!Bid(who, bid, TRUE)}]
  BY DEF DomainInv, DomainTypes, AuctionPending, Domain!CreateAuction
<1>4. Domain!BidRows(e) = {Domain!Bid(who, bid, TRUE)} /\ Domain!StatusAfter(auction.status, e) = "ACTIVE"
  <2>1. (e.kind = "AUCTION_CREATED") = TRUE /\ e.kind # "AUCTION_SETTLED"
    BY <1>1
  <2>2. Domain!BidRows(e) = {Domain!Bid(e.bidder, e.bid, TRUE)}
    BY <2>1 DEF Domain!BidRows
  <2>3. Domain!StatusAfter(auction.status, e) = "ACTIVE"
    BY <2>1 DEF Domain!StatusAfter
  <2> QED
    BY <1>1, <2>2, <2>3
<1>5. AuctionStep(auction, e) = [auction EXCEPT !.status = "ACTIVE", !.bid = bid, !.bidder = who,
                                    !.bids = auction.bids \cup {Domain!Bid(who, bid, TRUE)}]
  BY <1>1, <1>4 DEF AuctionStep, Domain!AuctionKinds, Domain!Moves, Domain!AuctionRow
<1>6. auction.bids \cup {Domain!Bid(who, bid, TRUE)} = {Domain!Bid(who, bid, TRUE)}
  BY <1>3
<1>7. auction' = AuctionStep(auction, e)
  BY <1>3, <1>5, <1>6
<1>8. auction'.status = "ACTIVE"
  BY <1>3 DEF AuctionRows
<1>9. Settled(auction) = {} /\ Settled(auction') = {} /\ e.kind # "AUCTION_SETTLED"
  BY <1>1, <1>3, <1>8 DEF Settled
<1> QED
  BY <1>2, <1>3, <1>7, <1>8, <1>9, AuctionStepKeeps

LEMMA PlaceBidStep ==
  ASSUME DomainInv, NEW who \in Bidders, NEW bid \in 1..MaxBid, Domain!PlaceBid(who, bid)
  PROVE  DomainInv'
<1>1. PICK e : e = [kind |-> "BID_PLACED", bid |-> bid, bidder |-> who]
  OBVIOUS
<1>2. e \in BlockLogs /\ Domain!Emit(e) /\ e.kind \in Domain!AuctionKinds
  BY <1>1 DEF BlockLogs, Domain!AuctionKinds, Domain!PlaceBid
<1>3. /\ auction \in AuctionRows /\ auction.status = "ACTIVE"
      /\ UNCHANGED <<launched, registered, traded, emitted>>
      /\ auction' = [auction EXCEPT !.bid = bid, !.bidder = who,
                                    !.bids = auction.bids \cup {Domain!Bid(who, bid, FALSE)}]
  BY DEF DomainInv, DomainTypes, Domain!PlaceBid
<1>4. Domain!BidRows(e) = {Domain!Bid(who, bid, FALSE)} /\ Domain!StatusAfter(auction.status, e) = auction.status
  <2>1. (e.kind = "AUCTION_CREATED") = FALSE /\ e.kind # "AUCTION_SETTLED"
    BY <1>1
  <2>2. Domain!BidRows(e) = {Domain!Bid(e.bidder, e.bid, FALSE)}
    BY <2>1 DEF Domain!BidRows
  <2>3. Domain!StatusAfter(auction.status, e) = auction.status
    BY <2>1 DEF Domain!StatusAfter
  <2> QED
    BY <1>1, <2>2, <2>3
<1>5. AuctionStep(auction, e) = [auction EXCEPT !.status = auction.status, !.bid = bid, !.bidder = who,
                                    !.bids = auction.bids \cup {Domain!Bid(who, bid, FALSE)}]
  BY <1>1, <1>4 DEF AuctionStep, Domain!AuctionKinds, Domain!Moves, Domain!AuctionRow
<1>7. auction' = AuctionStep(auction, e)
  BY <1>3, <1>5 DEF AuctionRows
<1>8. auction'.status = "ACTIVE"
  BY <1>3 DEF AuctionRows
<1>9. Settled(auction) = {} /\ Settled(auction') = {} /\ e.kind # "AUCTION_SETTLED"
  BY <1>1, <1>3, <1>8 DEF Settled
<1> QED
  BY <1>2, <1>3, <1>7, <1>8, <1>9, AuctionStepKeeps

LEMMA SettleStep ==
  ASSUME DomainInv, Domain!Settle
  PROVE  DomainInv'
<1>1. PICK e : e = [kind |-> "AUCTION_SETTLED", bid |-> auction.bid, bidder |-> auction.bidder]
  OBVIOUS
<1>2. auction \in AuctionRows
  BY DEF DomainInv, DomainTypes
<1>3. e \in BlockLogs /\ Domain!Emit(e) /\ e.kind \in Domain!AuctionKinds
  <2>1. e \in [kind : {"AUCTION_CREATED", "BID_PLACED", "AUCTION_SETTLED"}, bid : Nat,
          bidder : Bidders \cup {NoBidder}]
    BY <1>1, <1>2 DEF AuctionRows
  <2> QED
    BY <1>1, <2>1 DEF BlockLogs, Domain!AuctionKinds, Domain!Settle
<1>4. /\ auction.status = "ACTIVE"
      /\ UNCHANGED <<launched, registered, traded, emitted>>
      /\ auction' = [auction EXCEPT !.status = "SETTLED"]
  BY DEF Domain!Settle
<1>5. Domain!BidRows(e) = {} /\ Domain!StatusAfter(auction.status, e) = "SETTLED"
  BY <1>1 DEF Domain!BidRows, Domain!StatusAfter
<1>6. AuctionStep(auction, e) = [auction EXCEPT !.status = "SETTLED", !.bid = auction.bid,
                                                !.bidder = auction.bidder, !.bids = auction.bids \cup {}]
  BY <1>1, <1>5 DEF AuctionStep, Domain!AuctionKinds, Domain!Moves, Domain!AuctionRow
<1>7. auction' = AuctionStep(auction, e)
  BY <1>2, <1>4, <1>6 DEF AuctionRows
<1>8. auction'.status = "SETTLED" /\ auction'.bid = auction.bid /\ auction'.bidder = auction.bidder
  BY <1>2, <1>4 DEF AuctionRows
<1>9. /\ Settled(auction) = {} /\ e.kind = "AUCTION_SETTLED"
      /\ Settled(auction') = {[winner |-> e.bidder, burned |-> e.bid]}
  BY <1>1, <1>4, <1>8 DEF Settled
<1>10. Settled(auction) \cup (IF e.kind = "AUCTION_SETTLED"
                              THEN {[winner |-> e.bidder, burned |-> e.bid]} ELSE {})
          = Settled(auction')
  BY <1>9
<1> QED
  BY <1>3, <1>4, <1>7, <1>8, <1>10, AuctionStepKeeps

LEMMA MoveFundsStep ==
  ASSUME DomainInv, NEW kind \in Domain!Moves, Domain!MoveFunds(kind)
  PROVE  DomainInv'
<1>1. PICK e : e = [kind |-> kind]
  OBVIOUS
<1>2. e \in BlockLogs /\ Domain!Emit(e) /\ e.kind \in Domain!AuctionKinds /\ e.kind \in Domain!Moves
  BY <1>1 DEF BlockLogs, Domain!AuctionKinds, Domain!MoveFunds
<1>3. /\ auction \in AuctionRows /\ (auction.status = "NONE" => auction.bids = {})
      /\ UNCHANGED <<launched, registered, traded, emitted>>
      /\ auction' = [auction EXCEPT !.moves = auction.moves + 1]
  BY DEF DomainInv, DomainTypes, AuctionPending, Domain!MoveFunds
<1>4. auction' = AuctionStep(auction, e)
  BY <1>2, <1>3 DEF AuctionStep, Domain!AuctionRow
<1>5. /\ auction'.status = auction.status /\ auction'.bids = auction.bids
      /\ auction'.bid = auction.bid /\ auction'.bidder = auction.bidder
  BY <1>3 DEF AuctionRows
<1>6. Settled(auction') = Settled(auction) /\ e.kind # "AUCTION_SETTLED"
  BY <1>2, <1>5 DEF Settled, Domain!Moves
<1>7. Settled(auction) \cup (IF e.kind = "AUCTION_SETTLED"
                             THEN {[winner |-> e.bidder, burned |-> e.bid]} ELSE {})
          = Settled(auction')
  BY <1>6
<1> QED
  BY <1>2, <1>3, <1>4, <1>5, <1>7, AuctionStepKeeps

-----------------------------------------------------------------------------
(***************************************************************************)
(* The end of a block.  The streams of a package divide the hooks, cover   *)
(* the executors, and follow all registrations where they take the tokens' *)
(* events: their rows together are what the block holds.                   *)
(***************************************************************************)
LEMMA StreamsDivide ==
  ASSUME streams \in MCAssemblies
  PROVE  /\ IsFiniteSet(streams)
         /\ \A g \in {1, 3, 14} :
                /\ \E s \in streams : g \in s.hooks /\ \A r \in streams : g \in r.hooks => r = s
                /\ \E s \in streams : g \in s.rebalances
         /\ \E s \in streams : s.tokens
         /\ \E s \in streams : s.auction
         /\ \A s \in streams : s.tokens => s.versions = {1, 3, 14}
<1>1. PICK p, q, r, t : p = Legacy({1, 3}) /\ q = Legacy({1}) /\ r = V11 /\ t = V14
  OBVIOUS
<1>2. streams = {p, t} \/ streams = {q, r, t}
  BY <1>1 DEF MCAssemblies
<1>3. /\ p.hooks = {1, 3} /\ p.rebalances = {1, 3} /\ p.tokens /\ p.auction /\ p.versions = {1, 3, 14}
      /\ q.hooks = {1} /\ q.rebalances = {1} /\ q.tokens /\ q.auction /\ q.versions = {1, 3, 14}
      /\ r.hooks = {3} /\ r.rebalances = {3} /\ ~r.tokens
      /\ t.hooks = {14} /\ t.rebalances = {14} /\ ~t.tokens
  BY <1>1 DEF Legacy, V11, V14
<1>4. IsFiniteSet(streams)
  <2>1. IsFiniteSet({p} \cup {t}) /\ IsFiniteSet({q} \cup {r})
    BY FS_Singleton, FS_AddElement
  <2>2. IsFiniteSet(({q} \cup {r}) \cup {t})
    BY <2>1, FS_AddElement
  <2>3. {p, t} = {p} \cup {t} /\ {q, r, t} = ({q} \cup {r}) \cup {t}
    OBVIOUS
  <2> QED
    BY <1>2, <2>1, <2>2, <2>3
<1>5. CASE streams = {p, t}
  <2>1. \A g \in {1, 3, 14} :
                /\ \E s \in streams : g \in s.hooks /\ \A u \in streams : g \in u.hooks => u = s
                /\ \E s \in streams : g \in s.rebalances
    BY <1>3, <1>5
  <2> QED
    BY <1>3, <1>4, <1>5, <2>1
<1>6. CASE streams = {q, r, t}
  <2>1. \A g \in {1, 3, 14} :
                /\ \E s \in streams : g \in s.hooks /\ \A u \in streams : g \in u.hooks => u = s
                /\ \E s \in streams : g \in s.rebalances
    BY <1>3, <1>6
  <2> QED
    BY <1>3, <1>4, <1>6, <2>1
<1> QED
  BY <1>2, <1>5, <1>6

LEMMA GenerationOf ==
  ASSUME NEW b \in Baskets
  PROVE  MCGeneration[b] \in {1, 3, 14}
BY DEF MCGeneration

\* Logs of these kinds come from a basket, or from the one contract besides.
LEMMA BasketLogs ==
  ASSUME blockLogs \in Seq(BlockLogs), NEW i \in DOMAIN blockLogs
  PROVE  /\ blockLogs[i].kind \in BasketKinds => blockLogs[i].basket \in Baskets
         /\ blockLogs[i].kind = "token" => blockLogs[i].basket \in Baskets \cup {Stranger}
<1>1. PICK e \in BlockLogs : e = blockLogs[i]
  BY DEF BlockLogs
<1> QED
  BY <1>1 DEF BlockLogs, BasketKinds, Domain!Moves

LEMMA DiscoveriesAre ==
  ASSUME blockLogs \in Seq(BlockLogs), NEW s
  PROVE  Domain!Discoveries(s) = {b \in Baskets : Registers(b) /\ MCGeneration[b] \in s.versions}
<1>1. ASSUME NEW b \in Domain!Discoveries(s)
      PROVE  b \in Baskets /\ Registers(b) /\ MCGeneration[b] \in s.versions
  <2>1. PICK i \in DOMAIN blockLogs : /\ blockLogs[i].kind = "BasketRegistered" /\ blockLogs[i].basket = b
                                      /\ MCGeneration[blockLogs[i].basket] \in s.versions
    BY <1>1 DEF Domain!Discoveries, Domain!OfKind
  <2>2. b \in Baskets
    BY <2>1, BasketLogs DEF BasketKinds
  <2> QED
    BY <2>1, <2>2 DEF Registers, At
<1>2. ASSUME NEW b \in Baskets, Registers(b), MCGeneration[b] \in s.versions
      PROVE  b \in Domain!Discoveries(s)
  <2>1. PICK i \in DOMAIN blockLogs : blockLogs[i].kind = "BasketRegistered" /\ blockLogs[i].basket = b
    BY <1>2 DEF Registers, At
  <2>2. i \in {j \in Domain!OfKind("BasketRegistered") : MCGeneration[blockLogs[j].basket] \in s.versions}
    BY <1>2, <2>1 DEF Domain!OfKind
  <2> QED
    BY <2>1, <2>2 DEF Domain!Discoveries
<1> QED
  BY <1>1, <1>2

LEMMA TradesAre ==
  ASSUME DomainTypes, NEW b \in Baskets, NEW side
  PROVE  Domain!TradesOfAll(b, side) = Held(side, b)
<1>1. /\ blockLogs \in Seq(BlockLogs) /\ streams \in MCAssemblies /\ Held(side, b) \in Nat
      /\ MCGeneration[b] \in {1, 3, 14}
  BY HeldFinite, GenerationOf DEF DomainTypes
<1>2. PICK h \in Nat : h = Held(side, b)
  BY <1>1
<1>3. PICK g : g = MCGeneration[b]
  OBVIOUS
<1>4. \A s : Domain!TradesOf(s, b, side) = IF g \in s.hooks THEN h ELSE 0
  <2> TAKE s
  <2>1. CASE g \in s.hooks
    <3>1. {i \in Domain!OfKind(side) : blockLogs[i].basket = b /\ MCGeneration[b] \in s.hooks} = At(side, b)
      BY <1>3, <2>1 DEF Domain!OfKind, At
    <3>2. Domain!TradesOf(s, b, side) = Cardinality(At(side, b))
      BY <3>1 DEF Domain!TradesOf, Cardinality, Domain!Cardinality
    <3> QED
      BY <1>2, <2>1, <3>2 DEF Held
  <2>2. CASE g \notin s.hooks
    <3>1. {i \in Domain!OfKind(side) : blockLogs[i].basket = b /\ MCGeneration[b] \in s.hooks} = {}
      BY <1>3, <2>2
    <3>2. Domain!TradesOf(s, b, side) = Cardinality({})
      BY <3>1 DEF Domain!TradesOf, Cardinality, Domain!Cardinality
    <3> QED
      BY <2>2, <3>2, FS_EmptySet
  <2> QED
    BY <2>1, <2>2
<1>5. PICK S, f : S = streams /\ f = [s \in S |-> Domain!TradesOf(s, b, side)]
  OBVIOUS
<1>6. IsFiniteSet(S) /\ \A s \in S : f[s] = IF g \in s.hooks THEN h ELSE 0
  BY <1>1, <1>4, <1>5, StreamsDivide
<1>7. PICK s \in S : g \in s.hooks /\ \A r \in S : g \in r.hooks => r = s
  BY <1>1, <1>3, <1>5, StreamsDivide
<1>8. SumFunctionOnSet(f, S) = f[s] + SumFunctionOnSet(f, S \ {s})
  <2>1. NumericOn(f, S)
    BY <1>6 DEF NumericOn
  <2> QED
    BY <1>6, <2>1, SumElement
<1>9. SumFunctionOnSet(f, S \ {s}) = 0
  <2>1. IsFiniteSet(S \ {s}) /\ \A r \in S \ {s} : f[r] = 0
    BY <1>6, <1>7, FS_Subset
  <2> QED
    BY <2>1, SumZero
<1>10. Domain!TradesOfAll(b, side) = SumFunctionOnSet(f, S)
  BY <1>5 DEF Domain!TradesOfAll, SumFunctionOnSet, FoldFunctionOnSet, MapThenFoldSet,
              Domain!SumFunctionOnSet, Domain!FoldFunctionOnSet, Domain!MapThenFoldSet
<1> QED
  BY <1>2, <1>6, <1>7, <1>8, <1>9, <1>10

\* The stores of the streams that follow the tokens, with the open block's
\* registrations, are the baskets that have been launched once all launches
\* are complete.
LEMMA StoresAre ==
  ASSUME DomainInv, launched = registered, NEW s \in streams
  PROVE  /\ Domain!StoreAfter(s) \subseteq Baskets
         /\ s.tokens => Domain!StoreAfter(s) = registered
         /\ s.tokens => Domain!Discoveries(s) = {b \in Baskets : Registers(b)}
<1>1. /\ blockLogs \in Seq(BlockLogs) /\ streams \in MCAssemblies /\ stores \in [streams -> SUBSET Baskets]
      /\ registered \subseteq Baskets /\ LaunchFits
  BY DEF DomainInv, DomainTypes
<1>2. Domain!Discoveries(s) = {b \in Baskets : Registers(b) /\ MCGeneration[b] \in s.versions}
  BY <1>1, DiscoveriesAre
<1>3. Domain!StoreAfter(s) \subseteq Baskets
  BY <1>1, <1>2 DEF Domain!StoreAfter
<1>4. ASSUME s.tokens PROVE Domain!Discoveries(s) = {b \in Baskets : Registers(b)}
  BY <1>1, <1>2, <1>4, StreamsDivide, GenerationOf
<1>5. ASSUME s.tokens PROVE Domain!StoreAfter(s) = registered
  <2>1. stores[s] = {b \in Baskets : Created(b)}
    BY <1>1, <1>5 DEF LaunchFits
  <2>2. \A b \in Baskets : b \in registered <=> Created(b) \/ Registers(b)
    BY <1>1 DEF LaunchFits
  <2> QED
    BY <1>1, <1>4, <1>5, <2>1, <2>2 DEF Domain!StoreAfter
<1> QED
  BY <1>3, <1>4, <1>5

LEMMA EventsAre ==
  ASSUME DomainInv, launched = registered, NEW b \in Baskets, NEW o \in Domain!Origins
  PROVE  Domain!EventRows(b)[o] = Held(o, b)
<1>1. /\ blockLogs \in Seq(BlockLogs) /\ streams \in MCAssemblies /\ LaunchFits
      /\ MCGeneration[b] \in {1, 3, 14}
  BY GenerationOf DEF DomainInv, DomainTypes
<1>2. UNION {Domain!HookEvents(s, b) : s \in streams} = At("hook", b)
  <2>1. PICK s \in streams : MCGeneration[b] \in s.hooks
    BY <1>1, StreamsDivide
  <2>2. Domain!HookEvents(s, b) = At("hook", b)
    BY <2>1 DEF Domain!HookEvents, Domain!OfBasket, Domain!OfKind, At
  <2>3. \A r \in streams : Domain!HookEvents(r, b) \subseteq At("hook", b)
    BY DEF Domain!HookEvents, Domain!OfBasket, Domain!OfKind, At
  <2> QED
    BY <2>2, <2>3
<1>3. UNION {Domain!ExecutorEvents(s, b) : s \in streams} = At("executor", b)
  <2>1. PICK s \in streams : MCGeneration[b] \in s.rebalances
    BY <1>1, StreamsDivide
  <2>2. Domain!ExecutorEvents(s, b) = At("executor", b)
    BY <2>1 DEF Domain!ExecutorEvents, Domain!OfBasket, Domain!OfKind, At
  <2>3. \A r \in streams : Domain!ExecutorEvents(r, b) \subseteq At("executor", b)
    BY DEF Domain!ExecutorEvents, Domain!OfBasket, Domain!OfKind, At
  <2> QED
    BY <2>2, <2>3
<1>4. UNION {Domain!TokenEvents(s, b) : s \in streams} = At("token", b)
  <2>1. PICK s \in streams : s.tokens
    BY <1>1, StreamsDivide
  <2>2. ASSUME NEW i \in At("token", b) PROVE i \in Domain!TokenEvents(s, b)
    <3>1. i \in DOMAIN blockLogs /\ blockLogs[i].kind = "token" /\ blockLogs[i].basket = b
      BY <2>2 DEF At
    <3>2. b \in registered
      BY <1>1, <3>1 DEF LaunchFits, Domain!Origins
    <3>3. b \in stores[s] \cup Domain!Discoveries(s)
      BY <2>1, <3>2, StoresAre DEF Domain!StoreAfter
    <3>4. Domain!IsBasket(s, i)
      BY <3>1, <3>3 DEF Domain!IsBasket, Domain!KnownByTheStore
    <3> QED
      BY <2>1, <3>1, <3>4 DEF Domain!TokenEvents, Domain!OfBasket, Domain!OfKind
  <2>3. \A r \in streams : Domain!TokenEvents(r, b) \subseteq At("token", b)
    BY DEF Domain!TokenEvents, Domain!OfBasket, Domain!OfKind, At
  <2> QED
    BY <2>2, <2>3
<1>5. \A S : Domain!Cardinality(S) = Cardinality(S)
  BY DEF Cardinality, Domain!Cardinality
<1>6. o = "hook" \/ o = "executor" \/ o = "token"
  BY DEF Domain!Origins
<1>7. Domain!EventRows(b) = [hook |-> Cardinality(At("hook", b)), executor |-> Cardinality(At("executor", b)),
                             token |-> Cardinality(At("token", b))]
  BY <1>2, <1>3, <1>4, <1>5 DEF Domain!EventRows
<1>8. PICK h, x, t : h = Held("hook", b) /\ x = Held("executor", b) /\ t = Held("token", b)
  OBVIOUS
<1>9. Domain!EventRows(b) = [hook |-> h, executor |-> x, token |-> t]
  BY <1>7, <1>8 DEF Held
<1> QED
  BY <1>6, <1>8, <1>9

LEMMA NoForeignEvents ==
  ASSUME DomainInv, launched = registered, NEW o \in Domain!Origins
  PROVE  Domain!EventRows(Stranger)[o] = 0
<1>1. blockLogs \in Seq(BlockLogs) /\ Stranger \notin Baskets
  BY TradesAssumption DEF DomainInv, DomainTypes
<1>2. UNION {Domain!HookEvents(s, Stranger) : s \in streams} = {}
  BY <1>1, BasketLogs DEF Domain!HookEvents, Domain!OfBasket, Domain!OfKind, BasketKinds
<1>3. UNION {Domain!ExecutorEvents(s, Stranger) : s \in streams} = {}
  BY <1>1, BasketLogs DEF Domain!ExecutorEvents, Domain!OfBasket, Domain!OfKind, BasketKinds
<1>4. UNION {Domain!TokenEvents(s, Stranger) : s \in streams} = {}
  <2> SUFFICES ASSUME NEW s \in streams, NEW i \in Domain!TokenEvents(s, Stranger) PROVE FALSE
    OBVIOUS
  <2>1. Domain!IsBasket(s, i) /\ blockLogs[i].basket = Stranger
    BY DEF Domain!TokenEvents, Domain!OfBasket
  <2>2. Stranger \in stores[s] \cup Domain!Discoveries(s)
    BY <2>1 DEF Domain!IsBasket, Domain!KnownByTheStore
  <2> QED
    BY <1>1, <2>2, StoresAre DEF Domain!StoreAfter
<1>5. \A S : Domain!Cardinality(S) = Cardinality(S)
  BY DEF Cardinality, Domain!Cardinality
<1>6. o = "hook" \/ o = "executor" \/ o = "token"
  BY DEF Domain!Origins
<1> QED
  BY <1>2, <1>3, <1>4, <1>5, <1>6, FS_EmptySet DEF Domain!EventRows

\* The rows of the auction after no logs are the rows there were.
LEMMA AuctionAfterNone ==
  ASSUME blockLogs' = <<>>, NEW row \in AuctionRows
  PROVE  (Domain!AuctionAfter(row))' = row
<1>1. AuctionRuns'
  BY AuctionRunsAre, PTL
<1>2. PICK q : q = <<>>
  OBVIOUS
<1>3. q \in Seq(BlockLogs) /\ Len(q) = 0
  BY <1>2
<1>4. PICK h : AuctionRun(h, q, row) /\ (Domain!AuctionAfter(row))' = h[Len(q)]
  BY <1>1, <1>2, <1>3 DEF AuctionRuns
<1> QED
  BY <1>3, <1>4 DEF AuctionRun

LEMMA HeldNone ==
  ASSUME blockLogs' = <<>>
  PROVE  /\ \A k, b : At(k, b)' = {} /\ Held(k, b)' = 0
         /\ \A b : ~Registers(b)'
         /\ Domain!Results' = {}
<1>1. \A k, b : At(k, b)' = {}
  BY DEF At
<1>2. \A k, b : Held(k, b)' = 0
  BY <1>1, FS_EmptySet DEF Held
<1>3. Domain!Results' = {}
  BY DEF Domain!Results, Domain!OfKind
<1> QED
  BY <1>1, <1>2, <1>3 DEF Registers

LEMMA EndBlockStep ==
  ASSUME DomainInv, Domain!EndBlock
  PROVE  DomainInv'
<1>1. /\ DomainTypes /\ LaunchFits /\ TradesPending /\ EventsPending /\ AuctionPending
      /\ launched = registered /\ blockLogs' = <<>>
      /\ stores' = [s \in streams |-> Domain!StoreAfter(s)]
      /\ UNCHANGED <<streams, launched, registered, traded, emitted, auction>>
  BY DEF DomainInv, Domain!EndBlock
<1>2. /\ rows'.baskets = [b \in Baskets |-> Domain!BasketRow(b)]
      /\ rows'.events = [b \in Baskets \cup {Stranger} |->
                           [o \in Domain!Origins |-> rows.events[b][o] + Domain!EventRows(b)[o]]]
      /\ rows'.auction = Domain!AuctionAfter(rows.auction)
      /\ rows'.results = rows.results \cup Domain!Results
  <2>1. \E s \in streams : s.auction
    BY <1>1, StreamsDivide DEF DomainTypes
  <2>2. rows' = [baskets |-> [b \in Baskets |-> Domain!BasketRow(b)],
                 events  |-> [b \in Domain!Contracts |-> [o \in Domain!Origins |->
                                rows.events[b][o] + Domain!EventRows(b)[o]]],
                 auction |-> Domain!AuctionAfter(rows.auction),
                 results |-> rows.results \cup Domain!Results]
    BY <2>1 DEF Domain!EndBlock
  <2> QED
    BY <2>2 DEF Domain!Contracts
<1>3. \A b \in Baskets : b \in registered <=> Created(b) \/ Registers(b)
  BY <1>1 DEF LaunchFits
<1>4. ASSUME NEW b \in Baskets
      PROVE  /\ rows'.baskets[b] = [created |-> b \in registered,
                                    buys |-> traded[b].buys, sells |-> traded[b].sells]
             /\ rows'.baskets[b] \in [created : BOOLEAN, buys : Nat, sells : Nat]
             /\ rows'.baskets[b].buys = traded[b].buys
             /\ rows'.baskets[b].sells = traded[b].sells
             /\ Created(b)' <=> b \in registered
  <2>1. (\E s \in streams : b \in Domain!Discoveries(s)) <=> Registers(b)
    <3>1. PICK s \in streams : s.tokens
      BY <1>1, StreamsDivide DEF DomainTypes
    <3>2. Domain!Discoveries(s) = {c \in Baskets : Registers(c)}
      BY <1>1, <3>1, StoresAre
    <3>3. \A r \in streams : b \in Domain!Discoveries(r) => Registers(b)
      BY <1>1, DiscoveriesAre DEF DomainTypes
    <3> QED
      BY <3>2, <3>3
  <2>2. Domain!TradesOfAll(b, "buys") = Held("buys", b) /\ Domain!TradesOfAll(b, "sells") = Held("sells", b)
    BY <1>1, TradesAre
  <2>3. rows.baskets[b].created \in BOOLEAN
    BY <1>1 DEF DomainTypes
  <2>4. (rows.baskets[b].created \/ \E s \in streams : b \in Domain!Discoveries(s)) = (b \in registered)
    BY <1>3, <2>1, <2>3 DEF Created
  <2>5. Domain!BasketRow(b) = [created |-> b \in registered,
                               buys |-> rows.baskets[b].buys + Held("buys", b),
                               sells |-> rows.baskets[b].sells + Held("sells", b)]
    BY <2>2, <2>4 DEF Domain!BasketRow
  <2>6. rows'.baskets[b] = [created |-> b \in registered,
                            buys |-> traded[b].buys, sells |-> traded[b].sells]
    <3>1. /\ traded[b].buys = rows.baskets[b].buys + Held("buys", b)
          /\ traded[b].sells = rows.baskets[b].sells + Held("sells", b)
      BY <1>1 DEF TradesPending
    <3>2. Domain!BasketRow(b) = [created |-> b \in registered,
                                 buys |-> traded[b].buys, sells |-> traded[b].sells]
      BY <2>5, <3>1
    <3> QED
      BY <1>2, <3>2
  <2>7. traded[b].buys \in Nat /\ traded[b].sells \in Nat
    BY <1>1 DEF DomainTypes
  <2>8. PICK p \in BOOLEAN : p = (b \in registered)
    <3>1. CASE b \in registered
      <4>1. TRUE = (b \in registered)
        BY <3>1
      <4> QED
        BY <4>1
    <3>2. CASE b \notin registered
      <4>1. FALSE = (b \in registered)
        BY <3>2
      <4> QED
        BY <4>1
    <3> QED
      BY <3>1, <3>2
  <2>9. rows'.baskets[b] = [created |-> p, buys |-> traded[b].buys, sells |-> traded[b].sells]
    BY <2>6, <2>8
  <2>10. Created(b)' = p
    BY <2>9 DEF Created
  <2>11. Created(b)' <=> b \in registered
    BY <2>8, <2>10
  <2>12. /\ rows'.baskets[b] \in [created : BOOLEAN, buys : Nat, sells : Nat]
         /\ rows'.baskets[b].buys = traded[b].buys /\ rows'.baskets[b].sells = traded[b].sells
    BY <2>7, <2>8, <2>9
  <2> QED
    BY <2>6, <2>11, <2>12
<1>5. ASSUME NEW o \in Domain!Origins, NEW b \in Baskets
      PROVE  rows'.events[b][o] = emitted[b][o]
  <2>1. rows'.events[b][o] = rows.events[b][o] + Domain!EventRows(b)[o]
    BY <1>2
  <2>2. Domain!EventRows(b)[o] = Held(o, b)
    BY <1>1, EventsAre
  <2> QED
    BY <1>1, <2>1, <2>2 DEF EventsPending
<1>6. \A o \in Domain!Origins : rows'.events[Stranger][o] = 0
  <2> TAKE o \in Domain!Origins
  <2>1. rows'.events[Stranger][o] = rows.events[Stranger][o] + Domain!EventRows(Stranger)[o]
    BY <1>2
  <2>2. Domain!EventRows(Stranger)[o] = 0 /\ rows.events[Stranger][o] = 0
    BY <1>1, NoForeignEvents DEF EventsPending
  <2> QED
    BY <2>1, <2>2
<1>7. DomainTypes'
  <2>1. blockLogs' \in Seq(BlockLogs)
    BY <1>1
  <2>2. stores' \in [streams' -> SUBSET Baskets]
    BY <1>1, StoresAre
  <2>3. rows'.baskets \in [Baskets -> [created : BOOLEAN, buys : Nat, sells : Nat]]
    BY <1>2, <1>4
  <2>4. rows'.events \in [Baskets \cup {Stranger} -> [Domain!Origins -> Nat]]
    <3>1. \A b \in Baskets \cup {Stranger}, o \in Domain!Origins : rows'.events[b][o] \in Nat
      BY <1>1, <1>5, <1>6 DEF DomainTypes
    <3> QED
      BY <1>2, <3>1
  <2>5. rows'.auction \in AuctionRows
    BY <1>1, <1>2 DEF AuctionPending, DomainTypes
  <2> QED
    BY <1>1, <2>1, <2>2, <2>3, <2>4, <2>5 DEF DomainTypes
<1>8. LaunchFits'
  <2>1. \A b \in Baskets : b \in registered' <=> Created(b)' \/ Registers(b)'
    BY <1>1, <1>4, HeldNone
  <2>2. \A s \in streams' : s.tokens => stores'[s] = {b \in Baskets : Created(b)'}
    <3>1. registered \subseteq Baskets
      BY <1>1 DEF DomainTypes
    <3> QED
      BY <1>1, <1>4, <3>1, StoresAre
  <2>3. \A b \in Baskets : traded'[b] # Domain!NoTrades => b \in launched'
    BY <1>1 DEF LaunchFits
  <2>4. DOMAIN blockLogs' = {}
    BY <1>1
  <2> QED
    BY <1>1, <2>1, <2>2, <2>3, <2>4 DEF LaunchFits
<1>9. TradesPending'
  <2>1. \A b \in Baskets :
            /\ traded'[b].buys = rows'.baskets[b].buys + Held("buys", b)'
            /\ traded'[b].sells = rows'.baskets[b].sells + Held("sells", b)'
    <3> TAKE b \in Baskets
    <3>1. Held("buys", b)' = 0 /\ Held("sells", b)' = 0
      BY <1>1, HeldNone
    <3>2. traded[b].buys \in Nat /\ traded[b].sells \in Nat
      BY <1>1 DEF DomainTypes
    <3>3. rows'.baskets[b].buys = traded[b].buys /\ rows'.baskets[b].sells = traded[b].sells
      BY <1>4
    <3>4. traded'[b].buys = traded[b].buys + 0 /\ traded'[b].sells = traded[b].sells + 0
      BY <1>1, <3>2
    <3> QED
      BY <3>1, <3>3, <3>4
  <2> QED
    BY <2>1 DEF TradesPending
<1>10. EventsPending'
  <2>1. \A b \in Baskets, o \in Domain!Origins : emitted'[b][o] = rows'.events[b][o] + Held(o, b)'
    <3>1. \A b \in Baskets, o \in Domain!Origins : Held(o, b)' = 0 /\ emitted[b][o] \in Nat
      BY <1>1, HeldNone DEF DomainTypes
    <3> QED
      BY <1>1, <1>5, <3>1
  <2> QED
    BY <1>1, <1>6, <2>1 DEF EventsPending
<1>11. AuctionPending'
  <2>1. rows'.auction = auction /\ auction \in AuctionRows
    BY <1>1, <1>2 DEF AuctionPending, DomainTypes
  <2>2. (Domain!AuctionAfter(rows.auction))' = auction
    <3>1. PICK row \in AuctionRows : row = auction
      BY <2>1
    <3>2. (Domain!AuctionAfter(row))' = row
      BY <1>1, AuctionAfterNone
    <3>3. (Domain!AuctionAfter(rows.auction))' = (Domain!AuctionAfter(row))'
      BY <2>1, <3>1 DEF Domain!AuctionAfter, Domain!AuctionRow, Domain!StatusAfter, Domain!BidRows
    <3> QED
      BY <3>1, <3>2, <3>3
  <2>3. rows'.results \cup Domain!Results' = Settled(auction)
    BY <1>1, <1>2, HeldNone DEF AuctionPending
  <2> QED
    BY <1>1, <2>2, <2>3 DEF AuctionPending
<1> QED
  BY <1>7, <1>8, <1>9, <1>10, <1>11 DEF DomainInv

LEMMA InitDomain ==
  Domain!Init => DomainInv
<1> SUFFICES ASSUME Domain!Init PROVE DomainInv
  OBVIOUS
<1>1. /\ streams \in MCAssemblies /\ launched = {} /\ registered = {}
      /\ traded = [b \in Baskets |-> Domain!NoTrades]
      /\ emitted = [b \in Baskets \cup {Stranger} |-> Domain!NoEvents]
      /\ auction = Domain!NoAuction /\ blockLogs = <<>>
      /\ stores = [s \in streams |-> {}]
      /\ rows.baskets = [b \in Baskets |-> [created |-> FALSE, buys |-> 0, sells |-> 0]]
      /\ rows.events = [b \in Baskets \cup {Stranger} |-> Domain!NoEvents]
      /\ rows.auction = Domain!NoAuction /\ rows.results = {}
  BY DEF Domain!Init, Domain!Contracts
<1>2. /\ \A k, b : Held(k, b) = 0 /\ At(k, b) = {}
      /\ \A b : ~Registers(b)
      /\ Domain!Results = {}
  <2>1. \A k, b : At(k, b) = {}
    BY <1>1 DEF At
  <2>2. \A k, b : Held(k, b) = 0
    BY <2>1, FS_EmptySet DEF Held
  <2>3. Domain!Results = {}
    BY <1>1 DEF Domain!Results, Domain!OfKind
  <2> QED
    BY <2>1, <2>2, <2>3 DEF Registers
<1>3. Domain!NoAuction \in AuctionRows
  BY DEF Domain!NoAuction, AuctionRows, Statuses
<1>4. DomainTypes
  <2>1. blockLogs \in Seq(BlockLogs)
    BY <1>1
  <2> QED
    BY <1>1, <1>3, <2>1 DEF DomainTypes, Domain!NoTrades, Domain!NoEvents
<1>5. LaunchFits
  BY <1>1, <1>2 DEF LaunchFits, Created
<1>6. TradesPending
  BY <1>1, <1>2 DEF TradesPending, Domain!NoTrades
<1>7. EventsPending
  BY <1>1, <1>2 DEF EventsPending, Domain!NoEvents
<1>8. AuctionPending
  <2>1. PICK q, row : q = blockLogs /\ row = Domain!NoAuction
    OBVIOUS
  <2>2. q \in Seq(BlockLogs) /\ Len(q) = 0 /\ row \in AuctionRows
    BY <1>1, <1>3, <2>1
  <2>3. PICK g : AuctionRun(g, q, row) /\ Domain!AuctionAfter(row) = g[Len(q)]
    BY <2>1, <2>2, AuctionAfterRun
  <2>4. Domain!AuctionAfter(rows.auction) = auction
    BY <1>1, <2>1, <2>2, <2>3 DEF AuctionRun
  <2> QED
    BY <1>1, <1>2, <2>4 DEF AuctionPending, Settled, Domain!NoAuction
<1> QED
  BY <1>4, <1>5, <1>6, <1>7, <1>8 DEF DomainInv

LEMMA NextDomain ==
  ASSUME DomainInv, [Domain!Next]_domainVars
  PROVE  DomainInv'
<1>1. CASE Domain!Next
  <2>1. ASSUME NEW b \in Baskets, Domain!Register(b) PROVE DomainInv'
    BY <2>1, RegisterStep
  <2>2. ASSUME NEW b \in Baskets, NEW side \in {"buys", "sells"}, Domain!Trade(b, side) PROVE DomainInv'
    BY <2>2, TradeStep
  <2>3. ASSUME NEW b \in Baskets, NEW origin \in Domain!Origins, Domain!BasketEvent(b, origin) PROVE DomainInv'
    BY <2>3, BasketEventStep
  <2>4. CASE Domain!ForeignEvent
    BY <2>4, ForeignEventStep
  <2>5. ASSUME NEW who \in Bidders, NEW bid \in 1..MaxBid, Domain!CreateAuction(who, bid) PROVE DomainInv'
    BY <2>5, CreateAuctionStep
  <2>6. ASSUME NEW who \in Bidders, NEW bid \in 1..MaxBid, Domain!PlaceBid(who, bid) PROVE DomainInv'
    BY <2>6, PlaceBidStep
  <2>7. CASE Domain!Settle
    BY <2>7, SettleStep
  <2>8. ASSUME NEW kind \in Domain!Moves, Domain!MoveFunds(kind) PROVE DomainInv'
    BY <2>8, MoveFundsStep
  <2>9. CASE Domain!EndBlock
    BY <2>9, EndBlockStep
  <2> QED
    BY <1>1, <2>1, <2>2, <2>3, <2>4, <2>5, <2>6, <2>7, <2>8, <2>9 DEF Domain!Next
<1>2. CASE UNCHANGED domainVars
  <2>1. /\ streams' = streams /\ launched' = launched /\ registered' = registered /\ traded' = traded
        /\ emitted' = emitted /\ auction' = auction /\ blockLogs' = blockLogs
        /\ stores' = stores /\ rows' = rows
    BY <1>2 DEF domainVars
  <2>2. DomainTypes' /\ LaunchFits'
    BY <2>1 DEF DomainInv, DomainTypes, LaunchFits, Created, Registers, At
  <2>4. \A k, b : Held(k, b)' = Held(k, b)
    BY <2>1 DEF Held, At
  <2>5. TradesPending'
    BY <2>1, <2>4 DEF DomainInv, TradesPending
  <2>6. EventsPending'
    BY <2>1, <2>4 DEF DomainInv, EventsPending
  <2>3. AuctionPending'
    BY <2>1 DEF DomainInv, AuctionPending, Domain!Results, Domain!OfKind, Domain!AuctionAfter
  <2> QED
    BY <2>2, <2>3, <2>5, <2>6 DEF DomainInv
<1> QED
  BY <1>1, <1>2

\* When the block has ended nothing is held back.
LEMMA DomainFollows ==
  ASSUME DomainInv
  PROVE  TradesCountedOnce /\ EventsAndAuctionFollow
<1> SUFFICES ASSUME blockLogs = <<>>
             PROVE  /\ \A b \in Baskets :
                           /\ rows.baskets[b].buys = traded[b].buys
                           /\ rows.baskets[b].sells = traded[b].sells
                           /\ traded[b] # Domain!NoTrades => rows.baskets[b].created
                    /\ rows.events = emitted
                    /\ rows.auction = auction
                    /\ rows.results = Settled(auction)
  BY DEF TradesCountedOnce, EventsAndAuctionFollow, Domain!TradesCountedOnce,
         Domain!EventsAndAuctionFollow, Domain!Finished, Settled
<1>1. DomainTypes /\ LaunchFits /\ TradesPending /\ EventsPending /\ AuctionPending
  BY DEF DomainInv
<1>2. /\ \A k, b : Held(k, b) = 0
      /\ \A b : ~Registers(b)
      /\ Domain!Results = {}
  <2>1. \A k, b : At(k, b) = {}
    BY DEF At
  <2>2. \A k, b : Held(k, b) = 0
    BY <2>1, FS_EmptySet DEF Held
  <2>3. Domain!Results = {}
    BY DEF Domain!Results, Domain!OfKind
  <2> QED
    BY <2>1, <2>2, <2>3 DEF Registers
<1>3. ASSUME NEW b \in Baskets
      PROVE  /\ rows.baskets[b].buys = traded[b].buys
             /\ rows.baskets[b].sells = traded[b].sells
             /\ traded[b] # Domain!NoTrades => rows.baskets[b].created
  <2>1. rows.baskets[b].buys \in Nat /\ rows.baskets[b].sells \in Nat
    BY <1>1 DEF DomainTypes
  <2>2. /\ traded[b].buys = rows.baskets[b].buys + Held("buys", b)
        /\ traded[b].sells = rows.baskets[b].sells + Held("sells", b)
    BY <1>1 DEF TradesPending
  <2>3. traded[b] # Domain!NoTrades => Created(b)
    BY <1>1, <1>2 DEF LaunchFits
  <2>4. Held("buys", b) = 0 /\ Held("sells", b) = 0
    BY <1>2
  <2> QED
    BY <2>1, <2>2, <2>3, <2>4 DEF Created
<1>4. rows.events = emitted
  <2>1. \A b \in Baskets \cup {Stranger}, o \in Domain!Origins : rows.events[b][o] = emitted[b][o]
    <3> TAKE b \in Baskets \cup {Stranger}, o \in Domain!Origins
    <3>1. CASE b \in Baskets
      <4>1. emitted[b][o] = rows.events[b][o] + Held(o, b) /\ Held(o, b) = 0 /\ rows.events[b][o] \in Nat
        BY <1>1, <1>2, <3>1 DEF EventsPending, DomainTypes
      <4> QED
        BY <4>1
    <3>2. CASE b = Stranger
      BY <1>1, <3>2 DEF EventsPending
    <3> QED
      BY <3>1, <3>2
  <2>2. \A b \in Baskets \cup {Stranger} : rows.events[b] = emitted[b]
    BY <1>1, <2>1 DEF DomainTypes
  <2> QED
    BY <1>1, <2>2 DEF DomainTypes
<1>5. rows.auction = auction
  <2>1. PICK q, row : q = blockLogs /\ row = rows.auction
    OBVIOUS
  <2>2. q \in Seq(BlockLogs) /\ Len(q) = 0 /\ row \in AuctionRows
    BY <1>1, <2>1 DEF DomainTypes
  <2>3. PICK g : AuctionRun(g, q, row) /\ Domain!AuctionAfter(row) = g[Len(q)]
    BY <2>1, <2>2, AuctionAfterRun
  <2> QED
    BY <1>1, <2>1, <2>2, <2>3 DEF AuctionRun, AuctionPending
<1>6. rows.results = Settled(auction)
  BY <1>1, <1>2 DEF AuctionPending
<1> QED
  BY <1>3, <1>4, <1>5, <1>6

-----------------------------------------------------------------------------
LEMMA InvariantsHold ==
  TradesSpec => [](ReceiptInv /\ DomainInv)
<1>1. TradesInit => ReceiptInv /\ DomainInv
  BY InitReceipt, InitDomain DEF TradesInit
<1>2. ReceiptInv /\ DomainInv /\ [TradesNext]_<<part, vars, domainVars>> => (ReceiptInv /\ DomainInv)'
  <2> SUFFICES ASSUME ReceiptInv, DomainInv, [TradesNext]_<<part, vars, domainVars>>
               PROVE  ReceiptInv' /\ DomainInv'
    OBVIOUS
  <2>1. [Next]_vars /\ [Domain!Next]_domainVars
    BY DEF TradesNext
  <2> QED
    BY <2>1, NextReceipt, NextDomain
<1> QED
  BY <1>1, <1>2, PTL DEF TradesSpec

\* Where every trade has its two logs, the maps give every hook log the log
\* of its own trade: take_pool_swap and take_router_trade if no fee follows
\* its swap, matching_swap also if it does, and it gives none where a swap of
\* the pool has no fee.
THEOREM LogsAlwaysMatched == TradesSpec => []MatchesTruly
<1>1. ReceiptInv => MatchesTruly
  BY MatchTruly
<1> QED
  BY <1>1, InvariantsHold, PTL

\* No router log is the terms of two basket trades, however many logs of a
\* key come alone.
THEOREM RouterLogsAlwaysSpentOnce == TradesSpec => []RouterLogsSpentOnce
<1>1. ReceiptInv => RouterLogsSpentOnce
  BY SpentOnce
<1> QED
  BY <1>1, InvariantsHold, PTL

\* The counts of a basket's row are its trades, each counted once, whichever
\* of the packages' streams are merged, also in the block that launches it.
THEOREM TradesAlwaysCountedOnce == TradesSpec => []TradesCountedOnce
<1>1. DomainInv => TradesCountedOnce
  BY DomainFollows
<1> QED
  BY <1>1, InvariantsHold, PTL

\* Every event of a basket has its row and no other contract has one; the
\* auction's rows are the auction, with every bid and the winner's result.
THEOREM EventsAndAuctionAlwaysFollow == TradesSpec => []EventsAndAuctionFollow
<1>1. DomainInv => EventsAndAuctionFollow
  BY DomainFollows
<1> QED
  BY <1>1, InvariantsHold, PTL

-----------------------------------------------------------------------------
(***************************************************************************)
(* What was written last: the last position of a set, and the value of a   *)
(* field that changes at no other position.                                *)
(***************************************************************************)
LastIn(n, S) == n \in S /\ \A m \in S : m <= n

LEMMA LastAmong ==
  ASSUME NEW L \in Nat, NEW S, S \subseteq 1..L
  PROVE  /\ S # {} => LastIn(Max(S), S)
         /\ \A n : LastIn(n, S) => S # {} /\ n = Max(S)
<1>1. S # {} => Max(S) \in S /\ \A m \in S : m <= Max(S)
  BY GreatestPosition
<1>2. \A m, n \in S : m <= n /\ n <= m => m = n
  OBVIOUS
<1> QED
  BY <1>1, <1>2 DEF LastIn

\* After m, where nothing changes any more, the value stays that of m.
LEMMA StaysFrom ==
  ASSUME NEW L \in Nat, NEW h, NEW m \in 0..L, \A n \in (m + 1)..L : h[n] = h[n - 1]
  PROVE  h[L] = h[m]
<1> DEFINE Bad == {n \in m..L : h[n] # h[m]}
<1> SUFFICES ASSUME Bad # {} PROVE FALSE
  OBVIOUS
<1>1. PICK n \in Bad : \A k \in Bad : n <= k
  <2>1. Bad \subseteq Nat
    OBVIOUS
  <2> HIDE DEF Bad
  <2> QED
    BY <2>1, LeastNumber
<1>2. n \in m..L /\ h[n] # h[m] /\ n # m
  BY <1>1
<1>3. n \in (m + 1)..L /\ n - 1 \in m..L /\ ~ (n <= n - 1)
  BY <1>2
<1>4. n - 1 \notin Bad
  BY <1>1, <1>3
<1> QED
  BY <1>2, <1>3, <1>4

LEMMA LastChange ==
  ASSUME NEW L \in Nat, NEW h, NEW T, T \subseteq 1..L,
         \A n \in 1..L : n \notin T => h[n] = h[n - 1]
  PROVE  /\ T = {} => h[L] = h[0]
         /\ \A m : LastIn(m, T) => h[L] = h[m]
<1>1. ASSUME T = {} PROVE h[L] = h[0]
  <2>1. \A n \in (0 + 1)..L : h[n] = h[n - 1]
    BY <1>1
  <2> QED
    BY <2>1, StaysFrom
<1>2. ASSUME NEW m, LastIn(m, T) PROVE h[L] = h[m]
  <2>1. m \in 0..L /\ m \in 1..L
    BY <1>2 DEF LastIn
  <2>2. ASSUME NEW n \in (m + 1)..L PROVE h[n] = h[n - 1]
    <3>1. n \in 1..L /\ ~ (n <= m)
      BY <2>1
    <3> QED
      BY <1>2, <3>1 DEF LastIn
  <2> QED
    BY <2>1, <2>2, StaysFrom
<1> QED
  BY <1>1, <1>2

\* Positions of two parts, the second behind k positions of the first.
Both(k, S, T) == S \cup {k + n : n \in T}

\* The last position of the two parts is the last of the second, if it has one.
LastsOfBoth(k, L, S, T, R) ==
    /\ R = {} <=> S = {} /\ T = {}
    /\ \A n : LastIn(n, T) => LastIn(k + n, R)
    /\ T = {} => \A n : LastIn(n, R) <=> LastIn(n, S)
    /\ T # {} => \A n : LastIn(n, R) => n - k \in 1..L /\ LastIn(n - k, T) /\ k + (n - k) = n

LEMMA LastOfBoth ==
  ASSUME NEW k \in Nat, NEW L \in Nat, NEW S, S \subseteq 1..k, NEW T, T \subseteq 1..L,
         NEW R, R = Both(k, S, T)
  PROVE  LastsOfBoth(k, L, S, T, R)
<1>1. \A n \in T : n \in 1..L /\ k + n \in R
  BY DEF Both
<1>2. \A r \in R : r \in 1..k \/ \E n \in T : r = k + n
  BY DEF Both
<1>3. ASSUME NEW n, LastIn(n, T) PROVE LastIn(k + n, R)
  <2>1. n \in T /\ n \in 1..L
    BY <1>3 DEF LastIn
  <2>2. ASSUME NEW r \in R PROVE r <= k + n
    <3>1. CASE r \in 1..k
      BY <2>1, <3>1
    <3>2. CASE \E m \in T : r = k + m
      <4>1. PICK m \in T : r = k + m
        BY <3>2
      <4>2. m <= n /\ m \in 1..L
        BY <1>3, <1>1 DEF LastIn
      <4> QED
        BY <2>1, <4>1, <4>2
    <3> QED
      BY <1>2, <3>1, <3>2
  <2> QED
    BY <1>1, <2>1, <2>2 DEF LastIn
<1>4. ASSUME T # {}, NEW n, LastIn(n, R) PROVE n - k \in 1..L /\ LastIn(n - k, T) /\ k + (n - k) = n
  <2>1. PICK t \in T : TRUE
    BY <1>4
  <2>2. k + t <= n /\ n \in R /\ t \in 1..L
    BY <1>1, <1>4 DEF LastIn
  <2>3. n \notin 1..k
    BY <2>2
  <2>4. PICK m \in T : n = k + m
    BY <1>2, <2>2, <2>3
  <2>5. m \in 1..L /\ n - k = m
    BY <1>1, <2>4
  <2>6. ASSUME NEW j \in T PROVE j <= m
    <3>1. k + j <= k + m /\ j \in 1..L
      BY <1>1, <1>4, <2>4 DEF LastIn
    <3> QED
      BY <2>5, <3>1
  <2> QED
    BY <2>4, <2>5, <2>6 DEF LastIn
<1>5. T = {} => R = S
  BY DEF Both
<1>6. R = {} <=> S = {} /\ T = {}
  BY DEF Both
<1>7. T = {} => \A n : LastIn(n, R) <=> LastIn(n, S)
  BY <1>5
<1>8. \A n : LastIn(n, T) => LastIn(k + n, R)
  BY <1>3
<1>9. T # {} => \A n : LastIn(n, R) => n - k \in 1..L /\ LastIn(n - k, T) /\ k + (n - k) = n
  BY <1>4
<1> QED
  BY <1>6, <1>7, <1>8, <1>9 DEF LastsOfBoth

-----------------------------------------------------------------------------
(***************************************************************************)
(* The registries.  An entry is there as its last log of the open block    *)
(* says or, if it has none, as its row does; and likewise its data.        *)
(***************************************************************************)
RegistryLogs == [kind : {"SET", "ADDED", "REPLACED", "REMOVED"}, slot : Registry!Slots, data : Nat]
RegistryRows == [active : BOOLEAN, data : Nat]

RegistryTypes ==
    /\ entries \in [Registry!Slots -> Nat]
    /\ last \in [Registry!Slots -> Nat]
    /\ registryLength \in Nat
    /\ registryLogs \in Seq(RegistryLogs)
    /\ registryRows \in [Registry!Slots -> RegistryRows]

LogsFor(s) == {n \in DOMAIN registryLogs : registryLogs[n].slot = s}
PutsFor(s) == {n \in LogsFor(s) : registryLogs[n].kind # "REMOVED"}

RegistryPending ==
    \A s \in Registry!Slots :
        /\ LogsFor(s) = {} => registryRows[s].active = (entries[s] # 0)
        /\ \A n : LastIn(n, LogsFor(s)) => (entries[s] # 0 <=> registryLogs[n].kind # "REMOVED")
        /\ PutsFor(s) = {} => registryRows[s].data = last[s]
        /\ \A n : LastIn(n, PutsFor(s)) => last[s] = registryLogs[n].data

RegistryInv == RegistryTypes /\ RegistryPending

\* A position behind all of a set is its last when added.
LEMMA LastAppended ==
  ASSUME NEW L \in Nat, NEW S, S \subseteq 1..L
  PROVE  \A n : LastIn(n, S \cup {L + 1}) <=> n = L + 1
<1>1. \A m \in S : m <= L + 1 /\ ~ (L + 1 <= m)
  OBVIOUS
<1>2. LastIn(L + 1, S \cup {L + 1})
  BY <1>1 DEF LastIn
<1>3. ASSUME NEW n, LastIn(n, S \cup {L + 1}) PROVE n = L + 1
  BY <1>1, <1>3 DEF LastIn
<1> QED
  BY <1>2, <1>3

LEMMA RegistryEmitStep ==
  ASSUME RegistryInv, NEW kind \in {"SET", "ADDED", "REPLACED", "REMOVED"}, NEW slot \in Registry!Slots,
         Registry!Emit(kind, slot),
         entries' = [entries EXCEPT ![slot] = IF kind = "REMOVED" THEN 0 ELSE Registry!Place],
         last' = IF kind = "REMOVED" THEN last ELSE [last EXCEPT ![slot] = Registry!Place]
  PROVE  RegistryInv'
<1>1. PICK L \in Nat : L = Len(registryLogs)
  BY DEF RegistryInv, RegistryTypes
<1>2. PICK place \in Nat \ {0} : place = Registry!Place
  BY DEF RegistryInv, RegistryTypes, Registry!Place
<1>3. PICK log \in RegistryLogs : log = [kind |-> kind, slot |-> slot, data |-> place]
  BY DEF RegistryLogs
<1>4. /\ registryLogs' = Append(registryLogs, log)
      /\ registryLength' = registryLength /\ registryRows' = registryRows
  BY <1>2, <1>3 DEF Registry!Emit
<1>5. /\ registryLogs \in Seq(RegistryLogs) /\ DOMAIN registryLogs = 1..L
      /\ registryLogs' \in Seq(RegistryLogs) /\ DOMAIN registryLogs' = 1..(L + 1)
      /\ registryLogs'[L + 1] = log /\ \A n \in 1..L : registryLogs'[n] = registryLogs[n]
  BY <1>1, <1>4 DEF RegistryInv, RegistryTypes
<1>6. /\ entries' = [entries EXCEPT ![slot] = IF kind = "REMOVED" THEN 0 ELSE place]
      /\ last' = IF kind = "REMOVED" THEN last ELSE [last EXCEPT ![slot] = place]
      /\ entries \in [Registry!Slots -> Nat] /\ last \in [Registry!Slots -> Nat]
  BY <1>2 DEF RegistryInv, RegistryTypes
<1>7. RegistryTypes'
  <2>1. entries' \in [Registry!Slots -> Nat] /\ last' \in [Registry!Slots -> Nat]
    BY <1>6
  <2> QED
    BY <1>4, <1>5, <2>1 DEF RegistryInv, RegistryTypes, Registry!Slots
<1>8. ASSUME NEW s \in Registry!Slots
      PROVE  /\ LogsFor(s)' = {} => registryRows'[s].active = (entries'[s] # 0)
             /\ \A n : LastIn(n, LogsFor(s)') => (entries'[s] # 0 <=> registryLogs'[n].kind # "REMOVED")
             /\ PutsFor(s)' = {} => registryRows'[s].data = last'[s]
             /\ \A n : LastIn(n, PutsFor(s)') => last'[s] = registryLogs'[n].data
  <2>0. /\ LogsFor(s) = {} => registryRows[s].active = (entries[s] # 0)
        /\ \A n : LastIn(n, LogsFor(s)) => (entries[s] # 0 <=> registryLogs[n].kind # "REMOVED")
        /\ PutsFor(s) = {} => registryRows[s].data = last[s]
        /\ \A n : LastIn(n, PutsFor(s)) => last[s] = registryLogs[n].data
    BY DEF RegistryInv, RegistryPending
  <2>1. PICK S, P : S = LogsFor(s) /\ P = PutsFor(s)
    OBVIOUS
  <2>2. /\ S \subseteq 1..L /\ P \subseteq S
        /\ \A n \in 1..L : registryLogs'[n] = registryLogs[n]
    BY <1>5, <2>1 DEF LogsFor, PutsFor
  <2>3. /\ \A n : LastIn(n, S \cup {L + 1}) <=> n = L + 1
        /\ \A n : LastIn(n, P \cup {L + 1}) <=> n = L + 1
    BY <2>2, LastAppended
  <2>4. \A n : (LastIn(n, S) \/ LastIn(n, P)) => n \in 1..L
    BY <2>2 DEF LastIn
  <2>5. CASE s # slot
    <3>1. LogsFor(s)' = S /\ PutsFor(s)' = P
      BY <1>3, <1>5, <2>1, <2>5 DEF LogsFor, PutsFor
    <3>2. entries'[s] = entries[s] /\ last'[s] = last[s]
      BY <1>6, <2>5
    <3> QED
      BY <1>4, <2>0, <2>1, <2>2, <2>4, <3>1, <3>2
  <2>6. CASE s = slot
    <3>1. LogsFor(s)' = S \cup {L + 1}
      BY <1>3, <1>5, <2>1, <2>6 DEF LogsFor
    <3>2. entries'[s] # 0 <=> kind # "REMOVED"
      BY <1>6, <2>6
    <3>3. \A n : LastIn(n, LogsFor(s)') => (entries'[s] # 0 <=> registryLogs'[n].kind # "REMOVED")
      BY <1>3, <1>5, <2>3, <3>1, <3>2
    <3>4. CASE kind = "REMOVED"
      <4>1. PutsFor(s)' = P
        BY <1>3, <1>5, <2>1, <2>2, <3>1, <3>4 DEF LogsFor, PutsFor
      <4>2. last'[s] = last[s]
        BY <1>6, <3>4
      <4> QED
        BY <1>4, <2>0, <2>1, <2>2, <2>4, <3>1, <3>3, <4>1, <4>2
    <3>5. CASE kind # "REMOVED"
      <4>1. PutsFor(s)' = P \cup {L + 1}
        BY <1>3, <1>5, <2>1, <2>2, <3>1, <3>5 DEF LogsFor, PutsFor
      <4>2. last'[s] = place
        BY <1>6, <2>6, <3>5
      <4>3. registryLogs'[L + 1].data = place
        BY <1>3, <1>5
      <4> QED
        BY <2>3, <3>1, <3>3, <4>1, <4>2, <4>3
    <3> QED
      BY <3>4, <3>5
  <2> QED
    BY <2>5, <2>6
<1>9. RegistryPending'
  BY <1>8 DEF RegistryPending, LastIn, Registry!Slots
<1> QED
  BY <1>7, <1>9 DEF RegistryInv

\* RowAfter writes the logs of the slot one after the other.
LEMMA RowAfterSteps ==
  ASSUME RegistryTypes, NEW s \in Registry!Slots
  PROVE  \E g \in [0..Len(registryLogs) -> RegistryRows] :
            /\ g[0] = registryRows[s]
            /\ \A n \in 1..Len(registryLogs) :
                  g[n] = IF registryLogs[n].slot = s THEN Registry!Write(g[n - 1], registryLogs[n]) ELSE g[n - 1]
            /\ Registry!RowAfter(s) = g[Len(registryLogs)]
<1>1. PICK L \in Nat : L = Len(registryLogs)
  BY DEF RegistryTypes
<1>2. PICK base \in RegistryRows : base = registryRows[s]
  BY DEF RegistryTypes
<1>3. PICK step : step = [x \in (1..L) \X RegistryRows |->
                             IF registryLogs[x[1]].slot = s THEN Registry!Write(x[2], registryLogs[x[1]]) ELSE x[2]]
  OBVIOUS
<1>4. \A n \in 1..L, v \in RegistryRows :
          step[<<n, v>>] = IF registryLogs[n].slot = s THEN Registry!Write(v, registryLogs[n]) ELSE v
  BY <1>3
<1>5. ASSUME NEW n \in 1..L, NEW v \in RegistryRows PROVE step[<<n, v>>] \in RegistryRows
  <2>1. registryLogs[n] \in RegistryLogs
    BY <1>1 DEF RegistryTypes
  <2>2. Registry!Write(v, registryLogs[n]) \in RegistryRows
    BY <2>1 DEF Registry!Write, RegistryRows, RegistryLogs
  <2> QED
    BY <1>4, <2>2
<1>6. PICK g \in [0..L -> RegistryRows] : StepsFrom(g, base, step, L)
  BY <1>5, StepsExist
<1>7. /\ g[0] = base
      /\ \A n \in 1..L :
            g[n] = IF registryLogs[n].slot = s THEN Registry!Write(g[n - 1], registryLogs[n]) ELSE g[n - 1]
  <2>1. \A n \in 1..L : n - 1 \in 0..L
    OBVIOUS
  <2> QED
    BY <1>4, <1>6, <2>1 DEF StepsFrom
<1> DEFINE Solves(f) == f = [n \in 0..L |-> IF n = 0 THEN base
                                ELSE IF registryLogs[n].slot = s THEN Registry!Write(f[n - 1], registryLogs[n])
                                ELSE f[n - 1]]
<1>8. Solves(g)
  <2>1. \A n \in 0..L : n = 0 \/ n \in 1..L
    OBVIOUS
  <2>2. \A n \in 0..L : g[n] = IF n = 0 THEN base
                                ELSE IF registryLogs[n].slot = s THEN Registry!Write(g[n - 1], registryLogs[n])
                                ELSE g[n - 1]
    BY <1>7, <2>1
  <2> QED
    BY <2>2
<1>9. PICK f : Solves(f) /\ Registry!RowAfter(s) = f[L]
  <2>1. Registry!RowAfter(s) = (CHOOSE f : Solves(f))[L]
    BY <1>1, <1>2 DEF Registry!RowAfter
  <2> HIDE DEF Solves
  <2> QED
    BY <1>8, <2>1
<1> DEFINE Differ == {n \in 0..L : f[n] # g[n]}
<1>10. Differ = {}
  <2> SUFFICES ASSUME Differ # {} PROVE FALSE
    OBVIOUS
  <2>1. PICK n \in Differ : \A k \in Differ : n <= k
    <3>1. Differ \subseteq Nat
      OBVIOUS
    <3> HIDE DEF Differ
    <3> QED
      BY <3>1, LeastNumber
  <2>2. n # 0
    BY <1>7, <1>9, <2>1
  <2>3. n \in 1..L /\ n - 1 \in 0..L /\ ~ (n <= n - 1)
    BY <2>1, <2>2
  <2>4. f[n - 1] = g[n - 1]
    BY <2>1, <2>3
  <2> QED
    BY <1>7, <1>9, <2>1, <2>2, <2>3, <2>4
<1>11. f[L] = g[L]
  BY <1>10
<1> QED
  BY <1>1, <1>2, <1>6, <1>7, <1>9, <1>11

LEMMA RegistryEndBlockStep ==
  ASSUME RegistryInv, Registry!EndBlock
  PROVE  RegistryInv'
<1>1. PICK L \in Nat : L = Len(registryLogs)
  BY DEF RegistryInv, RegistryTypes
<1>2. /\ registryRows' = [s \in Registry!Slots |-> Registry!RowAfter(s)]
      /\ registryLength' = registryLength + L /\ registryLogs' = <<>>
      /\ entries' = entries /\ last' = last
      /\ registryLogs \in Seq(RegistryLogs) /\ DOMAIN registryLogs = 1..L
      /\ entries \in [Registry!Slots -> Nat] /\ last \in [Registry!Slots -> Nat]
  BY <1>1 DEF Registry!EndBlock, RegistryInv, RegistryTypes
<1>3. ASSUME NEW s \in Registry!Slots
      PROVE  registryRows'[s] \in RegistryRows
             /\ registryRows'[s].active = (entries[s] # 0)
             /\ registryRows'[s].data = last[s]
  <2>1. PICK g \in [0..L -> RegistryRows] :
            /\ g[0] = registryRows[s]
            /\ \A n \in 1..L :
                  g[n] = IF registryLogs[n].slot = s THEN Registry!Write(g[n - 1], registryLogs[n]) ELSE g[n - 1]
            /\ Registry!RowAfter(s) = g[L]
    BY <1>1, RowAfterSteps DEF RegistryInv
  <2>2. registryRows'[s] = g[L] /\ g[L] \in RegistryRows
    BY <1>2, <2>1
  <2>3. /\ LogsFor(s) = {} => g[0].active = (entries[s] # 0)
        /\ \A n : LastIn(n, LogsFor(s)) => (entries[s] # 0 <=> registryLogs[n].kind # "REMOVED")
        /\ PutsFor(s) = {} => g[0].data = last[s]
        /\ \A n : LastIn(n, PutsFor(s)) => last[s] = registryLogs[n].data
    BY <2>1 DEF RegistryInv, RegistryPending
  <2>4. PICK S, P : S = LogsFor(s) /\ P = PutsFor(s)
    OBVIOUS
  <2>5. /\ S \subseteq 1..L /\ P \subseteq S
        /\ \A n \in 1..L : /\ n \in S <=> registryLogs[n].slot = s
                           /\ n \in P <=> registryLogs[n].slot = s /\ registryLogs[n].kind # "REMOVED"
    BY <1>2, <2>4 DEF LogsFor, PutsFor
  <2>6. \A n \in 1..L : n - 1 \in 0..L /\ n \in 0..L /\ g[n - 1] \in RegistryRows
    BY <2>1
  <2>7. /\ \A n \in 1..L : n \in S => g[n].active = (registryLogs[n].kind # "REMOVED")
        /\ \A n \in 1..L : n \notin S => g[n].active = g[n - 1].active
        /\ \A n \in 1..L : n \in P => g[n].data = registryLogs[n].data
        /\ \A n \in 1..L : n \notin P => g[n].data = g[n - 1].data
    <3> SUFFICES ASSUME NEW n \in 1..L
                 PROVE  /\ n \in S => g[n].active = (registryLogs[n].kind # "REMOVED")
                        /\ n \notin S => g[n].active = g[n - 1].active
                        /\ n \in P => g[n].data = registryLogs[n].data
                        /\ n \notin P => g[n].data = g[n - 1].data
      OBVIOUS
    <3>1. PICK v \in RegistryRows : v = g[n - 1]
      BY <2>6
    <3>2. CASE n \notin S
      <4>1. g[n] = g[n - 1] /\ n \notin P
        BY <2>1, <2>5, <3>2
      <4> QED
        BY <3>2, <4>1
    <3>3. CASE n \in S /\ registryLogs[n].kind = "REMOVED"
      <4>1. g[n] = [v EXCEPT !.active = FALSE] /\ n \notin P
        BY <2>1, <2>5, <3>1, <3>3 DEF Registry!Write
      <4>2. g[n].active = FALSE /\ g[n].data = v.data
        BY <4>1 DEF RegistryRows
      <4> QED
        BY <3>1, <3>3, <4>1, <4>2
    <3>4. CASE n \in S /\ registryLogs[n].kind # "REMOVED"
      <4>1. g[n] = [active |-> TRUE, data |-> registryLogs[n].data] /\ n \in P
        BY <2>1, <2>5, <3>4 DEF Registry!Write
      <4>2. g[n].active = TRUE /\ g[n].data = registryLogs[n].data
        BY <4>1
      <4>3. (registryLogs[n].kind # "REMOVED") = TRUE
        BY <3>4
      <4> QED
        BY <3>4, <4>1, <4>2, <4>3
    <3> QED
      BY <3>2, <3>3, <3>4
  <2>8. PICK active : active = [n \in 0..L |-> g[n].active]
    OBVIOUS
  <2>9. PICK data : data = [n \in 0..L |-> g[n].data]
    OBVIOUS
  <2>10. active[L] = (entries[s] # 0)
    <3>1. \A n \in 1..L : n \notin S => active[n] = active[n - 1]
      BY <2>6, <2>7, <2>8
    <3>0. S \subseteq 1..L
      BY <2>5
    <3>2. /\ S = {} => active[L] = active[0]
          /\ \A m : LastIn(m, S) => active[L] = active[m]
      BY <3>0, <3>1, LastChange
    <3>3. CASE S = {}
      BY <2>3, <2>4, <2>8, <3>2, <3>3
    <3>4. CASE S # {}
      <4>1. PICK m : LastIn(m, S)
        BY <2>5, <3>4, LastAmong
      <4>2. m \in S /\ m \in 1..L /\ m \in 0..L
        BY <2>5, <4>1 DEF LastIn
      <4>3. active[L] = g[m].active
        BY <2>8, <3>2, <4>1, <4>2
      <4>4. g[m].active = (registryLogs[m].kind # "REMOVED")
        BY <2>7, <4>2
      <4>5. entries[s] # 0 <=> registryLogs[m].kind # "REMOVED"
        BY <2>3, <2>4, <4>1
      <4> QED
        BY <4>3, <4>4, <4>5
    <3> QED
      BY <3>3, <3>4
  <2>11. data[L] = last[s]
    <3>1. \A n \in 1..L : n \notin P => data[n] = data[n - 1]
      BY <2>6, <2>7, <2>9
    <3>0. P \subseteq 1..L
      BY <2>5
    <3>2. /\ P = {} => data[L] = data[0]
          /\ \A m : LastIn(m, P) => data[L] = data[m]
      BY <3>0, <3>1, LastChange
    <3>3. CASE P = {}
      BY <2>3, <2>4, <2>9, <3>2, <3>3
    <3>4. CASE P # {}
      <4>1. PICK m : LastIn(m, P)
        BY <3>0, <3>4, LastAmong
      <4>2. m \in P /\ m \in 1..L /\ m \in 0..L
        BY <3>0, <4>1 DEF LastIn
      <4>3. data[L] = g[m].data
        BY <2>9, <3>2, <4>1, <4>2
      <4>4. g[m].data = registryLogs[m].data
        BY <2>7, <4>2
      <4>5. last[s] = registryLogs[m].data
        BY <2>3, <2>4, <4>1
      <4> QED
        BY <4>3, <4>4, <4>5
    <3> QED
      BY <3>3, <3>4
  <2> QED
    BY <2>2, <2>8, <2>9, <2>10, <2>11
<1>4. RegistryTypes'
  <2>1. registryRows' \in [Registry!Slots -> RegistryRows]
    BY <1>2, <1>3
  <2>2. registryLogs' \in Seq(RegistryLogs) /\ registryLength' \in Nat
    BY <1>1, <1>2 DEF RegistryInv, RegistryTypes
  <2> QED
    BY <1>2, <2>1, <2>2 DEF RegistryTypes, Registry!Slots
<1>5. RegistryPending'
  <2>1. \A s : LogsFor(s)' = {} /\ PutsFor(s)' = {}
    BY <1>2 DEF LogsFor, PutsFor
  <2>2. \A n : ~ LastIn(n, {})
    BY DEF LastIn
  <2>3. \A s \in Registry!Slots :
          /\ registryRows'[s].active = (entries'[s] # 0) /\ registryRows'[s].data = last'[s]
          /\ \A n : ~ LastIn(n, LogsFor(s)') /\ ~ LastIn(n, PutsFor(s)')
    BY <1>2, <1>3, <2>1, <2>2
  <2> QED
    BY <2>3 DEF RegistryPending, LastIn, Registry!Slots
<1> QED
  BY <1>4, <1>5 DEF RegistryInv

LEMMA NextRegistry ==
  ASSUME RegistryInv, [Registry!Next]_registryVars
  PROVE  RegistryInv'
<1>1. ASSUME NEW slot \in Registry!Slots, Registry!Put(slot) PROVE RegistryInv'
  <2>1. PICK kind \in {"SET", "ADDED", "REPLACED", "REMOVED"} :
          /\ kind # "REMOVED" /\ Registry!Emit(kind, slot)
    <3>1. /\ slot[1] = "nutbox_community_fee_pools" => Registry!Emit("SET", slot)
          /\ slot[1] # "nutbox_community_fee_pools" /\ entries[slot] = 0 => Registry!Emit("ADDED", slot)
          /\ slot[1] # "nutbox_community_fee_pools" /\ entries[slot] # 0 => Registry!Emit("REPLACED", slot)
      BY <1>1 DEF Registry!Put
    <3> QED
      BY <3>1
  <2>2. /\ entries' = [entries EXCEPT ![slot] = Registry!Place]
        /\ last' = [last EXCEPT ![slot] = Registry!Place]
    BY <1>1 DEF Registry!Put
  <2> QED
    BY <2>1, <2>2, RegistryEmitStep
<1>2. ASSUME NEW slot \in Registry!Slots, Registry!TakeOut(slot) PROVE RegistryInv'
  <2>1. Registry!Emit("REMOVED", slot) /\ entries' = [entries EXCEPT ![slot] = 0] /\ last' = last
    BY <1>2 DEF Registry!TakeOut
  <2> QED
    BY <2>1, RegistryEmitStep
<1>3. CASE Registry!EndBlock
  BY <1>3, RegistryEndBlockStep
<1>4. CASE UNCHANGED registryVars
  BY <1>4 DEF registryVars, RegistryInv, RegistryTypes, RegistryPending, LogsFor, PutsFor, LastIn, Registry!Slots
<1> QED
  BY <1>1, <1>2, <1>3, <1>4 DEF Registry!Next

LEMMA InitRegistry ==
  Registry!Init => RegistryInv
<1> SUFFICES ASSUME Registry!Init PROVE RegistryInv
  OBVIOUS
<1>1. /\ entries = [s \in Registry!Slots |-> 0] /\ last = [s \in Registry!Slots |-> 0]
      /\ registryLength = 0 /\ registryLogs = <<>>
      /\ registryRows = [s \in Registry!Slots |-> [active |-> FALSE, data |-> 0]]
  BY DEF Registry!Init, Registry!NoRow
<1>2. \A s : LogsFor(s) = {} /\ PutsFor(s) = {}
  BY <1>1 DEF LogsFor, PutsFor
<1>3. RegistryTypes
  BY <1>1 DEF RegistryTypes, RegistryRows
<1>4. RegistryPending
  BY <1>1, <1>2 DEF RegistryPending, LastIn
<1> QED
  BY <1>3, <1>4 DEF RegistryInv

LEMMA RegistryFollows ==
  ASSUME RegistryInv
  PROVE  Registry!RegistriesFollow
<1> SUFFICES ASSUME registryLogs = <<>>, NEW s \in Registry!Slots
             PROVE  registryRows[s].active = (entries[s] # 0) /\ registryRows[s].data = last[s]
  BY DEF Registry!RegistriesFollow
<1>1. LogsFor(s) = {} /\ PutsFor(s) = {}
  BY DEF LogsFor, PutsFor
<1> QED
  BY <1>1 DEF RegistryInv, RegistryPending

-----------------------------------------------------------------------------
\* A field h that follows the positions S of the first part, and changes in
\* the second at T to the values of its positions, follows both parts.
Follows(v, S, val, default) ==
    /\ S = {} => v = default
    /\ \A n : LastIn(n, S) => v = val[n]

Continues(h, k, L, S, T, old, val) ==
    /\ \A n \in S : old[n] = val[n]
    /\ \A n \in 1..L : n \notin T => h[n] = h[n - 1]
    /\ \A n \in T : h[n] = val[k + n]

LEMMA FollowsOn ==
  ASSUME NEW k \in Nat, NEW L \in Nat, NEW S, S \subseteq 1..k, NEW T, T \subseteq 1..L,
         NEW h, NEW old, NEW val, NEW default, Follows(h[0], S, old, default),
         Continues(h, k, L, S, T, old, val)
  PROVE  Follows(h[L], Both(k, S, T), val, default)
<1>0. PICK R : R = Both(k, S, T)
  OBVIOUS
<1>00. /\ \A n \in S : old[n] = val[n]
       /\ \A n \in 1..L : n \notin T => h[n] = h[n - 1]
       /\ \A n \in T : h[n] = val[k + n]
  BY DEF Continues
<1>1. /\ T = {} => h[L] = h[0]
      /\ \A m : LastIn(m, T) => h[L] = h[m]
  <2>1. \A n \in 1..L : n \notin T => h[n] = h[n - 1]
    BY <1>00
  <2> QED
    BY ONLY L \in Nat, T \subseteq 1..L, <2>1, LastChange
<1>2. /\ R = {} <=> S = {} /\ T = {}
      /\ T = {} => \A n : LastIn(n, R) <=> LastIn(n, S)
      /\ T # {} => \A n : LastIn(n, R) => n - k \in 1..L /\ LastIn(n - k, T) /\ k + (n - k) = n
  <2>1. LastsOfBoth(k, L, S, T, R)
    BY <1>0, LastOfBoth
  <2> QED
    BY <2>1 DEF LastsOfBoth
<1>3. CASE T = {}
  <2>1. \A n : LastIn(n, S) => n \in S
    BY DEF LastIn
  <2> QED
    BY <1>0, <1>00, <1>1, <1>2, <1>3, <2>1 DEF Follows
<1>4. CASE T # {}
  <2>1. ASSUME NEW n, LastIn(n, R) PROVE h[L] = val[n]
    <3>1. LastIn(n - k, T) /\ k + (n - k) = n
      BY <1>2, <1>4, <2>1
    <3>2. n - k \in T /\ h[L] = h[n - k]
      BY <1>1, <3>1 DEF LastIn
    <3>3. h[n - k] = val[k + (n - k)]
      BY <1>00, <3>2
    <3> QED
      BY <3>1, <3>2, <3>3
  <2> QED
    BY <1>0, <1>2, <1>4, <2>1 DEF Follows
<1> QED
  BY <1>0, <1>3, <1>4

InBoth(R, k, L, S, T) ==
    /\ R \subseteq 1..(k + L)
    /\ \A n \in 1..k : n \in R <=> n \in S
    /\ \A n \in 1..L : k + n \in R <=> n \in T

LEMMA BothAre ==
  ASSUME NEW k \in Nat, NEW L \in Nat, NEW S, S \subseteq 1..k, NEW T, T \subseteq 1..L,
         NEW R, InBoth(R, k, L, S, T)
  PROVE  R = Both(k, S, T)
<1>0. /\ R \subseteq 1..(k + L)
      /\ \A n \in 1..k : n \in R <=> n \in S
      /\ \A n \in 1..L : k + n \in R <=> n \in T
  BY DEF InBoth
<1>1. ASSUME NEW n \in 1..(k + L), n \notin 1..k PROVE n - k \in 1..L /\ n = k + (n - k)
  BY <1>1
<1>2. ASSUME NEW n \in R PROVE n \in Both(k, S, T)
  <2>1. CASE n \in 1..k
    BY <1>0, <1>2, <2>1 DEF Both
  <2>2. CASE n \notin 1..k
    BY <1>0, <1>1, <1>2, <2>2 DEF Both
  <2> QED
    BY <1>0, <2>1, <2>2
<1>3. ASSUME NEW n \in Both(k, S, T) PROVE n \in R
  BY <1>0, <1>3 DEF Both
<1> QED
  BY <1>2, <1>3

\* What is followed, said with the maximum.
LEMMA FollowsMax ==
  ASSUME NEW k \in Nat, NEW S, S \subseteq 1..k, NEW v, NEW val, NEW default
  PROVE  Follows(v, S, val, default) <=> v = IF S = {} THEN default ELSE val[Max(S)]
<1>1. CASE S = {}
  <2>1. \A n : ~ LastIn(n, S)
    BY <1>1 DEF LastIn
  <2> QED
    BY <1>1, <2>1 DEF Follows
<1>2. CASE S # {}
  <2>1. LastIn(Max(S), S) /\ \A n : LastIn(n, S) => n = Max(S)
    BY <1>2, LastAmong
  <2> QED
    BY <1>2, <2>1 DEF Follows
<1> QED
  BY <1>1, <1>2

\* The positions of a sequence in two parts, of k and of L elements.
InParts(q, r, s, k, L) ==
    /\ k \in Nat /\ L \in Nat
    /\ Len(s) = k + L /\ DOMAIN s = 1..(k + L)
    /\ DOMAIN q = 1..k /\ DOMAIN r = 1..L
    /\ \A n \in 1..k : n \in 1..(k + L) /\ s[n] = q[n]
    /\ \A n \in 1..L : k + n \in 1..(k + L) /\ s[k + n] = r[n]
    /\ \A n \in 1..(k + L) : n \in 1..k \/ \E m \in 1..L : n = k + m

LEMMA PartsOf ==
  ASSUME NEW Q, NEW q \in Seq(Q), NEW r \in Seq(Q)
  PROVE  (q \o r) \in Seq(Q) /\ InParts(q, r, q \o r, Len(q), Len(r))
<1>0. PICK s, k, L : s = q \o r /\ k = Len(q) /\ L = Len(r)
  OBVIOUS
<1>1. /\ k \in Nat /\ L \in Nat
      /\ s \in Seq(Q) /\ Len(s) = k + L /\ DOMAIN s = 1..(k + L)
      /\ DOMAIN q = 1..k /\ DOMAIN r = 1..L
  BY <1>0
<1>2. \A n \in 1..k : n \in 1..(k + L) /\ s[n] = q[n]
  BY <1>0, <1>1
<1>3. \A n \in 1..L : k + n \in 1..(k + L) /\ s[k + n] = r[n]
  BY <1>0, <1>1
<1>4. ASSUME NEW n \in 1..(k + L), n \notin 1..k PROVE \E m \in 1..L : n = k + m
  <2>1. n - k \in 1..L /\ n = k + (n - k)
    BY <1>1, <1>4
  <2> QED
    BY <2>1
<1> QED
  BY <1>0, <1>1, <1>2, <1>3, <1>4 DEF InParts

-----------------------------------------------------------------------------
(***************************************************************************)
(* The second wrapper's domain.  What the rows follow is in the committed  *)
(* blocks; of the open block's logs the invariant says what makes them be  *)
(* accepted, and that a community the new helper announces has the pool of *)
(* the log before it.                                                      *)
(***************************************************************************)
V2Pools == [type : {"none", "social", "trade"}, number : Nat]
V2LogRecords ==
    [number : Nat, source : {"OLD_HELPER", "HELPER", "WRAPPER", "stranger"},
     kind : V2!MarketKinds \cup {"ImportedTokenTrade"}, token : V2Tokens,
     account : Users \cup {NoOne}, pool : V2Pools, community : Nat]
V2MarketRows ==
    [community : Nat, deployer : Users \cup {NoOne}, social_pool : V2Pools, updated : Nat]

V2Types ==
    /\ block \in Nat \ {0}
    /\ v2Logs \in Seq(V2LogRecords) /\ v2History \in Seq(V2LogRecords)
    /\ v2Events \subseteq Nat
    /\ v2Markets \in [V2Tokens -> V2MarketRows]
    /\ v2Trades \subseteq [entity_index : Int, log : Nat, token : V2Tokens]
    /\ Len(v2Logs) <= V2!BlockRange

\* Logs q that come behind k others.
V2Fits(q, k) ==
    \A n \in DOMAIN q :
        /\ q[n].number = k + n
        /\ q[n].source = "HELPER" => block >= HelperBlock
        /\ q[n].source = "stranger" => q[n].kind = "ImportedTokenTrade"
        /\ q[n].kind \notin {"CommunityCreated", "ImportedPoolCreated"} => q[n].pool.type = "none"
        /\ q[n].kind = "CommunityCreated" =>
              \/ q[n].source = "OLD_HELPER" /\ q[n].pool.type = "social"
              \/ /\ n > 1 /\ q[n - 1].kind = "ImportedPoolCreated" /\ q[n - 1].token = q[n].token
                 /\ q[n - 1].pool = q[n].pool /\ q[n].source = "HELPER"

V2Announced(t) == {n \in DOMAIN v2History : v2History[n].kind \in V2!MarketKinds /\ v2History[n].token = t}
V2Named(t) == {n \in V2Announced(t) : v2History[n].kind # "ImportedPoolCreated"}
V2Social(t) == {n \in V2Announced(t) : v2History[n].pool.type = "social"}

V2Follow ==
    \A t \in V2Tokens :
        /\ V2Announced(t) \subseteq v2Events
        /\ Follows(v2Markets[t].social_pool, V2Social(t),
                   [n \in DOMAIN v2History |-> v2History[n].pool], V2!NoPool)
        /\ Follows(v2Markets[t].deployer, V2Named(t),
                   [n \in DOMAIN v2History |-> v2History[n].account], NoOne)
        /\ Follows(v2Markets[t].community, V2Announced(t),
                   [n \in DOMAIN v2History |-> v2History[n].community], 0)
        /\ Follows(v2Markets[t].updated, V2Announced(t), [n \in DOMAIN v2History |-> n], 0)

V2TradeLogs(q) == {n \in DOMAIN q : q[n].kind = "ImportedTokenTrade" /\ q[n].source = "WRAPPER"}

V2Traded ==
    /\ V2!TradesOnce
    /\ \A r \in v2Trades : r.entity_index <= block * V2!BlockRange /\ r.log <= Len(v2History)

V2Inv == V2Types /\ V2Fits(v2Logs, Len(v2History)) /\ V2Follow /\ V2Traded

LEMMA V2Room == V2!BlockRange \in Nat
BY SMT DEF V2!BlockRange

LEMMA InitV2 ==
  V2!Init => V2Inv
<1> SUFFICES ASSUME V2!Init PROVE V2Inv
  OBVIOUS
<1>1. /\ block = 1 /\ v2Logs = <<>> /\ v2History = <<>> /\ v2Events = {} /\ v2Trades = {}
      /\ v2Markets = [t \in V2Tokens |-> [community |-> 0, deployer |-> NoOne,
                         social_pool |-> [type |-> "none", number |-> 0], updated |-> 0]]
  BY DEF V2!Init, V2!NoMarket, V2!NoPool
<1>2. V2Types
  <2>1. v2Markets \in [V2Tokens -> V2MarketRows]
    BY <1>1 DEF V2MarketRows, V2Pools
  <2>2. Len(v2Logs) <= V2!BlockRange
    BY <1>1, V2Room
  <2> QED
    BY <1>1, <2>1, <2>2 DEF V2Types
<1>3. V2Fits(v2Logs, Len(v2History))
  BY <1>1 DEF V2Fits
<1>4. V2Follow
  <2>1. \A t : V2Announced(t) = {} /\ V2Named(t) = {} /\ V2Social(t) = {}
    BY <1>1 DEF V2Announced, V2Named, V2Social
  <2> QED
    BY <1>1, <2>1 DEF V2Follow, Follows, LastIn, V2!NoPool
<1>5. V2Traded
  BY <1>1 DEF V2Traded, V2!TradesOnce
<1> QED
  BY <1>2, <1>3, <1>4, <1>5 DEF V2Inv

\* New logs that fit behind those of the open block keep the invariant.
LEMMA V2EmitStep ==
  ASSUME V2Inv, NEW new \in Seq(V2LogRecords), V2!Emit(new),
         V2Fits(new, Len(v2History) + Len(v2Logs))
  PROVE  V2Inv'
<1>1. PICK k, L, M, all : k = Len(v2History) /\ L = Len(v2Logs) /\ M = Len(new) /\ all = v2Logs \o new
  OBVIOUS
<1>0. k \in Nat /\ L \in Nat /\ M \in Nat
  BY <1>1 DEF V2Inv, V2Types
<1>2. /\ v2Logs' = all /\ block' = block /\ v2History' = v2History
      /\ v2Events' = v2Events /\ v2Markets' = v2Markets /\ v2Trades' = v2Trades
      /\ L + M <= V2!BlockRange
  BY <1>1 DEF V2!Emit
<1>3. all \in Seq(V2LogRecords) /\ InParts(v2Logs, new, all, L, M)
  BY <1>1, PartsOf DEF V2Inv, V2Types
<1>4. V2Types'
  <2>1. Len(v2Logs') <= (V2!BlockRange)'
    <3>1. Len(all) = L + M
      BY <1>3 DEF InParts
    <3>2. (V2!BlockRange)' = V2!BlockRange
      OBVIOUS
    <3> QED
      BY <1>2, <3>1, <3>2
  <2> QED
    BY <1>2, <1>3, <2>1 DEF V2Inv, V2Types
<1>5. V2Fits(all, k)
  <2> SUFFICES ASSUME NEW n \in DOMAIN all
               PROVE  /\ all[n].number = k + n
                      /\ all[n].source = "HELPER" => block >= HelperBlock
                      /\ all[n].source = "stranger" => all[n].kind = "ImportedTokenTrade"
                      /\ all[n].kind \notin {"CommunityCreated", "ImportedPoolCreated"} => all[n].pool.type = "none"
                      /\ all[n].kind = "CommunityCreated" =>
                            \/ all[n].source = "OLD_HELPER" /\ all[n].pool.type = "social"
                            \/ /\ n > 1 /\ all[n - 1].kind = "ImportedPoolCreated" /\ all[n - 1].token = all[n].token
                               /\ all[n - 1].pool = all[n].pool /\ all[n].source = "HELPER"
    BY DEF V2Fits
  <2>1. n \in 1..L \/ \E m \in 1..M : n = L + m
    BY <1>3 DEF InParts
  <2>2. CASE n \in 1..L
    <3>1. /\ all[n] = v2Logs[n] /\ n \in DOMAIN v2Logs
          /\ n > 1 => all[n - 1] = v2Logs[n - 1]
      <4>1. n > 1 => n - 1 \in 1..L
        BY <1>0, <2>2
      <4> QED
        BY <1>3, <2>2, <4>1 DEF InParts
    <3> QED
      BY <1>1, <3>1 DEF V2Inv, V2Fits
  <2>3. CASE \E m \in 1..M : n = L + m
    <3>1. PICK m \in 1..M : n = L + m
      BY <2>3
    <3>2. /\ all[n] = new[m] /\ m \in DOMAIN new
          /\ m > 1 => n > 1 /\ all[n - 1] = new[m - 1]
      <4>1. m > 1 => m - 1 \in 1..M /\ n - 1 = L + (m - 1) /\ n > 1
        BY <1>0, <3>1
      <4> QED
        BY <1>3, <3>1, <4>1 DEF InParts
    <3>3. (k + L) + m = k + n
      BY <1>0, <3>1
    <3>4. V2Fits(new, k + L)
      BY <1>1
    <3>5. /\ new[m].number = (k + L) + m
          /\ new[m].source = "HELPER" => block >= HelperBlock
          /\ new[m].source = "stranger" => new[m].kind = "ImportedTokenTrade"
          /\ new[m].kind \notin {"CommunityCreated", "ImportedPoolCreated"} => new[m].pool.type = "none"
          /\ new[m].kind = "CommunityCreated" =>
                \/ new[m].source = "OLD_HELPER" /\ new[m].pool.type = "social"
                \/ /\ m > 1 /\ new[m - 1].kind = "ImportedPoolCreated" /\ new[m - 1].token = new[m].token
                   /\ new[m - 1].pool = new[m].pool /\ new[m].source = "HELPER"
      BY <3>2, <3>4 DEF V2Fits
    <3> QED
      BY <3>2, <3>3, <3>5
  <2> QED
    BY <2>1, <2>2, <2>3
<1>6. V2Fits(v2Logs, Len(v2History))'
  <2>1. V2Fits(v2Logs', Len(v2History'))
    BY <1>1, <1>2, <1>5
  <2> QED
    BY <1>2, <2>1 DEF V2Fits
<1>7. V2Follow'
  BY <1>2 DEF V2Inv, V2Follow, V2Announced, V2Named, V2Social, Follows, LastIn
<1>8. V2Traded'
  BY <1>2 DEF V2Inv, V2Traded, V2!TradesOnce
<1> QED
  BY <1>4, <1>6, <1>7, <1>8 DEF V2Inv

LEMMA V2MarketType ==
  ASSUME NEW row \in V2MarketRows, NEW e \in V2LogRecords
  PROVE  V2!Market(row, e) \in V2MarketRows
<1>1. V2!SocialPool(row.social_pool, e) \in V2Pools
  BY DEF V2!SocialPool, V2MarketRows, V2LogRecords
<1>2. V2!DeployerOf(row.deployer, e) \in Users \cup {NoOne}
  BY DEF V2!DeployerOf, V2MarketRows, V2LogRecords
<1>3. e.community \in Nat /\ e.number \in Nat
  BY DEF V2LogRecords
<1> QED
  BY <1>1, <1>2, <1>3 DEF V2!Market, V2MarketRows

\* MarketAfter sets what the market's logs say, one after the other.
LEMMA V2MarketAfterSteps ==
  ASSUME V2Types, NEW t \in V2Tokens
  PROVE  \E g \in [0..Len(v2Logs) -> V2MarketRows] :
            /\ g[0] = v2Markets[t]
            /\ \A n \in 1..Len(v2Logs) :
                  g[n] = IF n \in V2!OfMarket(t) THEN V2!Market(g[n - 1], v2Logs[n]) ELSE g[n - 1]
            /\ V2!MarketAfter(t) = g[Len(v2Logs)]
<1>1. PICK L, T : L = Len(v2Logs) /\ T = V2!OfMarket(t)
  OBVIOUS
<1>0. L \in Nat
  BY <1>1 DEF V2Types
<1>2. PICK base \in V2MarketRows : base = v2Markets[t]
  BY DEF V2Types
<1>3. PICK step : step = [x \in (1..L) \X V2MarketRows |->
                             IF x[1] \in T THEN V2!Market(x[2], v2Logs[x[1]]) ELSE x[2]]
  OBVIOUS
<1>4. \A n \in 1..L, v \in V2MarketRows : step[<<n, v>>] = IF n \in T THEN V2!Market(v, v2Logs[n]) ELSE v
  BY <1>3
<1>5. ASSUME NEW n \in 1..L, NEW v \in V2MarketRows PROVE step[<<n, v>>] \in V2MarketRows
  <2>1. v2Logs[n] \in V2LogRecords
    BY <1>1 DEF V2Types
  <2>2. V2!Market(v, v2Logs[n]) \in V2MarketRows
    BY <2>1, V2MarketType
  <2> QED
    BY <1>4, <2>2
<1>6. PICK g \in [0..L -> V2MarketRows] : StepsFrom(g, base, step, L)
  BY <1>0, <1>5, StepsExist
<1>7. /\ g[0] = base
      /\ \A n \in 1..L : g[n] = IF n \in T THEN V2!Market(g[n - 1], v2Logs[n]) ELSE g[n - 1]
  <2>1. \A n \in 1..L : n - 1 \in 0..L
    BY <1>0
  <2> QED
    BY <1>4, <1>6, <2>1 DEF StepsFrom
<1> DEFINE Solves(f) == f = [n \in 0..L |-> IF n = 0 THEN base
                                ELSE IF n \in T THEN V2!Market(f[n - 1], v2Logs[n])
                                ELSE f[n - 1]]
<1>8. Solves(g)
  <2>1. \A n \in 0..L : n = 0 \/ n \in 1..L
    BY <1>0
  <2>2. \A n \in 0..L : g[n] = IF n = 0 THEN base
                                ELSE IF n \in T THEN V2!Market(g[n - 1], v2Logs[n])
                                ELSE g[n - 1]
    BY <1>7, <2>1
  <2> QED
    BY <2>2
<1>9. PICK f : Solves(f) /\ V2!MarketAfter(t) = f[L]
  <2>1. V2!MarketAfter(t) = (CHOOSE f : Solves(f))[L]
    BY <1>1, <1>2 DEF V2!MarketAfter
  <2> HIDE DEF Solves
  <2> QED
    BY <1>8, <2>1
<1> DEFINE Differ == {n \in 0..L : f[n] # g[n]}
<1>10. Differ = {}
  <2> SUFFICES ASSUME Differ # {} PROVE FALSE
    OBVIOUS
  <2>1. PICK n \in Differ : \A k \in Differ : n <= k
    <3>1. Differ \subseteq Nat
      BY <1>0
    <3> HIDE DEF Differ
    <3> QED
      BY <3>1, LeastNumber
  <2>2. n # 0
    BY <1>7, <1>9, <2>1
  <2>3. n \in 1..L /\ n - 1 \in 0..L /\ ~ (n <= n - 1)
    BY <1>0, <2>1, <2>2
  <2>4. f[n - 1] = g[n - 1]
    BY <2>1, <2>3
  <2> QED
    BY <1>7, <1>9, <2>1, <2>2, <2>3, <2>4
<1>11. f[L] = g[L]
  BY <1>0, <1>10
<1> QED
  BY <1>1, <1>2, <1>6, <1>7, <1>9, <1>11

\* Every log of a market is accepted.
LEMMA V2OfMarketIs ==
  ASSUME V2Inv, NEW t \in V2Tokens
  PROVE  V2!OfMarket(t) = {n \in DOMAIN v2Logs : v2Logs[n].kind \in V2!MarketKinds /\ v2Logs[n].token = t}
<1>1. ASSUME NEW n \in DOMAIN v2Logs, v2Logs[n].kind \in V2!MarketKinds PROVE V2!Accepted(v2Logs[n])
  <2>0. v2Logs[n] \in V2LogRecords
    BY DEF V2Inv, V2Types
  <2>1. v2Logs[n].source \in {"OLD_HELPER", "HELPER", "WRAPPER", "stranger"}
    BY <2>0 DEF V2LogRecords
  <2>2. v2Logs[n].source # "stranger" /\ (v2Logs[n].source = "HELPER" => block >= HelperBlock)
    BY <1>1 DEF V2Inv, V2Fits, V2!MarketKinds
  <2> QED
    BY <2>1, <2>2 DEF V2!Accepted
<1> QED
  BY <1>1 DEF V2!OfMarket, V2!Events

LEMMA V2MarketsEndBlock ==
  ASSUME V2Inv, V2!EndBlock
  PROVE  V2Follow'
<1>1. PICK k, L, all : k = Len(v2History) /\ L = Len(v2Logs) /\ all = v2History \o v2Logs
  OBVIOUS
<1>2. all \in Seq(V2LogRecords) /\ InParts(v2History, v2Logs, all, k, L)
  BY <1>1, PartsOf DEF V2Inv, V2Types
<1>3. /\ v2History' = all
      /\ v2Events' = v2Events \cup {v2Logs[n].number : n \in V2!Events}
      /\ v2Markets' = [t \in V2Tokens |-> V2!MarketAfter(t)]
  BY <1>1 DEF V2!EndBlock
<1>4. /\ k \in Nat /\ L \in Nat /\ DOMAIN all = 1..(k + L)
      /\ DOMAIN v2History = 1..k /\ DOMAIN v2Logs = 1..L
      /\ \A n \in 1..k : n \in 1..(k + L) /\ all[n] = v2History[n]
      /\ \A n \in 1..L : k + n \in 1..(k + L) /\ all[k + n] = v2Logs[n]
  BY <1>2 DEF InParts
<1>5. ASSUME NEW t \in V2Tokens
      PROVE  /\ V2Announced(t)' \subseteq v2Events'
             /\ Follows(v2Markets'[t].social_pool, V2Social(t)', [n \in DOMAIN v2History' |-> v2History'[n].pool], V2!NoPool)
             /\ Follows(v2Markets'[t].deployer, V2Named(t)', [n \in DOMAIN v2History' |-> v2History'[n].account], NoOne)
             /\ Follows(v2Markets'[t].community, V2Announced(t)', [n \in DOMAIN v2History' |-> v2History'[n].community], 0)
             /\ Follows(v2Markets'[t].updated, V2Announced(t)', [n \in DOMAIN v2History' |-> n], 0)
  <2>1. PICK g \in [0..L -> V2MarketRows] :
            /\ g[0] = v2Markets[t]
            /\ \A n \in 1..L :
                  g[n] = IF n \in V2!OfMarket(t) THEN V2!Market(g[n - 1], v2Logs[n]) ELSE g[n - 1]
            /\ V2!MarketAfter(t) = g[L]
    BY <1>1, V2MarketAfterSteps DEF V2Inv
  <2>2. v2Markets'[t] = g[L]
    BY <1>3, <2>1
  <2>3. PICK A, N, C : A = V2Announced(t) /\ N = V2Named(t) /\ C = V2Social(t)
    OBVIOUS
  <2>4. PICK T, TN, TC : /\ T = V2!OfMarket(t)
                         /\ TN = {n \in T : v2Logs[n].kind # "ImportedPoolCreated"}
                         /\ TC = {n \in T : v2Logs[n].pool.type = "social"}
    OBVIOUS
  <2>5. /\ A \subseteq 1..k /\ N \subseteq 1..k /\ C \subseteq 1..k
        /\ T \subseteq 1..L /\ TN \subseteq T /\ TC \subseteq T /\ TN \subseteq 1..L /\ TC \subseteq 1..L
        /\ \A n \in 1..L : n \in T <=> v2Logs[n].kind \in V2!MarketKinds /\ v2Logs[n].token = t
    BY <1>4, <2>3, <2>4, V2OfMarketIs DEF V2Announced, V2Named, V2Social
  <2>6. V2Announced(t)' = Both(k, A, T)
    <3>1. PICK R : R = V2Announced(t)'
      OBVIOUS
    <3>2. InBoth(R, k, L, A, T)
      BY <1>3, <1>4, <2>3, <2>5, <3>1 DEF InBoth, V2Announced
    <3> QED
      BY <1>4, <2>5, <3>1, <3>2, BothAre
  <2>7. V2Named(t)' = Both(k, N, TN)
    <3>1. PICK R : R = V2Named(t)'
      OBVIOUS
    <3>2. InBoth(R, k, L, N, TN)
      BY <1>3, <1>4, <2>3, <2>4, <2>5, <3>1 DEF InBoth, V2Announced, V2Named
    <3> QED
      BY <1>4, <2>5, <3>1, <3>2, BothAre
  <2>8. V2Social(t)' = Both(k, C, TC)
    <3>1. PICK R : R = V2Social(t)'
      OBVIOUS
    <3>2. InBoth(R, k, L, C, TC)
      BY <1>3, <1>4, <2>3, <2>4, <2>5, <3>1 DEF InBoth, V2Announced, V2Social
    <3> QED
      BY <1>4, <2>5, <3>1, <3>2, BothAre
  <2>9. /\ A \subseteq v2Events
        /\ Follows(g[0].social_pool, C, [n \in DOMAIN v2History |-> v2History[n].pool], V2!NoPool)
        /\ Follows(g[0].deployer, N, [n \in DOMAIN v2History |-> v2History[n].account], NoOne)
        /\ Follows(g[0].community, A, [n \in DOMAIN v2History |-> v2History[n].community], 0)
        /\ Follows(g[0].updated, A, [n \in DOMAIN v2History |-> n], 0)
    BY <2>1, <2>3 DEF V2Inv, V2Follow
  <2>10. \A n \in 1..L : /\ n - 1 \in 0..L /\ n \in 0..L /\ v2Logs[n] \in V2LogRecords
                         /\ g[n - 1] \in V2MarketRows
    <3>1. v2Logs \in Seq(V2LogRecords)
      BY DEF V2Inv, V2Types
    <3>2. \A n \in 1..L : v2Logs[n] \in V2LogRecords
      BY <1>4, <3>1
    <3>3. \A n \in 1..L : n - 1 \in 0..L /\ n \in 0..L
      BY <1>4
    <3> QED
      BY <3>2, <3>3
  <2>11. ASSUME NEW n \in 1..L, n \notin T PROVE g[n] = g[n - 1] /\ n \notin TN /\ n \notin TC
    BY <2>1, <2>4, <2>11
  <2>12. ASSUME NEW n \in T
         PROVE  /\ g[n].community = v2Logs[n].community /\ g[n].updated = k + n
                /\ g[n].deployer = IF n \in TN THEN v2Logs[n].account ELSE g[n - 1].deployer
                /\ g[n].social_pool = IF n \in TC THEN v2Logs[n].pool ELSE g[n - 1].social_pool
    <3>1. n \in 1..L /\ g[n] = V2!Market(g[n - 1], v2Logs[n])
      BY <2>1, <2>4, <2>5
    <3>2. /\ g[n].community = v2Logs[n].community /\ g[n].updated = v2Logs[n].number
          /\ g[n].deployer = V2!DeployerOf(g[n - 1].deployer, v2Logs[n])
          /\ g[n].social_pool = V2!SocialPool(g[n - 1].social_pool, v2Logs[n])
      BY <3>1 DEF V2!Market
    <3>3. v2Logs[n].number = k + n
      BY <1>1, <1>4, <3>1 DEF V2Inv, V2Fits
    <3>4. g[n].deployer = IF n \in TN THEN v2Logs[n].account ELSE g[n - 1].deployer
      BY <2>4, <3>2 DEF V2!DeployerOf
    <3>5. V2!SocialPool(g[n - 1].social_pool, v2Logs[n]) = IF n \in TC THEN v2Logs[n].pool ELSE g[n - 1].social_pool
      <4>1. /\ v2Logs[n].kind \notin {"CommunityCreated", "ImportedPoolCreated"} => v2Logs[n].pool.type = "none"
            /\ v2Logs[n].kind = "CommunityCreated" =>
                  \/ v2Logs[n].source = "OLD_HELPER" /\ v2Logs[n].pool.type = "social"
                  \/ /\ n > 1 /\ v2Logs[n - 1].kind = "ImportedPoolCreated" /\ v2Logs[n - 1].token = v2Logs[n].token
                     /\ v2Logs[n - 1].pool = v2Logs[n].pool /\ v2Logs[n].source = "HELPER"
        BY <1>1, <1>4, <3>1 DEF V2Inv, V2Fits
      <4>2. CASE v2Logs[n].kind = "ImportedPoolCreated"
        BY <2>4, <4>2 DEF V2!SocialPool
      <4>3. CASE v2Logs[n].kind = "CommunityCreated" /\ v2Logs[n].source = "OLD_HELPER"
        BY <2>4, <4>1, <4>3 DEF V2!SocialPool
      <4>4. CASE v2Logs[n].kind = "CommunityCreated" /\ v2Logs[n].source # "OLD_HELPER"
        <5>1. /\ n > 1 /\ v2Logs[n - 1].kind = "ImportedPoolCreated" /\ v2Logs[n - 1].token = v2Logs[n].token
              /\ v2Logs[n - 1].pool = v2Logs[n].pool
          BY <4>1, <4>4
        <5>2. V2!SocialPool(g[n - 1].social_pool, v2Logs[n]) = g[n - 1].social_pool
          BY <4>4 DEF V2!SocialPool
        <5>3. ASSUME n \in TC PROVE g[n - 1].social_pool = v2Logs[n].pool
          <6>1. n - 1 \in 1..L /\ n - 1 \in T
            BY <1>4, <2>4, <2>5, <3>1, <5>1 DEF V2!MarketKinds
          <6>2. PICK m : m = n - 1
            OBVIOUS
          <6>5. g[m] = V2!Market(g[m - 1], v2Logs[m])
            BY <2>1, <2>4, <6>1, <6>2
          <6>3. v2Logs[n - 1].pool.type = "social"
            BY <2>4, <5>1, <5>3
          <6>4. g[n - 1].social_pool = v2Logs[n - 1].pool
            BY <5>1, <6>2, <6>3, <6>5 DEF V2!Market, V2!SocialPool
          <6> QED
            BY <5>1, <6>4
        <5> QED
          BY <5>2, <5>3
      <4>5. CASE v2Logs[n].kind \notin {"CommunityCreated", "ImportedPoolCreated"}
        BY <2>4, <4>1, <4>5 DEF V2!SocialPool
      <4> QED
        BY <4>2, <4>3, <4>4, <4>5
    <3> QED
      BY <3>2, <3>3, <3>4, <3>5
  <2>13. V2Announced(t)' \subseteq v2Events'
    <3>1. ASSUME NEW n \in T PROVE k + n \in v2Events'
      <4>1. n \in V2!Events /\ n \in 1..L
        BY <2>4, <2>5 DEF V2!OfMarket
      <4>2. v2Logs[n].number = k + n
        BY <1>1, <1>4, <4>1 DEF V2Inv, V2Fits
      <4> QED
        BY <1>3, <4>1, <4>2
    <3> QED
      BY <1>3, <2>6, <2>9, <3>1 DEF Both
  <2>14. Follows(g[L].social_pool, V2Social(t)', [n \in DOMAIN v2History' |-> v2History'[n].pool], V2!NoPool)
    <3>1. PICK h : h = [n \in 0..L |-> g[n].social_pool]
      OBVIOUS
    <3>2. PICK old, val : /\ old = [n \in DOMAIN v2History |-> v2History[n].pool]
                          /\ val = [n \in DOMAIN v2History' |-> v2History'[n].pool]
      OBVIOUS
    <3>3. /\ Follows(h[0], C, old, V2!NoPool)
          /\ Continues(h, k, L, C, TC, old, val)
          /\ h[L] = g[L].social_pool
      <4>1. Follows(h[0], C, old, V2!NoPool) /\ h[L] = g[L].social_pool
        BY <1>4, <2>9, <3>1, <3>2
      <4>2. \A n \in C : old[n] = val[n]
        BY <1>3, <1>4, <2>5, <3>2
      <4>3. \A n \in 1..L : n \notin TC => h[n] = h[n - 1]
        BY <2>10, <2>11, <2>12, <3>1
      <4>4. \A n \in TC : h[n] = val[k + n]
        BY <1>3, <1>4, <2>5, <2>10, <2>12, <3>1, <3>2
      <4> QED
        BY <4>1, <4>2, <4>3, <4>4 DEF Continues
    <3>4. Follows(h[L], Both(k, C, TC), val, V2!NoPool)
      BY <1>4, <2>5, <3>3, FollowsOn
    <3> QED
      BY <2>8, <3>2, <3>3, <3>4
  <2>15. Follows(g[L].deployer, V2Named(t)', [n \in DOMAIN v2History' |-> v2History'[n].account], NoOne)
    <3>1. PICK h : h = [n \in 0..L |-> g[n].deployer]
      OBVIOUS
    <3>2. PICK old, val : /\ old = [n \in DOMAIN v2History |-> v2History[n].account]
                          /\ val = [n \in DOMAIN v2History' |-> v2History'[n].account]
      OBVIOUS
    <3>3. /\ Follows(h[0], N, old, NoOne)
          /\ Continues(h, k, L, N, TN, old, val)
          /\ h[L] = g[L].deployer
      <4>1. Follows(h[0], N, old, NoOne) /\ h[L] = g[L].deployer
        BY <1>4, <2>9, <3>1, <3>2
      <4>2. \A n \in N : old[n] = val[n]
        BY <1>3, <1>4, <2>5, <3>2
      <4>3. \A n \in 1..L : n \notin TN => h[n] = h[n - 1]
        BY <2>10, <2>11, <2>12, <3>1
      <4>4. \A n \in TN : h[n] = val[k + n]
        BY <1>3, <1>4, <2>5, <2>10, <2>12, <3>1, <3>2
      <4> QED
        BY <4>1, <4>2, <4>3, <4>4 DEF Continues
    <3>4. Follows(h[L], Both(k, N, TN), val, NoOne)
      BY <1>4, <2>5, <3>3, FollowsOn
    <3> QED
      BY <2>7, <3>2, <3>3, <3>4
  <2>16. Follows(g[L].community, V2Announced(t)', [n \in DOMAIN v2History' |-> v2History'[n].community], 0)
    <3>1. PICK h : h = [n \in 0..L |-> g[n].community]
      OBVIOUS
    <3>2. PICK old, val : /\ old = [n \in DOMAIN v2History |-> v2History[n].community]
                          /\ val = [n \in DOMAIN v2History' |-> v2History'[n].community]
      OBVIOUS
    <3>3. /\ Follows(h[0], A, old, 0)
          /\ Continues(h, k, L, A, T, old, val)
          /\ h[L] = g[L].community
      <4>1. Follows(h[0], A, old, 0) /\ h[L] = g[L].community
        BY <1>4, <2>9, <3>1, <3>2
      <4>2. \A n \in A : old[n] = val[n]
        BY <1>3, <1>4, <2>5, <3>2
      <4>3. \A n \in 1..L : n \notin T => h[n] = h[n - 1]
        BY <2>10, <2>11, <3>1
      <4>4. \A n \in T : h[n] = val[k + n]
        BY <1>3, <1>4, <2>5, <2>10, <2>12, <3>1, <3>2
      <4> QED
        BY <4>1, <4>2, <4>3, <4>4 DEF Continues
    <3>4. Follows(h[L], Both(k, A, T), val, 0)
      BY <1>4, <2>5, <3>3, FollowsOn
    <3> QED
      BY <2>6, <3>2, <3>3, <3>4
  <2>17. Follows(g[L].updated, V2Announced(t)', [n \in DOMAIN v2History' |-> n], 0)
    <3>1. PICK h : h = [n \in 0..L |-> g[n].updated]
      OBVIOUS
    <3>2. PICK old, val : /\ old = [n \in DOMAIN v2History |-> n]
                          /\ val = [n \in DOMAIN v2History' |-> n]
      OBVIOUS
    <3>3. /\ Follows(h[0], A, old, 0)
          /\ Continues(h, k, L, A, T, old, val)
          /\ h[L] = g[L].updated
      <4>1. Follows(h[0], A, old, 0) /\ h[L] = g[L].updated
        BY <1>4, <2>9, <3>1, <3>2
      <4>2. \A n \in A : old[n] = val[n]
        BY <1>3, <1>4, <2>5, <3>2
      <4>3. \A n \in 1..L : n \notin T => h[n] = h[n - 1]
        BY <2>10, <2>11, <3>1
      <4>4. \A n \in T : h[n] = val[k + n]
        BY <1>3, <1>4, <2>5, <2>10, <2>12, <3>1, <3>2
      <4> QED
        BY <4>1, <4>2, <4>3, <4>4 DEF Continues
    <3>4. Follows(h[L], Both(k, A, T), val, 0)
      BY <1>4, <2>5, <3>3, FollowsOn
    <3> QED
      BY <2>6, <3>2, <3>3, <3>4
  <2> QED
    BY <2>2, <2>13, <2>14, <2>15, <2>16, <2>17
<1> QED
  BY <1>3, <1>5 DEF V2Follow, Follows, LastIn, V2!NoPool

LEMMA V2TradesEndBlock ==
  ASSUME V2Inv, V2!EndBlock
  PROVE  V2Traded' /\ v2Trades' \subseteq [entity_index : Int, log : Nat, token : V2Tokens]
<1>1. PICK k, L, all, base, range :
          /\ k = Len(v2History) /\ L = Len(v2Logs) /\ all = v2History \o v2Logs
          /\ range = V2!BlockRange /\ base = block * range
  OBVIOUS
<1>2. all \in Seq(V2LogRecords) /\ InParts(v2History, v2Logs, all, k, L)
  BY <1>1, PartsOf DEF V2Inv, V2Types
<1>3. PICK N : N = {n \in 1..L : v2Logs[n].kind = "ImportedTokenTrade" /\ v2Logs[n].source = "WRAPPER"}
  OBVIOUS
<1>4. /\ k \in Nat /\ L \in Nat /\ DOMAIN all = 1..(k + L)
      /\ DOMAIN v2History = 1..k /\ DOMAIN v2Logs = 1..L
      /\ \A n \in 1..k : n \in 1..(k + L) /\ all[n] = v2History[n]
      /\ \A n \in 1..L : k + n \in 1..(k + L) /\ all[k + n] = v2Logs[n]
      /\ \A n \in 1..(k + L) : n \in 1..k \/ \E m \in 1..L : n = k + m
  BY <1>2 DEF InParts
<1>5. range \in Nat /\ base \in Nat /\ block \in Nat /\ L <= range /\ (block + 1) * range = base + range
  <2>1. range \in Nat
    BY <1>1, V2Room
  <2>2. block \in Nat /\ L <= range
    BY <1>1 DEF V2Inv, V2Types
  <2>3. base \in Nat /\ (block + 1) * range = base + range
    BY <1>1, <2>1, <2>2
  <2> QED
    BY <1>4, <2>1, <2>2, <2>3
<1>6. ASSUME NEW n \in 1..L PROVE v2Logs[n] \in V2LogRecords /\ v2Logs[n].number = k + n
  <2>1. n \in DOMAIN v2Logs /\ v2Logs \in Seq(V2LogRecords)
    BY <1>4 DEF V2Inv, V2Types
  <2>2. v2Logs[n].number = k + n
    BY <1>1, <2>1 DEF V2Inv, V2Fits
  <2> QED
    BY <2>1, <2>2
<1>7. PICK row : row = [n \in 1..L |-> [entity_index |-> base + n, log |-> k + n, token |-> v2Logs[n].token]]
  OBVIOUS
<1>8. /\ v2Trades' = v2Trades \cup {row[n] : n \in N}
      /\ v2History' = all /\ block' = block + 1
  <2>1. ASSUME NEW n \in 1..L PROVE V2!TradeRow(v2Logs[n]) = row[n]
    <3>1. v2Logs[n].number = k + n /\ (base + (k + n)) - k = base + n
      BY <1>4, <1>5, <1>6
    <3>2. V2!TradeRow(v2Logs[n]) = [entity_index |-> (base + (k + n)) - k, log |-> k + n, token |-> v2Logs[n].token]
      BY <1>1, <3>1 DEF V2!TradeRow
    <3> QED
      BY <1>7, <3>1, <3>2
  <2>2. {m \in V2!Events : v2Logs[m].kind = "ImportedTokenTrade" /\ v2Logs[m].source = "WRAPPER"} = N
    BY <1>3, <1>4 DEF V2!Events, V2!Accepted
  <2>3. v2Trades' = v2Trades \cup
            {V2!TradeRow(v2Logs[n]) : n \in {m \in V2!Events : /\ v2Logs[m].kind = "ImportedTokenTrade"
                                                               /\ v2Logs[m].source = "WRAPPER"}}
    BY DEF V2!EndBlock
  <2>4. v2Trades' = v2Trades \cup {V2!TradeRow(v2Logs[n]) : n \in N}
    BY <2>2, <2>3
  <2>5. {V2!TradeRow(v2Logs[n]) : n \in N} = {row[n] : n \in N}
    BY <1>3, <2>1
  <2> QED
    BY <1>1, <2>4, <2>5 DEF V2!EndBlock
<1>9. N \subseteq 1..L
  BY <1>3
<1>10. \A r \in v2Trades' : r \in v2Trades \/ \E n \in N : r = row[n]
  BY <1>8
<1>11. \A n \in N : row[n].entity_index = base + n /\ row[n].log = k + n /\ n \in 1..L
  BY <1>7, <1>9
<1>12. \A r \in v2Trades : /\ r.entity_index \in Int /\ r.log \in Nat
                           /\ r.entity_index <= base /\ r.log <= k
  BY <1>1 DEF V2Inv, V2Types, V2Traded
<1>13. \A r, s \in v2Trades : r.entity_index < s.entity_index <=> r.log < s.log
  BY DEF V2Inv, V2Traded, V2!TradesOnce
<1>14. ASSUME NEW r \in v2Trades', NEW s \in v2Trades'
       PROVE  r.entity_index < s.entity_index <=> r.log < s.log
  <2>1. CASE r \in v2Trades /\ s \in v2Trades
    BY <1>13, <2>1
  <2>2. CASE r \in v2Trades /\ s \notin v2Trades
    <3>1. PICK n \in N : s = row[n]
      BY <1>10, <2>2
    <3> QED
      BY <1>4, <1>5, <1>11, <1>12, <2>2, <3>1
  <2>3. CASE r \notin v2Trades /\ s \in v2Trades
    <3>1. PICK n \in N : r = row[n]
      BY <1>10, <2>3
    <3> QED
      BY <1>4, <1>5, <1>11, <1>12, <2>3, <3>1
  <2>4. CASE r \notin v2Trades /\ s \notin v2Trades
    <3>1. PICK m \in N, n \in N : r = row[m] /\ s = row[n]
      BY <1>10, <2>4
    <3> QED
      BY <1>4, <1>5, <1>11, <3>1
  <2> QED
    BY <2>1, <2>2, <2>3, <2>4
<1>15. \A r \in v2Trades' : r.entity_index <= block' * range /\ r.log <= Len(v2History')
  <2>1. block' * range = base + range /\ Len(v2History') = k + L
    BY <1>2, <1>5, <1>8 DEF InParts
  <2> QED
    BY <1>4, <1>5, <1>10, <1>11, <1>12, <2>1
<1>16. {r.log : r \in v2Trades'} =
          {n \in DOMAIN v2History' : v2History'[n].kind = "ImportedTokenTrade" /\ v2History'[n].source = "WRAPPER"}
  <2>1. {r.log : r \in v2Trades} =
          {n \in 1..k : v2History[n].kind = "ImportedTokenTrade" /\ v2History[n].source = "WRAPPER"}
    BY <1>4 DEF V2Inv, V2Traded, V2!TradesOnce
  <2>2. ASSUME NEW r \in v2Trades'
        PROVE  r.log \in 1..(k + L) /\ all[r.log].kind = "ImportedTokenTrade" /\ all[r.log].source = "WRAPPER"
    <3>1. CASE r \in v2Trades
      <4>1. r.log \in 1..k /\ v2History[r.log].kind = "ImportedTokenTrade" /\ v2History[r.log].source = "WRAPPER"
        BY <2>1, <3>1
      <4> QED
        BY <1>4, <4>1
    <3>2. CASE r \notin v2Trades
      <4>1. PICK n \in N : r = row[n]
        BY <1>10, <3>2
      <4> QED
        BY <1>3, <1>4, <1>11, <4>1
    <3> QED
      BY <3>1, <3>2
  <2>3. ASSUME NEW n \in 1..(k + L), all[n].kind = "ImportedTokenTrade", all[n].source = "WRAPPER"
        PROVE  \E r \in v2Trades' : r.log = n
    <3>1. CASE n \in 1..k
      <4>1. v2History[n].kind = "ImportedTokenTrade" /\ v2History[n].source = "WRAPPER"
        BY <1>4, <2>3, <3>1
      <4>2. PICK r \in v2Trades : r.log = n
        BY <2>1, <3>1, <4>1
      <4> QED
        BY <1>8, <4>2
    <3>2. CASE \E m \in 1..L : n = k + m
      <4>1. PICK m \in 1..L : n = k + m
        BY <3>2
      <4>2. m \in N
        BY <1>3, <1>4, <2>3, <4>1
      <4>3. row[m] \in v2Trades' /\ row[m].log = n
        BY <1>8, <1>11, <4>1, <4>2
      <4> QED
        BY <4>3
    <3> QED
      BY <1>4, <3>1, <3>2
  <2>4. DOMAIN v2History' = 1..(k + L) /\ v2History' = all
    BY <1>4, <1>8
  <2> QED
    BY <2>2, <2>3, <2>4
<1>17. v2Trades' \subseteq [entity_index : Int, log : Nat, token : V2Tokens]
  <2>1. ASSUME NEW n \in N PROVE row[n] \in [entity_index : Int, log : Nat, token : V2Tokens]
    <3>1. n \in 1..L /\ base + n \in Int /\ k + n \in Nat /\ v2Logs[n].token \in V2Tokens
      BY <1>4, <1>5, <1>6, <1>9 DEF V2LogRecords
    <3> QED
      BY <1>7, <3>1
  <2> QED
    BY <1>8, <2>1 DEF V2Inv, V2Types
<1>18. V2!TradesOnce'
  BY <1>14, <1>16 DEF V2!TradesOnce
<1>19. V2!BlockRange' = V2!BlockRange
  OBVIOUS
<1> QED
  BY <1>1, <1>15, <1>17, <1>18, <1>19 DEF V2Traded

LEMMA V2EndBlockStep ==
  ASSUME V2Inv, V2!EndBlock
  PROVE  V2Inv'
<1>1. PICK k, L, all : k = Len(v2History) /\ L = Len(v2Logs) /\ all = v2History \o v2Logs
  OBVIOUS
<1>2. all \in Seq(V2LogRecords) /\ InParts(v2History, v2Logs, all, k, L)
  BY <1>1, PartsOf DEF V2Inv, V2Types
<1>3. /\ v2History' = all /\ v2Logs' = <<>> /\ block' = block + 1
      /\ v2Events' = v2Events \cup {v2Logs[n].number : n \in V2!Events}
      /\ v2Markets' = [t \in V2Tokens |-> V2!MarketAfter(t)]
  BY <1>1 DEF V2!EndBlock
<1>4. V2Types'
  <2>1. v2Events' \subseteq Nat
    <3>1. ASSUME NEW n \in V2!Events PROVE v2Logs[n].number \in Nat
      <4>1. v2Logs[n] \in V2LogRecords
        BY DEF V2!Events, V2Inv, V2Types
      <4> QED
        BY <4>1 DEF V2LogRecords
    <3> QED
      BY <1>3, <3>1 DEF V2Inv, V2Types
  <2>2. v2Markets' \in [V2Tokens -> V2MarketRows]
    <3>1. ASSUME NEW t \in V2Tokens PROVE V2!MarketAfter(t) \in V2MarketRows
      <4>1. PICK g \in [0..L -> V2MarketRows] : V2!MarketAfter(t) = g[L]
        BY <1>1, V2MarketAfterSteps DEF V2Inv
      <4>2. L \in Nat
        BY <1>2 DEF InParts
      <4> QED
        BY <4>1, <4>2
    <3> QED
      BY <1>3, <3>1
  <2>3. Len(v2Logs') <= (V2!BlockRange)'
    <3>1. Len(v2Logs') = 0
      BY <1>3
    <3>2. (V2!BlockRange)' = V2!BlockRange
      OBVIOUS
    <3> QED
      BY <3>1, <3>2, V2Room
  <2>4. block' \in Nat \ {0} /\ v2History' \in Seq(V2LogRecords) /\ v2Logs' \in Seq(V2LogRecords)
    BY <1>2, <1>3 DEF V2Inv, V2Types
  <2> QED
    BY <2>1, <2>2, <2>3, <2>4, V2TradesEndBlock DEF V2Types
<1>5. V2Fits(v2Logs, Len(v2History))'
  BY <1>3 DEF V2Fits
<1> QED
  BY <1>4, <1>5, V2MarketsEndBlock, V2TradesEndBlock DEF V2Inv

LEMMA NextV2 ==
  ASSUME V2Inv, [V2!Next]_v2Vars
  PROVE  V2Inv'
<1>1. PICK at : at = Len(v2History) + Len(v2Logs)
  OBVIOUS
<1>2. at \in Nat /\ V2!Place = at + 1 /\ block \in Nat
  BY <1>1 DEF V2Inv, V2Types, V2!Place
<1>3. ASSUME NEW source \in {"OLD_HELPER", "HELPER", "WRAPPER", "stranger"},
             NEW kind \in V2!MarketKinds \cup {"ImportedTokenTrade"}, NEW t \in V2Tokens,
             NEW who \in Users \cup {NoOne}, NEW pool \in V2Pools,
             kind = "CommunityCreated" => source = "OLD_HELPER" /\ pool.type = "social",
             source = "HELPER" => block >= HelperBlock,
             source = "stranger" => kind = "ImportedTokenTrade",
             kind \notin {"CommunityCreated", "ImportedPoolCreated"} => pool.type = "none",
             V2!Emit(<<V2!LogOf(V2!Place, source, kind, t, who, pool)>>)
      PROVE  V2Inv'
  <2>1. PICK log : log = V2!LogOf(V2!Place, source, kind, t, who, pool)
    OBVIOUS
  <2>2. /\ log = [number |-> at + 1, source |-> source, kind |-> kind, token |-> t,
                  account |-> who, pool |-> pool, community |-> at + 1]
    BY <1>2, <2>1 DEF V2!LogOf
  <2>3. log \in V2LogRecords
    BY <1>2, <2>2 DEF V2LogRecords
  <2>4. PICK new : new = <<log>>
    OBVIOUS
  <2>5. new \in Seq(V2LogRecords) /\ DOMAIN new = 1..1 /\ new[1] = log
    BY <2>3, <2>4
  <2>6. V2Fits(new, at)
    BY <1>3, <2>2, <2>5 DEF V2Fits
  <2>7. V2!Emit(new)
    BY <1>3, <2>1, <2>4
  <2> QED
    BY <1>1, <2>5, <2>6, <2>7, V2EmitStep
<1>4. \A type \in {"social", "trade"} : V2!Pool(type) \in V2Pools /\ V2!Pool(type).type = type
  BY <1>2 DEF V2!Pool, V2Pools
<1>5. V2!NoPool \in V2Pools /\ V2!NoPool.type = "none"
  BY DEF V2!NoPool, V2Pools
<1>6. ASSUME NEW t \in V2Tokens, NEW who \in Users, V2!CreateCommunityOld(t, who) PROVE V2Inv'
  BY <1>3, <1>4, <1>6 DEF V2!CreateCommunityOld, V2!MarketKinds
<1>7. ASSUME NEW t \in V2Tokens, NEW who \in Users, NEW type \in {"social", "trade"},
             V2!CreateCommunity(t, who, type)
      PROVE  V2Inv'
  <2>1. PICK pool \in V2Pools : pool = V2!Pool(type)
    BY <1>4
  <2>2. PICK e, f : /\ e = [number |-> at + 1, source |-> "HELPER", kind |-> "ImportedPoolCreated", token |-> t,
                            account |-> NoOne, pool |-> pool, community |-> at + 1]
                    /\ f = [number |-> at + 2, source |-> "HELPER", kind |-> "CommunityCreated", token |-> t,
                            account |-> who, pool |-> pool, community |-> at + 1]
    OBVIOUS
  <2>3. e \in V2LogRecords /\ f \in V2LogRecords
    BY <1>2, <2>2 DEF V2LogRecords, V2!MarketKinds
  <2>4. PICK new : new = <<e, f>>
    OBVIOUS
  <2>5. new \in Seq(V2LogRecords) /\ DOMAIN new = {1, 2} /\ new[1] = e /\ new[2] = f
    BY <2>3, <2>4
  <2>6. block >= HelperBlock /\ V2!Emit(new)
    <3>1. (at + 1) + 1 = at + 2
      BY <1>2
    <3> QED
      BY <1>2, <1>7, <2>1, <2>2, <2>4, <3>1 DEF V2!CreateCommunity, V2!LogOf
  <2>7. V2Fits(new, at)
    BY <2>2, <2>5, <2>6 DEF V2Fits
  <2> QED
    BY <1>1, <2>5, <2>6, <2>7, V2EmitStep
<1>8. ASSUME NEW t \in V2Tokens, NEW type \in {"social", "trade"}, V2!CreatePool(t, type) PROVE V2Inv'
  BY <1>3, <1>4, <1>8 DEF V2!CreatePool, V2!MarketKinds
<1>9. ASSUME NEW t \in V2Tokens, NEW who \in Users,
             NEW source \in {"OLD_HELPER", "WRAPPER"},
             NEW kind \in {"ImportedCommunityRecorded", "ImportedMarketRegistered", "ImportedMarketUpdated"},
             V2!NameDeployer(source, kind, t, who)
      PROVE  V2Inv'
  BY <1>3, <1>5, <1>9 DEF V2!NameDeployer, V2!MarketKinds
<1>10. ASSUME NEW t \in V2Tokens, NEW source \in {"WRAPPER", "stranger"}, V2!LogTrade(source, t) PROVE V2Inv'
  BY <1>3, <1>5, <1>10 DEF V2!LogTrade, V2!MarketKinds
<1>11. CASE V2!EndBlock
  BY <1>11, V2EndBlockStep
<1>12. CASE UNCHANGED v2Vars
  <2>1. /\ block' = block /\ v2Logs' = v2Logs /\ v2History' = v2History
        /\ v2Events' = v2Events /\ v2Markets' = v2Markets /\ v2Trades' = v2Trades
    BY <1>12 DEF v2Vars
  <2>2. V2Types' /\ V2Fits(v2Logs, Len(v2History))'
    BY <2>1 DEF V2Inv, V2Types, V2Fits
  <2>3. V2Follow'
    BY <2>1 DEF V2Inv, V2Follow, V2Announced, V2Named, V2Social, Follows, LastIn
  <2>4. V2Traded'
    BY <2>1 DEF V2Inv, V2Traded, V2!TradesOnce
  <2> QED
    BY <2>2, <2>3, <2>4 DEF V2Inv
<1> QED
  BY <1>6, <1>7, <1>8, <1>9, <1>10, <1>11, <1>12 DEF V2!Next, V2!ChainStep

LEMMA V2MarketsAre ==
  ASSUME V2Inv
  PROVE  V2!MarketsFollow
<1>1. ASSUME NEW t \in V2Tokens
      PROVE  /\ V2Announced(t) \subseteq v2Events
             /\ v2Markets[t].social_pool = IF V2Social(t) = {} THEN V2!NoPool ELSE v2History[Max(V2Social(t))].pool
             /\ v2Markets[t].deployer = IF V2Named(t) = {} THEN NoOne ELSE v2History[Max(V2Named(t))].account
             /\ V2Announced(t) # {} =>
                   /\ v2Markets[t].community = v2History[Max(V2Announced(t))].community
                   /\ v2Markets[t].updated = Max(V2Announced(t))
  <2>1. PICK A, N, C, k : A = V2Announced(t) /\ N = V2Named(t) /\ C = V2Social(t) /\ k = Len(v2History)
    OBVIOUS
  <2>2. /\ A \subseteq v2Events
        /\ Follows(v2Markets[t].social_pool, C, [n \in DOMAIN v2History |-> v2History[n].pool], V2!NoPool)
        /\ Follows(v2Markets[t].deployer, N, [n \in DOMAIN v2History |-> v2History[n].account], NoOne)
        /\ Follows(v2Markets[t].community, A, [n \in DOMAIN v2History |-> v2History[n].community], 0)
        /\ Follows(v2Markets[t].updated, A, [n \in DOMAIN v2History |-> n], 0)
    BY <2>1 DEF V2Inv, V2Follow
  <2>3. k \in Nat /\ DOMAIN v2History = 1..k /\ A \subseteq 1..k /\ N \subseteq 1..k /\ C \subseteq 1..k
    BY <2>1 DEF V2Inv, V2Types, V2Announced, V2Named, V2Social
  <2>4. ASSUME NEW S, S \subseteq 1..k, S # {} PROVE Max(S) \in 1..k /\ LastIn(Max(S), S)
    BY <2>3, <2>4, GreatestPosition DEF LastIn
  <2>5. v2Markets[t].social_pool = IF C = {} THEN V2!NoPool ELSE v2History[Max(C)].pool
    BY <2>2, <2>3, <2>4 DEF Follows
  <2>6. v2Markets[t].deployer = IF N = {} THEN NoOne ELSE v2History[Max(N)].account
    BY <2>2, <2>3, <2>4 DEF Follows
  <2>7. A # {} => v2Markets[t].community = v2History[Max(A)].community /\ v2Markets[t].updated = Max(A)
    <3> SUFFICES ASSUME A # {}
                 PROVE  v2Markets[t].community = v2History[Max(A)].community /\ v2Markets[t].updated = Max(A)
      OBVIOUS
    <3>1. PICK m : m = Max(A)
      OBVIOUS
    <3>2. m \in 1..k /\ LastIn(m, A)
      BY <2>3, <2>4, <3>1
    <3>3. v2Markets[t].community = v2History[m].community
      BY <2>2, <2>3, <3>2 DEF Follows
    <3>4. v2Markets[t].updated = m
      BY <2>2, <2>3, <3>2 DEF Follows
    <3> QED
      BY <3>1, <3>3, <3>4
  <2> QED
    BY <2>1, <2>2, <2>5, <2>6, <2>7
<1>2. \A S : V2!Max(S) = Max(S)
  BY DEF V2!Max, Max
<1> QED
  BY <1>1, <1>2 DEF V2!MarketsFollow, V2Announced, V2Named, V2Social

-----------------------------------------------------------------------------
(***************************************************************************)
(* Trades through the first wrapper.  The stores and the market rows       *)
(* follow the committed blocks; of the items the invariant says that their *)
(* receipts are of their own block, and that a call that failed left no    *)
(* amounts.                                                                *)
(***************************************************************************)
V1Calls ==
    [kind : {"CALL"}, tx : Nat, block : Nat, result : {"trade", "other", "failed"}, venue : Venues,
     is_buy : BOOLEAN, token : Tokens, recipient : Users \cup {NoOne}, sellsman : Users \cup {NoOne},
     own : Int, swaps : Seq(Int), fee : Int, native : Int]
V1Items ==
    [kind : {"IPSHARE"}, tx : Nat, block : Nat, account : Users]
      \cup [kind : V1!MarketKinds, tx : Nat, block : Nat, token : Tokens, account : Users]
      \cup V1Calls
V1MarketRows ==
    [deployer : Users \cup {NoOne}, source : V1!MarketKinds \cup {"NONE"}, social_pool : Nat]

V1Types ==
    /\ items \in Seq(V1Items) /\ history \in Seq(V1Items)
    /\ subjects \subseteq Users
    /\ deployers \in [Tokens -> Users \cup {NoOne}]
    /\ counter \in Nat
    /\ markets \in [Tokens -> V1MarketRows]
    /\ IsFiniteSet(trades)

AmountsFit(call) ==
    /\ call.result = "failed" => call.swaps = <<>> /\ call.fee = 0 /\ call.native = 0
    /\ call.result # "failed" =>
          /\ call.swaps # <<>>
          /\ IF call.venue = "V2" /\ call.is_buy THEN call.swaps[Len(call.swaps)] = call.own
             ELSE Head(call.swaps) = call.own

ReceiptsFit ==
    /\ \A n \in DOMAIN history : history[n].block < Len(history) /\ history[n].tx <= Len(history)
    /\ \A n \in DOMAIN items :
          /\ items[n].block = Len(history)
          /\ items[n].tx > Len(history) /\ items[n].tx <= Len(history) + Len(items)
          /\ items[n].kind = "CALL" => AmountsFit(items[n])

V1Registered(t) == {n \in DOMAIN history : history[n].kind \in V1!Deploying /\ history[n].token = t}
V1Announced(t) == {n \in DOMAIN history : history[n].kind \in V1!MarketKinds /\ history[n].token = t}
V1Created(t) == {n \in V1Announced(t) : history[n].kind = "COMMUNITY_CREATED"}

StoresFollow ==
    /\ subjects = {history[n].account : n \in {m \in DOMAIN history : history[m].kind = "IPSHARE"}}
    /\ \A t \in Tokens : Follows(deployers[t], V1Registered(t), [n \in DOMAIN history |-> history[n].account], NoOne)

V1Follow ==
    \A t \in Tokens :
        /\ Follows(markets[t].deployer, V1Announced(t), [n \in DOMAIN history |-> history[n].account], NoOne)
        /\ Follows(markets[t].source, V1Announced(t), [n \in DOMAIN history |-> history[n].kind], "NONE")
        /\ Follows(markets[t].social_pool, V1Created(t), [n \in DOMAIN history |-> history[n].tx], 0)

RowsCounted ==
    /\ counter = Cardinality(trades)
    /\ \A r \in trades : r.call \in 1..Len(history)

V1Inv ==
    /\ V1Types /\ ReceiptsFit /\ StoresFollow /\ V1Follow /\ RowsCounted
    /\ V1!TradesExact /\ V1!SellsmanAttributed

LEMMA SameLibrary ==
  /\ \A S : V1!Max(S) = Max(S) /\ V1!Min(S) = Min(S)
  /\ \A S : V1!Cardinality(S) = Cardinality(S)
  /\ \A f, S : V1!SumFunctionOnSet(f, S) = SumFunctionOnSet(f, S)
<1>1. \A S : V1!Max(S) = Max(S) /\ V1!Min(S) = Min(S)
  BY DEF V1!Max, Max, V1!Min, Min
<1>2. \A S : V1!Cardinality(S) = Cardinality(S)
  BY DEF V1!Cardinality, Cardinality
<1>3. \A f, S : V1!SumFunctionOnSet(f, S) = SumFunctionOnSet(f, S)
  BY DEF V1!SumFunctionOnSet, V1!FoldFunctionOnSet, V1!MapThenFoldSet,
         SumFunctionOnSet, FoldFunctionOnSet, MapThenFoldSet
<1> QED
  BY <1>1, <1>2, <1>3

LEMMA InitV1 ==
  V1!Init => V1Inv
<1> SUFFICES ASSUME V1!Init PROVE V1Inv
  OBVIOUS
<1>1. /\ items = <<>> /\ history = <<>> /\ subjects = {} /\ counter = 0 /\ trades = {}
      /\ deployers = [t \in Tokens |-> NoOne]
      /\ markets = [t \in Tokens |-> [deployer |-> NoOne, source |-> "NONE", social_pool |-> 0]]
      /\ DOMAIN history = {} /\ DOMAIN items = {}
  BY DEF V1!Init, V1!NoMarket
<1>2. IsFiniteSet(trades) /\ Cardinality(trades) = 0
  BY <1>1, FS_EmptySet
<1>3. V1Types
  <2>1. markets \in [Tokens -> V1MarketRows]
    BY <1>1 DEF V1MarketRows
  <2> QED
    BY <1>1, <1>2, <2>1 DEF V1Types
<1>4. ReceiptsFit
  BY <1>1 DEF ReceiptsFit
<1>5. StoresFollow /\ V1Follow
  <2>1. \A t : V1Announced(t) = {} /\ V1Registered(t) = {} /\ V1Created(t) = {}
    BY <1>1 DEF V1Announced, V1Registered, V1Created
  <2> QED
    BY <1>1, <2>1 DEF StoresFollow, V1Follow, Follows, LastIn
<1>6. RowsCounted
  BY <1>1, <1>2 DEF RowsCounted
<1>7. V1!TradesExact /\ V1!SellsmanAttributed
  BY <1>1 DEF V1!TradesExact, V1!SellsmanAttributed
<1> QED
  BY <1>3, <1>4, <1>5, <1>6, <1>7 DEF V1Inv

LEMMA V1EmitStep ==
  ASSUME V1Inv, NEW item \in V1Items, V1!Emit(item), item.block = Len(history), item.tx \in V1!Receipts,
         item.kind = "CALL" => AmountsFit(item)
  PROVE  V1Inv'
<1>1. PICK k, L : k = Len(history) /\ L = Len(items)
  OBVIOUS
<1>2. k \in Nat /\ L \in Nat /\ items \in Seq(V1Items) /\ DOMAIN items = 1..L
  BY <1>1 DEF V1Inv, V1Types
<1>3. /\ items' = Append(items, item) /\ history' = history /\ subjects' = subjects /\ deployers' = deployers
      /\ counter' = counter /\ markets' = markets /\ trades' = trades
  BY DEF V1!Emit
<1>4. /\ items' \in Seq(V1Items) /\ DOMAIN items' = 1..(L + 1) /\ Len(items') = L + 1
      /\ items'[L + 1] = item /\ \A n \in 1..L : items'[n] = items[n]
  BY <1>1, <1>2, <1>3
<1>5. item.tx > k /\ item.tx <= k + (L + 1)
  <2>1. V1!Place = k + L + 1
    BY <1>1, <1>2 DEF V1!Place, V1!Chain, V1Inv, V1Types
  <2>2. CASE items = <<>>
    BY <1>2, <2>1, <2>2 DEF V1!Receipts
  <2>3. CASE items # <<>>
    <3>1. L \in 1..L
      BY <1>1, <1>2, <2>3
    <3>2. items[L].tx > k /\ items[L].tx <= k + L
      BY <1>1, <1>2, <3>1 DEF V1Inv, ReceiptsFit
    <3>3. items[L].tx \in Nat
      BY <1>2, <3>1 DEF V1Items, V1Calls
    <3> QED
      BY <1>1, <1>2, <2>1, <2>3, <3>2, <3>3 DEF V1!Receipts
  <2> QED
    BY <2>2, <2>3
<1>6. V1Types'
  BY <1>3, <1>4 DEF V1Inv, V1Types
<1>7. ReceiptsFit'
  <2>1. ASSUME NEW n \in 1..(L + 1)
        PROVE  /\ items'[n].block = k
               /\ items'[n].tx > k /\ items'[n].tx <= k + (L + 1)
               /\ items'[n].kind = "CALL" => AmountsFit(items'[n])
    <3>1. CASE n \in 1..L
      <4>1. /\ items[n].block = k
            /\ items[n].tx > k /\ items[n].tx <= k + L
            /\ items[n].kind = "CALL" => AmountsFit(items[n])
        BY <1>1, <1>2, <3>1 DEF V1Inv, ReceiptsFit
      <4>2. items[n].tx \in Nat /\ items'[n] = items[n]
        BY <1>2, <1>4, <3>1 DEF V1Items, V1Calls
      <4> QED
        BY <1>2, <4>1, <4>2
    <3>2. CASE n = L + 1
      BY <1>1, <1>4, <1>5, <3>2
    <3> QED
      BY <1>2, <3>1, <3>2
  <2>2. \A n \in DOMAIN history : history[n].block < k /\ history[n].tx <= k
    BY <1>1 DEF V1Inv, ReceiptsFit
  <2>3. \A n \in DOMAIN items' :
          /\ items'[n].block = Len(history')
          /\ items'[n].tx > Len(history') /\ items'[n].tx <= Len(history') + Len(items')
          /\ items'[n].kind = "CALL" => AmountsFit(items'[n])
    BY <1>1, <1>3, <1>4, <2>1
  <2> QED
    BY <1>1, <1>3, <2>2, <2>3 DEF ReceiptsFit, AmountsFit
<1>8. StoresFollow' /\ V1Follow'
  BY <1>3 DEF V1Inv, StoresFollow, V1Follow, V1Registered, V1Announced, V1Created, Follows, LastIn
<1>9. RowsCounted'
  BY <1>3 DEF V1Inv, RowsCounted
<1>10. V1!SellsmanAttributed'
  BY <1>3 DEF V1Inv, V1!SellsmanAttributed
<1>11. V1!TradesExact'
  <2>1. \A c : V1!Beside(c)' = V1!Beside(c)
    BY <1>3 DEF V1!Beside
  <2>2. V1!TradesExact
    BY DEF V1Inv
  <2> QED
    BY <1>3, <2>1, <2>2, Zenon DEF V1!TradesExact
<1> QED
  BY <1>6, <1>7, <1>8, <1>9, <1>10, <1>11 DEF V1Inv

LEMMA V1MarketType ==
  ASSUME NEW row \in V1MarketRows, NEW item \in V1Items, item.kind \in V1!MarketKinds
  PROVE  V1!Market(row, item) \in V1MarketRows
<1>1. item.account \in Users /\ item.tx \in Nat
  BY DEF V1Items, V1Calls, V1!MarketKinds, V1!Deploying
<1>2. PICK pool \in Nat : pool = IF item.kind = "COMMUNITY_CREATED" THEN item.tx ELSE row.social_pool
  BY <1>1 DEF V1MarketRows
<1>3. V1!Market(row, item) = [deployer |-> item.account, source |-> item.kind, social_pool |-> pool]
  BY <1>2 DEF V1!Market
<1> QED
  BY <1>1, <1>2, <1>3 DEF V1MarketRows

\* MarketAfter sets what the market's announcements say, one after the other.
LEMMA V1MarketAfterSteps ==
  ASSUME V1Types, NEW t \in Tokens
  PROVE  \E g \in [0..Len(items) -> V1MarketRows] :
            /\ g[0] = markets[t]
            /\ \A n \in 1..Len(items) :
                  g[n] = IF V1!Announces(items[n], t) THEN V1!Market(g[n - 1], items[n]) ELSE g[n - 1]
            /\ V1!MarketAfter(t) = g[Len(items)]
<1>1. PICK L : L = Len(items)
  OBVIOUS
<1>0. L \in Nat
  BY <1>1 DEF V1Types
<1>2. PICK base \in V1MarketRows : base = markets[t]
  BY DEF V1Types
<1>3. PICK step : step = [x \in (1..L) \X V1MarketRows |->
                             IF V1!Announces(items[x[1]], t) THEN V1!Market(x[2], items[x[1]]) ELSE x[2]]
  OBVIOUS
<1>4. \A n \in 1..L, v \in V1MarketRows :
          step[<<n, v>>] = IF V1!Announces(items[n], t) THEN V1!Market(v, items[n]) ELSE v
  BY <1>3
<1>5. ASSUME NEW n \in 1..L, NEW v \in V1MarketRows PROVE step[<<n, v>>] \in V1MarketRows
  <2>1. items[n] \in V1Items
    BY <1>1 DEF V1Types
  <2>2. V1!Announces(items[n], t) => V1!Market(v, items[n]) \in V1MarketRows
    BY <2>1, V1MarketType DEF V1!Announces
  <2> QED
    BY <1>4, <2>2
<1>6. PICK g \in [0..L -> V1MarketRows] : StepsFrom(g, base, step, L)
  BY <1>0, <1>5, StepsExist
<1>7. /\ g[0] = base
      /\ \A n \in 1..L : g[n] = IF V1!Announces(items[n], t) THEN V1!Market(g[n - 1], items[n]) ELSE g[n - 1]
  <2>1. \A n \in 1..L : n - 1 \in 0..L
    BY <1>0
  <2> QED
    BY <1>4, <1>6, <2>1 DEF StepsFrom
<1> DEFINE Solves(f) == f = [n \in 0..L |-> IF n = 0 THEN base
                                ELSE IF V1!Announces(items[n], t) THEN V1!Market(f[n - 1], items[n])
                                ELSE f[n - 1]]
<1>8. Solves(g)
  <2>1. \A n \in 0..L : n = 0 \/ n \in 1..L
    BY <1>0
  <2>2. \A n \in 0..L : g[n] = IF n = 0 THEN base
                                ELSE IF V1!Announces(items[n], t) THEN V1!Market(g[n - 1], items[n])
                                ELSE g[n - 1]
    BY <1>7, <2>1
  <2> QED
    BY <2>2
<1>9. PICK f : Solves(f) /\ V1!MarketAfter(t) = f[L]
  <2>1. V1!MarketAfter(t) = (CHOOSE f : Solves(f))[L]
    BY <1>1, <1>2 DEF V1!MarketAfter
  <2> HIDE DEF Solves
  <2> QED
    BY <1>8, <2>1
<1> DEFINE Differ == {n \in 0..L : f[n] # g[n]}
<1>10. Differ = {}
  <2> SUFFICES ASSUME Differ # {} PROVE FALSE
    OBVIOUS
  <2>1. PICK n \in Differ : \A k \in Differ : n <= k
    <3>1. Differ \subseteq Nat
      BY <1>0
    <3> HIDE DEF Differ
    <3> QED
      BY <3>1, LeastNumber
  <2>2. n # 0
    BY <1>7, <1>9, <2>1
  <2>3. n \in 1..L /\ n - 1 \in 0..L /\ ~ (n <= n - 1)
    BY <1>0, <2>1, <2>2
  <2>4. f[n - 1] = g[n - 1]
    BY <2>1, <2>3
  <2> QED
    BY <1>7, <1>9, <2>1, <2>2, <2>3, <2>4
<1>11. f[L] = g[L]
  BY <1>0, <1>10
<1> QED
  BY <1>1, <1>2, <1>6, <1>7, <1>9, <1>11

\* The committed blocks and the items that join them.
ChainParts(k, L, all) ==
    /\ all \in Seq(V1Items) /\ InParts(history, items, all, k, L)
    /\ k \in Nat /\ L \in Nat /\ Len(all) = k + L /\ DOMAIN all = 1..(k + L)
    /\ DOMAIN history = 1..k /\ DOMAIN items = 1..L
    /\ \A n \in 1..k : n \in 1..(k + L) /\ all[n] = history[n] /\ history[n] \in V1Items
    /\ \A n \in 1..L : k + n \in 1..(k + L) /\ all[k + n] = items[n] /\ items[n] \in V1Items
    /\ \A n \in 1..(k + L) : n \in 1..k \/ \E m \in 1..L : n = k + m

LEMMA V1Parts ==
  ASSUME V1Inv, NEW k, k = Len(history), NEW L, L = Len(items), NEW all, all = history \o items
  PROVE  ChainParts(k, L, all)
<1>1. /\ history \in Seq(V1Items) /\ items \in Seq(V1Items)
      /\ all \in Seq(V1Items) /\ InParts(history, items, all, k, L)
  BY PartsOf DEF V1Inv, V1Types
<1>2. \A n \in DOMAIN history : history[n] \in V1Items
  BY <1>1
<1>3. \A n \in DOMAIN items : items[n] \in V1Items
  BY <1>1
<1> QED
  BY <1>1, <1>2, <1>3 DEF InParts, ChainParts

LEMMA V1MarketsEndBlock ==
  ASSUME V1Inv, V1!EndBlock
  PROVE  V1Follow'
<1>1. PICK k, L, all : k = Len(history) /\ L = Len(items) /\ all = history \o items
  OBVIOUS
<1>2. /\ k \in Nat /\ L \in Nat /\ DOMAIN all = 1..(k + L)
      /\ DOMAIN history = 1..k /\ DOMAIN items = 1..L
      /\ \A n \in 1..k : n \in 1..(k + L) /\ all[n] = history[n] /\ history[n] \in V1Items
      /\ \A n \in 1..L : k + n \in 1..(k + L) /\ all[k + n] = items[n] /\ items[n] \in V1Items
  <2>1. ChainParts(k, L, all)
    BY <1>1, V1Parts
  <2> QED
    BY <2>1 DEF ChainParts
<1>3. history' = all /\ markets' = [t \in Tokens |-> V1!MarketAfter(t)]
  BY <1>1 DEF V1!EndBlock, V1!Chain
<1>4. ASSUME NEW t \in Tokens
      PROVE  /\ Follows(markets'[t].deployer, V1Announced(t)', [n \in DOMAIN history' |-> history'[n].account], NoOne)
             /\ Follows(markets'[t].source, V1Announced(t)', [n \in DOMAIN history' |-> history'[n].kind], "NONE")
             /\ Follows(markets'[t].social_pool, V1Created(t)', [n \in DOMAIN history' |-> history'[n].tx], 0)
  <2>1. PICK g \in [0..L -> V1MarketRows] :
            /\ g[0] = markets[t]
            /\ \A n \in 1..L :
                  g[n] = IF V1!Announces(items[n], t) THEN V1!Market(g[n - 1], items[n]) ELSE g[n - 1]
            /\ V1!MarketAfter(t) = g[L]
    BY <1>1, V1MarketAfterSteps DEF V1Inv
  <2>2. markets'[t] = g[L]
    BY <1>3, <2>1
  <2>3. PICK A, C : A = V1Announced(t) /\ C = V1Created(t)
    OBVIOUS
  <2>4. PICK T, TC : /\ T = {n \in 1..L : items[n].kind \in V1!MarketKinds /\ items[n].token = t}
                     /\ TC = {n \in T : items[n].kind = "COMMUNITY_CREATED"}
    OBVIOUS
  <2>5. /\ A \subseteq 1..k /\ C \subseteq 1..k /\ T \subseteq 1..L /\ TC \subseteq T /\ TC \subseteq 1..L
        /\ \A n \in 1..L : n \in T <=> V1!Announces(items[n], t)
    BY <1>2, <2>3, <2>4 DEF V1Announced, V1Created, V1!Announces
  <2>6. V1Announced(t)' = Both(k, A, T)
    <3>1. PICK R : R = V1Announced(t)'
      OBVIOUS
    <3>2. InBoth(R, k, L, A, T)
      BY <1>2, <1>3, <2>3, <2>4, <3>1 DEF InBoth, V1Announced
    <3> QED
      BY <1>2, <2>5, <3>1, <3>2, BothAre
  <2>7. V1Created(t)' = Both(k, C, TC)
    <3>1. PICK R : R = V1Created(t)'
      OBVIOUS
    <3>2. InBoth(R, k, L, C, TC)
      BY <1>2, <1>3, <2>3, <2>4, <3>1 DEF InBoth, V1Announced, V1Created
    <3> QED
      BY <1>2, <2>5, <3>1, <3>2, BothAre
  <2>8. /\ Follows(g[0].deployer, A, [n \in DOMAIN history |-> history[n].account], NoOne)
        /\ Follows(g[0].source, A, [n \in DOMAIN history |-> history[n].kind], "NONE")
        /\ Follows(g[0].social_pool, C, [n \in DOMAIN history |-> history[n].tx], 0)
    BY <2>1, <2>3 DEF V1Inv, V1Follow
  <2>9. \A n \in 1..L : n - 1 \in 0..L /\ n \in 0..L /\ g[n - 1] \in V1MarketRows
    BY <1>2
  <2>10. ASSUME NEW n \in 1..L, n \notin T PROVE g[n] = g[n - 1] /\ n \notin TC
    BY <2>1, <2>5, <2>10
  <2>11. ASSUME NEW n \in T
         PROVE  /\ g[n].deployer = items[n].account /\ g[n].source = items[n].kind
                /\ n \in TC => g[n].social_pool = items[n].tx
                /\ n \notin TC => g[n].social_pool = g[n - 1].social_pool
    <3>1. n \in 1..L /\ g[n] = V1!Market(g[n - 1], items[n])
      BY <2>1, <2>5
    <3>2. n \in TC <=> items[n].kind = "COMMUNITY_CREATED"
      BY <2>4
    <3> QED
      BY <3>1, <3>2 DEF V1!Market
  <2>12. Follows(g[L].deployer, V1Announced(t)', [n \in DOMAIN history' |-> history'[n].account], NoOne)
    <3>1. PICK h : h = [n \in 0..L |-> g[n].deployer]
      OBVIOUS
    <3>2. PICK old, val : /\ old = [n \in DOMAIN history |-> history[n].account]
                          /\ val = [n \in DOMAIN history' |-> history'[n].account]
      OBVIOUS
    <3>3. /\ Follows(h[0], A, old, NoOne)
          /\ Continues(h, k, L, A, T, old, val)
          /\ h[L] = g[L].deployer
      <4>1. Follows(h[0], A, old, NoOne) /\ h[L] = g[L].deployer
        BY <1>2, <2>8, <3>1, <3>2
      <4>2. \A n \in A : old[n] = val[n]
        BY <1>2, <1>3, <2>5, <3>2
      <4>3. \A n \in 1..L : n \notin T => h[n] = h[n - 1]
        BY <2>9, <2>10, <3>1
      <4>4. \A n \in T : h[n] = val[k + n]
        BY <1>2, <1>3, <2>5, <2>9, <2>11, <3>1, <3>2
      <4> QED
        BY <4>1, <4>2, <4>3, <4>4 DEF Continues
    <3>4. Follows(h[L], Both(k, A, T), val, NoOne)
      BY <1>2, <2>5, <3>3, FollowsOn
    <3> QED
      BY <2>6, <3>2, <3>3, <3>4
  <2>13. Follows(g[L].source, V1Announced(t)', [n \in DOMAIN history' |-> history'[n].kind], "NONE")
    <3>1. PICK h : h = [n \in 0..L |-> g[n].source]
      OBVIOUS
    <3>2. PICK old, val : /\ old = [n \in DOMAIN history |-> history[n].kind]
                          /\ val = [n \in DOMAIN history' |-> history'[n].kind]
      OBVIOUS
    <3>3. /\ Follows(h[0], A, old, "NONE")
          /\ Continues(h, k, L, A, T, old, val)
          /\ h[L] = g[L].source
      <4>1. Follows(h[0], A, old, "NONE") /\ h[L] = g[L].source
        BY <1>2, <2>8, <3>1, <3>2
      <4>2. \A n \in A : old[n] = val[n]
        BY <1>2, <1>3, <2>5, <3>2
      <4>3. \A n \in 1..L : n \notin T => h[n] = h[n - 1]
        BY <2>9, <2>10, <3>1
      <4>4. \A n \in T : h[n] = val[k + n]
        BY <1>2, <1>3, <2>5, <2>9, <2>11, <3>1, <3>2
      <4> QED
        BY <4>1, <4>2, <4>3, <4>4 DEF Continues
    <3>4. Follows(h[L], Both(k, A, T), val, "NONE")
      BY <1>2, <2>5, <3>3, FollowsOn
    <3> QED
      BY <2>6, <3>2, <3>3, <3>4
  <2>14. Follows(g[L].social_pool, V1Created(t)', [n \in DOMAIN history' |-> history'[n].tx], 0)
    <3>1. PICK h : h = [n \in 0..L |-> g[n].social_pool]
      OBVIOUS
    <3>2. PICK old, val : /\ old = [n \in DOMAIN history |-> history[n].tx]
                          /\ val = [n \in DOMAIN history' |-> history'[n].tx]
      OBVIOUS
    <3>3. /\ Follows(h[0], C, old, 0)
          /\ Continues(h, k, L, C, TC, old, val)
          /\ h[L] = g[L].social_pool
      <4>1. Follows(h[0], C, old, 0) /\ h[L] = g[L].social_pool
        BY <1>2, <2>8, <3>1, <3>2
      <4>2. \A n \in C : old[n] = val[n]
        BY <1>2, <1>3, <2>5, <3>2
      <4>3. \A n \in 1..L : n \notin TC => h[n] = h[n - 1]
        BY <2>9, <2>10, <2>11, <3>1
      <4>4. \A n \in TC : h[n] = val[k + n]
        BY <1>2, <1>3, <2>5, <2>9, <2>11, <3>1, <3>2
      <4> QED
        BY <4>1, <4>2, <4>3, <4>4 DEF Continues
    <3>4. Follows(h[L], Both(k, C, TC), val, 0)
      BY <1>2, <2>5, <3>3, FollowsOn
    <3> QED
      BY <2>7, <3>2, <3>3, <3>4
  <2> QED
    BY <2>2, <2>12, <2>13, <2>14
<1> QED
  BY <1>4 DEF V1Follow, Follows, LastIn

\* What follows the last of two parts of the chain.
LEMMA FollowsLast ==
  ASSUME NEW k \in Nat, NEW L \in Nat, NEW S, S \subseteq 1..k, NEW T, T \subseteq 1..L,
         NEW old, NEW val, \A n \in S : old[n] = val[n],
         NEW v, NEW w, NEW default, Follows(v, S, old, default),
         w = IF T = {} THEN v ELSE val[k + Max(T)]
  PROVE  Follows(w, Both(k, S, T), val, default)
<1>0. PICK R : R = Both(k, S, T)
  OBVIOUS
<1>1. LastsOfBoth(k, L, S, T, R)
  BY <1>0, LastOfBoth
<1>2. CASE T = {}
  <2>1. \A n : LastIn(n, S) => n \in S
    BY DEF LastIn
  <2> QED
    BY <1>0, <1>1, <1>2, <2>1 DEF Follows, LastsOfBoth
<1>3. CASE T # {}
  <2>1. \A n : LastIn(n, T) => n = Max(T)
    BY LastAmong
  <2>2. \A n : LastIn(n, R) => LastIn(n - k, T) /\ k + (n - k) = n
    BY <1>1, <1>3 DEF LastsOfBoth
  <2>3. \A n : LastIn(n, R) => n = k + Max(T)
    BY <2>1, <2>2
  <2> QED
    BY <1>0, <1>1, <1>3, <2>3 DEF Follows, LastsOfBoth
<1> QED
  BY <1>2, <1>3

\* get_at gives the deployer that the items up to the n-th say.
LEMMA DeployerAtIs ==
  ASSUME V1Inv, NEW t \in Tokens, NEW n \in 0..Len(items), NEW all, all = history \o items,
         NEW T, T = {m \in 1..n : items[m].kind \in V1!Deploying /\ items[m].token = t}
  PROVE  Follows(V1!DeployerAt(n, t), Both(Len(history), V1Registered(t), T),
                 [m \in DOMAIN all |-> all[m].account], NoOne)
<1>1. PICK k, L : k = Len(history) /\ L = Len(items)
  OBVIOUS
<1>2. /\ k \in Nat /\ L \in Nat /\ DOMAIN all = 1..(k + L)
      /\ DOMAIN history = 1..k /\ DOMAIN items = 1..L
      /\ \A m \in 1..k : m \in 1..(k + L) /\ all[m] = history[m]
      /\ \A m \in 1..L : k + m \in 1..(k + L) /\ all[k + m] = items[m]
  <2>1. ChainParts(k, L, all)
    BY <1>1, V1Parts
  <2> QED
    BY <2>1 DEF ChainParts
<1>3. PICK S : S = V1Registered(t)
  OBVIOUS
<1>4. PICK old, val : /\ old = [m \in DOMAIN history |-> history[m].account]
                      /\ val = [m \in DOMAIN all |-> all[m].account]
  OBVIOUS
<1>5. S \subseteq 1..k /\ T \subseteq 1..L /\ n \in Nat /\ T \subseteq 1..n
  BY <1>1, <1>2, <1>3 DEF V1Registered
<1>6. \A m \in S : old[m] = val[m]
  BY <1>2, <1>4, <1>5
<1>7. Follows(deployers[t], S, old, NoOne)
  BY <1>3, <1>4 DEF V1Inv, StoresFollow
<1>8. V1!DeployerAt(n, t) = IF T = {} THEN deployers[t] ELSE val[k + Max(T)]
  <2>1. V1!DeployerAt(n, t) = IF T = {} THEN deployers[t] ELSE items[V1!Max(T)].account
    BY DEF V1!DeployerAt
  <2>2. T # {} => Max(T) \in 1..L
    BY <1>5, GreatestPosition
  <2>3. T # {} => items[Max(T)].account = val[k + Max(T)]
    BY <1>2, <1>4, <2>2
  <2> QED
    BY <2>1, <2>3, SameLibrary
<1>9. Follows(V1!DeployerAt(n, t), Both(k, S, T), val, NoOne)
  BY <1>2, <1>5, <1>6, <1>7, <1>8, FollowsLast
<1> QED
  BY <1>1, <1>3, <1>4, <1>9

LEMMA V1StoresEndBlock ==
  ASSUME V1Inv, V1!EndBlock
  PROVE  StoresFollow' /\ subjects' \subseteq Users /\ deployers' \in [Tokens -> Users \cup {NoOne}]
<1>1. PICK k, L, all : k = Len(history) /\ L = Len(items) /\ all = history \o items
  OBVIOUS
<1>2. /\ k \in Nat /\ L \in Nat /\ DOMAIN all = 1..(k + L)
      /\ DOMAIN history = 1..k /\ DOMAIN items = 1..L
      /\ \A n \in 1..k : n \in 1..(k + L) /\ all[n] = history[n] /\ history[n] \in V1Items
      /\ \A n \in 1..L : k + n \in 1..(k + L) /\ all[k + n] = items[n] /\ items[n] \in V1Items
      /\ \A n \in 1..(k + L) : n \in 1..k \/ \E m \in 1..L : n = k + m
  <2>1. ChainParts(k, L, all)
    BY <1>1, V1Parts
  <2> QED
    BY <2>1 DEF ChainParts
<1>3. /\ history' = all
      /\ subjects' = subjects \cup {items[n].account : n \in {m \in DOMAIN items : items[m].kind = "IPSHARE"}}
      /\ deployers' = [t \in Tokens |-> V1!DeployerAt(L, t)]
  BY <1>1 DEF V1!EndBlock, V1!Chain
<1>4. subjects = {history[n].account : n \in {m \in DOMAIN history : history[m].kind = "IPSHARE"}}
  BY DEF V1Inv, StoresFollow
<1>5. subjects' = {all[n].account : n \in {m \in DOMAIN all : all[m].kind = "IPSHARE"}}
  <2>1. ASSUME NEW who \in subjects' PROVE \E n \in 1..(k + L) : all[n].kind = "IPSHARE" /\ who = all[n].account
    <3>1. CASE who \in subjects
      BY <1>2, <1>4, <3>1
    <3>2. CASE who \notin subjects
      <4>1. PICK n \in 1..L : items[n].kind = "IPSHARE" /\ who = items[n].account
        BY <1>2, <1>3, <2>1, <3>2
      <4>2. k + n \in 1..(k + L) /\ all[k + n] = items[n]
        BY <1>2
      <4> QED
        BY <4>1, <4>2
    <3> QED
      BY <3>1, <3>2
  <2>2. ASSUME NEW n \in 1..(k + L), all[n].kind = "IPSHARE" PROVE all[n].account \in subjects'
    <3>1. CASE n \in 1..k
      BY <1>2, <1>3, <1>4, <2>2, <3>1
    <3>2. CASE \E m \in 1..L : n = k + m
      BY <1>2, <1>3, <2>2, <3>2
    <3> QED
      BY <1>2, <3>1, <3>2
  <2> QED
    BY <1>2, <2>1, <2>2
<1>6. ASSUME NEW t \in Tokens
      PROVE  Follows(deployers'[t], V1Registered(t)', [n \in DOMAIN history' |-> history'[n].account], NoOne)
  <2>1. PICK S, T : /\ S = V1Registered(t)
                    /\ T = {m \in 1..L : items[m].kind \in V1!Deploying /\ items[m].token = t}
    OBVIOUS
  <2>2. L \in 0..Len(items)
    BY <1>1, <1>2
  <2>3. Follows(V1!DeployerAt(L, t), Both(k, S, T), [n \in DOMAIN all |-> all[n].account], NoOne)
    BY <1>1, <2>1, <2>2, DeployerAtIs
  <2>4. V1Registered(t)' = Both(k, S, T)
    <3>1. PICK R : R = V1Registered(t)'
      OBVIOUS
    <3>2. InBoth(R, k, L, S, T)
      BY <1>2, <1>3, <2>1, <3>1 DEF InBoth, V1Registered
    <3>3. S \subseteq 1..k /\ T \subseteq 1..L
      BY <1>2, <2>1 DEF V1Registered
    <3> QED
      BY <1>2, <3>1, <3>2, <3>3, BothAre
  <2> QED
    BY <1>3, <2>3, <2>4
<1>7. subjects' \subseteq Users
  <2>1. \A n \in 1..L : items[n].kind = "IPSHARE" => items[n].account \in Users
    BY <1>2 DEF V1Items, V1Calls, V1!MarketKinds, V1!Deploying
  <2> QED
    BY <1>2, <1>3, <2>1 DEF V1Inv, V1Types
<1>8. deployers' \in [Tokens -> Users \cup {NoOne}]
  <2>1. ASSUME NEW t \in Tokens PROVE V1!DeployerAt(L, t) \in Users \cup {NoOne}
    <3>1. PICK T : T = {m \in 1..L : items[m].kind \in V1!Deploying /\ items[m].token = t}
      OBVIOUS
    <3>2. V1!DeployerAt(L, t) = IF T = {} THEN deployers[t] ELSE items[V1!Max(T)].account
      BY <3>1 DEF V1!DeployerAt
    <3>3. T # {} => Max(T) \in T /\ T \subseteq 1..L
      BY <1>2, <3>1, GreatestPosition
    <3>4. \A m \in T : items[m].account \in Users
      BY <1>2, <3>1 DEF V1Items, V1Calls, V1!Deploying
    <3>5. deployers[t] \in Users \cup {NoOne}
      BY DEF V1Inv, V1Types
    <3> QED
      BY <3>2, <3>3, <3>4, <3>5, SameLibrary
  <2> QED
    BY <1>3, <2>1
<1>9. StoresFollow'
  BY <1>3, <1>5, <1>6 DEF StoresFollow, Follows, LastIn
<1> QED
  BY <1>7, <1>8, <1>9

\* A sum with one value that may not be zero.
LEMMA SumOfOne ==
  ASSUME NEW f, NEW S, IsFiniteSet(S), NEW x \in S, f[x] \in Int, \A y \in S \ {x} : f[y] = 0
  PROVE  SumFunctionOnSet(f, S) = f[x]
<1>1. NumericOn(f, S)
  BY DEF NumericOn
<1>2. IsFiniteSet(S \ {x})
  BY FS_RemoveElement
<1>3. SumFunctionOnSet(f, S \ {x}) = 0
  BY <1>2, SumZero
<1> QED
  BY <1>1, <1>3, SumElement

(***************************************************************************)
(* The amounts of the n-th item, a trade, are its own where the other      *)
(* calls O that left logs in its receipt leave no doubt.                   *)
(***************************************************************************)
AmountsOwn(n, O) ==
    /\ (\A m \in O : items[m].token # items[n].token) => V1!TokenFee(n) = items[n].fee
    /\ (\A m \in O : items[m].venue = items[n].venue =>
                        IF items[n].venue = "V2" /\ items[n].is_buy THEN m < n ELSE m > n)
          => V1!SwapAmount(n) = items[n].own
    /\ (items[n].is_buy \/ \A m \in O : items[m].is_buy \/ items[m].recipient # items[n].recipient)
          => V1!NativeAmount(n) = items[n].native

LEMMA CallAmounts ==
  ASSUME V1Inv, NEW n \in V1!Trades,
         NEW O, O = {m \in DOMAIN items \ {n} : /\ items[m].kind = "CALL" /\ items[m].tx = items[n].tx
                                                /\ items[m].result # "failed"}
  PROVE  AmountsOwn(n, O)
<1>1. PICK L : L = Len(items)
  OBVIOUS
<1>2. L \in Nat /\ items \in Seq(V1Items) /\ DOMAIN items = 1..L
  BY <1>1 DEF V1Inv, V1Types
<1>3. n \in 1..L /\ items[n].kind = "CALL" /\ items[n].result = "trade"
  BY <1>2 DEF V1!Trades
<1>4. PICK C : C = V1!Calls(items[n].tx)
  OBVIOUS
<1>5. /\ C \subseteq 1..L /\ n \in C
      /\ \A m \in C : items[m].kind = "CALL" /\ (m = n \/ m \in O \/ items[m].result = "failed")
  BY <1>2, <1>3, <1>4 DEF V1!Calls
<1>6. ASSUME NEW m \in C PROVE items[m] \in V1Calls /\ AmountsFit(items[m])
  <2>1. m \in DOMAIN items /\ items[m].kind = "CALL"
    BY <1>2, <1>5
  <2>2. PICK q : q = items[m]
    OBVIOUS
  <2>3. q \in V1Items /\ q.kind = "CALL"
    BY <1>2, <2>1, <2>2
  <2>4. q \in V1Calls
    BY <2>3 DEF V1Items, V1!MarketKinds, V1!Deploying
  <2> QED
    BY <2>1, <2>2, <2>4 DEF V1Inv, ReceiptsFit
<1>7. \A S : S \subseteq C => IsFiniteSet(S)
  <2>1. IsFiniteSet(1..L)
    BY <1>2, FS_Interval
  <2> QED
    BY <1>5, <2>1, FS_Subset
<1>8. (\A m \in O : items[m].token # items[n].token) => V1!TokenFee(n) = items[n].fee
  <2> SUFFICES ASSUME \A m \in O : items[m].token # items[n].token PROVE V1!TokenFee(n) = items[n].fee
    OBVIOUS
  <2>1. PICK S : S = {m \in C : items[m].token = items[n].token}
    OBVIOUS
  <2>2. PICK f : f = [m \in S |-> items[m].fee]
    OBVIOUS
  <2>3. n \in S /\ S \subseteq C
    BY <1>5, <2>1
  <2>4. f[n] = items[n].fee /\ f[n] \in Int
    BY <1>6, <2>2, <2>3 DEF V1Calls
  <2>5. ASSUME NEW m \in S \ {n} PROVE f[m] = 0
    <3>1. items[m].result = "failed"
      BY <1>5, <2>1, <2>5
    <3> QED
      BY <1>6, <2>1, <2>2, <3>1 DEF AmountsFit
  <2>6. SumFunctionOnSet(f, S) = items[n].fee
    BY <1>7, <2>3, <2>4, <2>5, SumOfOne
  <2>7. V1!TokenFee(n) = V1!SumFunctionOnSet(f, S)
    BY <1>4, <2>1, <2>2 DEF V1!TokenFee, V1!SumOf
  <2> QED
    BY <2>6, <2>7, SameLibrary
<1>9. (items[n].is_buy \/ \A m \in O : items[m].is_buy \/ items[m].recipient # items[n].recipient)
          => V1!NativeAmount(n) = items[n].native
  <2>1. CASE items[n].is_buy
    BY <2>1 DEF V1!NativeAmount
  <2>2. ASSUME ~ items[n].is_buy, \A m \in O : items[m].is_buy \/ items[m].recipient # items[n].recipient
        PROVE  V1!NativeAmount(n) = items[n].native
    <3>1. PICK S : S = {m \in C : ~ items[m].is_buy /\ items[m].recipient = items[n].recipient}
      OBVIOUS
    <3>2. PICK f : f = [m \in S |-> items[m].native]
      OBVIOUS
    <3>3. n \in S /\ S \subseteq C
      BY <1>5, <2>2, <3>1
    <3>4. f[n] = items[n].native /\ f[n] \in Int
      BY <1>6, <3>2, <3>3 DEF V1Calls
    <3>5. ASSUME NEW m \in S \ {n} PROVE f[m] = 0
      <4>1. items[m].result = "failed"
        BY <1>5, <2>2, <3>1, <3>5
      <4> QED
        BY <1>6, <3>1, <3>2, <4>1 DEF AmountsFit
    <3>6. SumFunctionOnSet(f, S) = items[n].native
      BY <1>7, <3>3, <3>4, <3>5, SumOfOne
    <3>7. V1!NativeAmount(n) = V1!SumFunctionOnSet(f, S)
      BY <1>4, <2>2, <3>1, <3>2 DEF V1!NativeAmount, V1!SumOf
    <3> QED
      BY <3>6, <3>7, SameLibrary
  <2> QED
    BY <2>1, <2>2
<1>10. (\A m \in O : items[m].venue = items[n].venue =>
                        IF items[n].venue = "V2" /\ items[n].is_buy THEN m < n ELSE m > n)
          => V1!SwapAmount(n) = items[n].own
  <2> SUFFICES ASSUME \A m \in O : items[m].venue = items[n].venue =>
                        IF items[n].venue = "V2" /\ items[n].is_buy THEN m < n ELSE m > n
               PROVE  V1!SwapAmount(n) = items[n].own
    OBVIOUS
  <2>1. PICK S : S = V1!Swapping(items[n].tx, items[n].venue)
    OBVIOUS
  <2>2. /\ n \in S /\ S \subseteq C /\ S \subseteq 1..L
        /\ \A m \in S : items[m].venue = items[n].venue /\ (m = n \/ m \in O)
    <3>1. S = {m \in C : items[m].venue = items[n].venue /\ items[m].swaps # <<>>}
      BY <1>4, <2>1 DEF V1!Swapping
    <3>2. \A m \in C : items[m].swaps # <<>> <=> items[m].result # "failed"
      BY <1>6 DEF AmountsFit
    <3> QED
      BY <1>3, <1>5, <3>1, <3>2
  <2>3. CASE items[n].venue = "V2" /\ items[n].is_buy
    <3>1. \A m \in S : m <= n
      BY <1>2, <1>3, <2>2, <2>3
    <3>2. Max(S) = n
      <4>1. LastIn(n, S)
        BY <2>2, <3>1 DEF LastIn
      <4> QED
        BY <1>2, <2>2, <4>1, LastAmong
    <3>3. V1!SwapAmount(n) = items[n].swaps[Len(items[n].swaps)]
      BY <2>1, <2>3, <3>2, SameLibrary DEF V1!SwapAmount, V1!LastSwap
    <3> QED
      BY <1>3, <1>5, <1>6, <2>3, <3>3 DEF AmountsFit
  <2>4. CASE ~ (items[n].venue = "V2" /\ items[n].is_buy)
    <3>1. \A m \in S : n <= m
      BY <1>2, <1>3, <2>2, <2>4
    <3>2. Min(S) = n
      <4>1. Min(S) \in S /\ \A m \in S : Min(S) <= m
        <5>1. S \subseteq Nat /\ S # {}
          BY <1>2, <2>2
        <5> QED
          BY <5>1, LeastPosition
      <4>2. Min(S) <= n /\ n <= Min(S) /\ Min(S) \in 1..L
        BY <2>2, <3>1, <4>1
      <4> QED
        BY <1>2, <1>3, <4>2
    <3>3. V1!SwapAmount(n) = Head(items[n].swaps)
      BY <2>1, <2>4, <3>2, SameLibrary DEF V1!SwapAmount, V1!FirstSwap
    <3> QED
      BY <1>3, <1>5, <1>6, <2>4, <3>3 DEF AmountsFit
  <2> QED
    BY <2>3, <2>4
<1> QED
  BY <1>8, <1>9, <1>10 DEF AmountsOwn

\* Who a trade of the open block is credited to.
SellsmanFits(n, all, named, R) ==
    V1!Sellsman(n) = IF \E m \in named : all[m].block < items[n].block THEN items[n].sellsman
                     ELSE IF R = {} THEN FeeAddress ELSE all[Max(R)].account

LEMMA SellsmanIs ==
  ASSUME V1Inv, NEW n \in V1!Trades, NEW k, k = Len(history), NEW all, all = history \o items,
         NEW named, named = {m \in 1..((k + n) - 1) : all[m].kind = "IPSHARE" /\ all[m].account = items[n].sellsman},
         NEW R, R = {m \in 1..((k + n) - 1) : all[m].kind \in V1!Deploying /\ all[m].token = items[n].token}
  PROVE  SellsmanFits(n, all, named, R)
<1>1. PICK L, t, last_one : L = Len(items) /\ t = items[n].token /\ last_one = (k + n) - 1
  OBVIOUS
<1>2. /\ k \in Nat /\ L \in Nat /\ DOMAIN all = 1..(k + L)
      /\ DOMAIN history = 1..k /\ DOMAIN items = 1..L
      /\ \A m \in 1..k : m \in 1..(k + L) /\ all[m] = history[m] /\ history[m] \in V1Items
      /\ \A m \in 1..L : k + m \in 1..(k + L) /\ all[k + m] = items[m] /\ items[m] \in V1Items
      /\ \A m \in 1..(k + L) : m \in 1..k \/ \E i \in 1..L : m = k + i
  <2>1. ChainParts(k, L, all)
    BY <1>1, V1Parts
  <2> QED
    BY <2>1 DEF ChainParts
<1>3. n \in 1..L /\ items[n].kind = "CALL"
  BY <1>2 DEF V1!Trades
<1>4. t \in Tokens
  BY <1>1, <1>2, <1>3 DEF V1Items, V1Calls, V1!MarketKinds, V1!Deploying
<1>5. /\ \A m \in 1..k : history[m].block < k
      /\ \A m \in 1..L : items[m].block = k
  BY <1>1, <1>2 DEF V1Inv, ReceiptsFit
<1>6. last_one \in Nat /\ last_one <= k + L /\ k <= last_one
  BY <1>1, <1>2, <1>3
<1>7. (\E m \in named : all[m].block < items[n].block) <=> items[n].sellsman \in subjects
  <2>1. subjects = {history[m].account : m \in {o \in DOMAIN history : history[o].kind = "IPSHARE"}}
    BY DEF V1Inv, StoresFollow
  <2>2. ASSUME NEW m \in named, all[m].block < items[n].block PROVE items[n].sellsman \in subjects
    <3>0. m \in 1..last_one /\ all[m].kind = "IPSHARE" /\ all[m].account = items[n].sellsman
      BY <1>1
    <3>1. m \in 1..(k + L) /\ all[m].kind = "IPSHARE" /\ all[m].account = items[n].sellsman
      BY <1>2, <1>6, <3>0
    <3>2. m \in 1..k
      <4> SUFFICES ASSUME m \notin 1..k PROVE FALSE
        OBVIOUS
      <4>1. PICK i \in 1..L : m = k + i
        BY <1>2, <3>1
      <4>2. all[m].block = k /\ items[n].block = k
        BY <1>2, <1>3, <1>5, <4>1
      <4> QED
        BY <1>2, <2>2, <4>2
    <3>3. history[m].kind = "IPSHARE" /\ history[m].account = items[n].sellsman
      BY <1>2, <3>1, <3>2
    <3> QED
      BY <1>2, <2>1, <3>2, <3>3
  <2>3. ASSUME items[n].sellsman \in subjects PROVE \E m \in named : all[m].block < items[n].block
    <3>1. PICK m \in 1..k : history[m].kind = "IPSHARE" /\ history[m].account = items[n].sellsman
      BY <1>2, <2>1, <2>3
    <3>2. m \in 1..last_one
      BY <1>2, <1>6
    <3>3. m \in named
      BY <1>1, <1>2, <3>1, <3>2
    <3>4. all[m].block < items[n].block
      BY <1>2, <1>3, <1>5
    <3> QED
      BY <3>3, <3>4
  <2> QED
    BY <2>2, <2>3
<1>8. V1!DeployerAt(n, t) = IF R = {} THEN NoOne ELSE all[Max(R)].account
  <2>1. PICK S, T : /\ S = V1Registered(t)
                    /\ T = {m \in 1..n : items[m].kind \in V1!Deploying /\ items[m].token = t}
    OBVIOUS
  <2>2. PICK val : val = [m \in DOMAIN all |-> all[m].account]
    OBVIOUS
  <2>3. Follows(V1!DeployerAt(n, t), Both(k, S, T), val, NoOne)
    <3>1. n \in 0..Len(items)
      BY <1>1, <1>2, <1>3
    <3> QED
      BY <1>4, <2>1, <2>2, <3>1, DeployerAtIs
  <2>4. S \subseteq 1..k /\ T \subseteq 1..L
    BY <1>2, <1>3, <2>1 DEF V1Registered
  <2>5. R \subseteq 1..last_one /\ R \subseteq 1..(k + L)
    BY <1>1, <1>2, <1>6
  <2>6. InBoth(R, k, L, S, T)
    <3>1. \A m \in 1..k : m \in R <=> m \in S
      <4>1. \A m \in 1..k : m \in 1..last_one
        BY <1>2, <1>6
      <4> QED
        BY <1>1, <1>2, <2>1, <4>1 DEF V1Registered
    <3>2. ASSUME NEW m \in 1..L PROVE k + m \in R <=> m \in T
      <4>1. items[n].kind \notin V1!Deploying
        BY <1>3 DEF V1!Deploying
      <4>2. k + m \in 1..last_one <=> m \in 1..n /\ m # n
        BY <1>1, <1>2, <1>3
      <4>3. k + m \in R <=> k + m \in 1..last_one /\ items[m].kind \in V1!Deploying /\ items[m].token = t
        BY <1>1, <1>2
      <4>4. m \in T <=> m \in 1..n /\ items[m].kind \in V1!Deploying /\ items[m].token = t
        BY <2>1
      <4> QED
        BY <4>1, <4>2, <4>3, <4>4
    <3> QED
      BY <2>5, <3>1, <3>2 DEF InBoth
  <2>7. R = Both(k, S, T)
    BY <1>2, <2>4, <2>6, BothAre
  <2>8. Follows(V1!DeployerAt(n, t), R, val, NoOne)
    BY <2>3, <2>7, Zenon
  <2>9. V1!DeployerAt(n, t) = IF R = {} THEN NoOne ELSE val[Max(R)]
    <3>1. R \subseteq 1..last_one /\ last_one \in Nat
      BY <1>6, <2>5
    <3> QED
      BY ONLY <2>8, <3>1, FollowsMax
  <2>10. R # {} => Max(R) \in DOMAIN all
    <3>1. R \subseteq 1..last_one /\ last_one \in Nat
      BY <1>6, <2>5
    <3>2. R # {} => Max(R) \in R
      BY ONLY <3>1, GreatestPosition
    <3> QED
      BY <1>2, <2>5, <3>2
  <2> QED
    BY <2>2, <2>9, <2>10
<1>9. R # {} => all[Max(R)].account \in Users
  <2> SUFFICES ASSUME R # {} PROVE all[Max(R)].account \in Users
    OBVIOUS
  <2>1. PICK m : m = Max(R)
    OBVIOUS
  <2>2. R \subseteq 1..last_one
    BY <1>1
  <2>3. m \in R /\ m \in 1..(k + L)
    <3>1. m \in R
      BY <1>6, <2>1, <2>2, GreatestPosition
    <3>2. m \in 1..last_one
      BY <2>2, <3>1
    <3>3. last_one \in Nat /\ last_one <= k + L /\ k \in Nat /\ L \in Nat
      BY <1>2, <1>6
    <3>4. m \in 1..(k + L)
      BY ONLY <3>2, <3>3
    <3> QED
      BY <3>1, <3>4
  <2>4. all[m] \in V1Items /\ all[m].kind \in V1!Deploying
    BY <1>2, <2>3
  <2>5. all[m].account \in Users
    BY <2>4 DEF V1Items, V1Calls, V1!Deploying
  <2> QED
    BY <2>1, <2>5
<1>10. V1!DeployerAt(n, t) # NoOne <=> R # {}
  BY <1>8, <1>9, ImportAssumption
<1>11. V1!Sellsman(n) = IF items[n].sellsman \in subjects THEN items[n].sellsman
                        ELSE IF V1!DeployerAt(n, t) # NoOne THEN V1!DeployerAt(n, t) ELSE FeeAddress
  BY <1>1 DEF V1!Sellsman
<1> QED
  BY <1>7, <1>8, <1>10, <1>11 DEF SellsmanFits

-----------------------------------------------------------------------------
(***************************************************************************)
(* What V1!TradesExact and V1!SellsmanAttributed say of one row or call,   *)
(* for the items q of a chain and its rows s.                              *)
(***************************************************************************)
OthersIn(q, c) ==
    {m \in DOMAIN q \ {c} : q[m].kind = "CALL" /\ q[m].tx = q[c].tx /\ q[m].result # "failed"}

CallCounted(c, q, s) ==
    V1!Cardinality({r \in s : r.call = c}) = IF q[c].kind = "CALL" /\ q[c].result = "trade" THEN 1 ELSE 0

RowNumbered(r, s) == r.entity_index = V1!Cardinality({x \in s : x.call <= r.call})

AmountsFrom(r, call, c, q, O) ==
    /\ (\A m \in O : q[m].token # call.token) => r.fee = call.fee
    /\ (/\ \A m \in O : q[m].token # call.token
        /\ \A m \in O : q[m].venue = call.venue =>
                           IF call.venue = "V2" /\ call.is_buy THEN m < c ELSE m > c)
          => r.token_amount = call.own + (IF call.is_buy THEN -call.fee ELSE call.fee)
    /\ (call.is_buy \/ \A m \in O : q[m].is_buy \/ q[m].recipient # call.recipient) => r.native = call.native

RowAmounts(r, q) == AmountsFrom(r, q[r.call], r.call, q, OthersIn(q, r.call))

NamedIn(q, c) == {m \in 1..(c - 1) : q[m].kind = "IPSHARE" /\ q[m].account = q[c].sellsman}
RegisteredIn(q, c) == {m \in 1..(c - 1) : q[m].kind \in V1!Deploying /\ q[m].token = q[c].token}

RowAttributed(r, q) ==
    r.sellsman = IF \E m \in NamedIn(q, r.call) : q[m].block < q[r.call].block THEN q[r.call].sellsman
                 ELSE IF RegisteredIn(q, r.call) = {} THEN FeeAddress
                 ELSE q[V1!Max(RegisteredIn(q, r.call))].account

LEMMA ExactlyWhen ==
  /\ V1!TradesExact <=> /\ \A c \in DOMAIN history : CallCounted(c, history, trades)
                        /\ \A r \in trades : RowNumbered(r, trades) /\ RowAmounts(r, history)
  /\ V1!SellsmanAttributed <=> \A r \in trades : RowAttributed(r, history)
<1>1. V1!TradesExact <=> /\ \A c \in DOMAIN history : CallCounted(c, history, trades)
                         /\ \A r \in trades : RowNumbered(r, trades) /\ RowAmounts(r, history)
  <2>1. \A c : V1!Beside(c) = OthersIn(history, c)
    BY DEF V1!Beside, OthersIn
  <2> QED
    BY <2>1, Zenon DEF V1!TradesExact, CallCounted, RowNumbered, RowAmounts, AmountsFrom
<1>2. V1!SellsmanAttributed <=> \A r \in trades : RowAttributed(r, history)
  BY Zenon DEF V1!SellsmanAttributed, RowAttributed, NamedIn, RegisteredIn
<1> QED
  BY <1>1, <1>2

(***************************************************************************)
(* The rows tr after the block: those there were, and one row[n] for each  *)
(* of its trades D.                                                        *)
(***************************************************************************)
NewBlock(k, L, all, D, row, tr) ==
    /\ k = Len(history) /\ L = Len(items) /\ all = history \o items
    /\ D = V1!Trades
    /\ row = [n \in D |-> V1!TradeRow(n)]
    /\ tr = trades \cup {row[n] : n \in D}

NewRows(k, L, all, D, row, tr) ==
    /\ ChainParts(k, L, all)
    /\ D \subseteq 1..L /\ IsFiniteSet(D)
    /\ \A n \in 1..L : n \in D <=> items[n].kind = "CALL" /\ items[n].result = "trade"
    /\ \A n \in D :
          /\ row[n] \in tr /\ row[n].call = k + n
          /\ row[n].entity_index = counter + V1!Cardinality({m \in D : m <= n})
          /\ row[n].sellsman = V1!Sellsman(n)
          /\ row[n].fee = V1!TokenFee(n)
          /\ row[n].native = V1!NativeAmount(n)
          /\ row[n].token_amount = V1!SwapAmount(n) + (IF items[n].is_buy THEN -V1!TokenFee(n) ELSE V1!TokenFee(n))
    /\ trades \subseteq tr
    /\ \A r \in tr : r \in trades \/ \E n \in D : r = row[n]
    /\ \A r \in trades : r.call \in 1..k

LEMMA RowsOfBlock ==
  ASSUME V1Inv, NEW k, NEW L, NEW all, NEW D, NEW row, NEW tr, NewBlock(k, L, all, D, row, tr)
  PROVE  NewRows(k, L, all, D, row, tr)
<1>1. /\ k = Len(history) /\ L = Len(items) /\ all = history \o items
      /\ D = V1!Trades
      /\ row = [n \in D |-> V1!TradeRow(n)]
      /\ tr = trades \cup {row[n] : n \in D}
  BY DEF NewBlock
<1>2. ChainParts(k, L, all)
  BY <1>1, V1Parts
<1>3. L \in Nat /\ DOMAIN items = 1..L
  BY <1>2 DEF ChainParts
<1>4. D \subseteq 1..L /\ \A n \in 1..L : n \in D <=> items[n].kind = "CALL" /\ items[n].result = "trade"
  BY <1>1, <1>3 DEF V1!Trades
<1>5. IsFiniteSet(D)
  <2>1. IsFiniteSet(1..L)
    BY <1>3, FS_Interval
  <2> QED
    BY <1>4, <2>1, FS_Subset
<1>6. ASSUME NEW n \in D
      PROVE  /\ row[n] \in tr /\ row[n].call = k + n
             /\ row[n].entity_index = counter + V1!Cardinality({m \in D : m <= n})
             /\ row[n].sellsman = V1!Sellsman(n)
             /\ row[n].fee = V1!TokenFee(n)
             /\ row[n].native = V1!NativeAmount(n)
             /\ row[n].token_amount = V1!SwapAmount(n) + (IF items[n].is_buy THEN -V1!TokenFee(n) ELSE V1!TokenFee(n))
  <2>1. row[n] = V1!TradeRow(n) /\ row[n] \in tr
    BY <1>1
  <2> QED
    BY <1>1, <2>1 DEF V1!TradeRow, V1!Index
<1>7. \A r \in tr : r \in trades \/ \E n \in D : r = row[n]
  BY <1>1
<1>8. \A r \in trades : r.call \in 1..k
  BY <1>1 DEF V1Inv, RowsCounted
<1> QED
  BY <1>1, <1>2, <1>4, <1>5, <1>6, <1>7, <1>8 DEF NewRows

\* A call before the block keeps its neighbours, and what its row says.
LEMMA OldRowStays ==
  ASSUME V1Inv, NEW k, k = Len(history), NEW L, NEW all, ChainParts(k, L, all),
         NEW r, r.call \in 1..k,
         RowAmounts(r, history), RowAttributed(r, history)
  PROVE  RowAmounts(r, all) /\ RowAttributed(r, all)
<1>1. PICK c : c = r.call
  OBVIOUS
<1>2. /\ k \in Nat /\ L \in Nat /\ DOMAIN all = 1..(k + L) /\ c \in 1..k
      /\ DOMAIN history = 1..k /\ DOMAIN items = 1..L
      /\ \A m \in 1..k : m \in 1..(k + L) /\ all[m] = history[m]
      /\ \A m \in 1..L : all[k + m] = items[m] /\ items[m] \in V1Items
      /\ \A m \in 1..(k + L) : m \in 1..k \/ \E i \in 1..L : m = k + i
  BY <1>1 DEF ChainParts
<1>3. /\ \A m \in 1..k : history[m].tx <= k
      /\ \A m \in 1..L : items[m].tx > k
  BY <1>2 DEF V1Inv, ReceiptsFit
<1>4. PICK O : O = OthersIn(history, c)
  OBVIOUS
<1>5. OthersIn(all, c) = O
  <2>1. ASSUME NEW m \in 1..L PROVE all[k + m].tx # all[c].tx
    <3>1. items[m].tx > k /\ history[c].tx <= k
      BY <1>2, <1>3
    <3>2. items[m].tx \in Nat
      BY <1>2 DEF V1Items, V1Calls
    <3>3. items[m].tx # history[c].tx
      BY <1>2, <3>1, <3>2
    <3> QED
      BY <1>2, <3>3
  <2>2. ASSUME NEW m \in OthersIn(all, c) PROVE m \in O
    <3>1. m \in 1..(k + L) /\ all[m].tx = all[c].tx
      BY <1>2, <2>2 DEF OthersIn
    <3>2. m \in 1..k
      BY <1>2, <2>1, <3>1
    <3> QED
      BY <1>2, <1>4, <2>2, <3>2 DEF OthersIn
  <2>3. ASSUME NEW m \in O PROVE m \in OthersIn(all, c)
    BY <1>2, <1>4, <2>3 DEF OthersIn
  <2> QED
    BY <2>2, <2>3
<1>6. all[c] = history[c] /\ \A m \in O : all[m] = history[m]
  BY <1>2, <1>4 DEF OthersIn
<1>7. RowAmounts(r, all)
  <2>1. AmountsFrom(r, history[c], c, history, O)
    BY <1>1, <1>4 DEF RowAmounts
  <2>2. AmountsFrom(r, history[c], c, all, O)
    BY <1>6, <2>1, Zenon DEF AmountsFrom
  <2> QED
    BY <1>1, <1>5, <1>6, <2>2 DEF RowAmounts
<1>8. RowAttributed(r, all)
  <2>1. \A m \in 1..(c - 1) : all[m] = history[m]
    <3>1. \A m \in 1..(c - 1) : m \in 1..k
      BY <1>2
    <3> QED
      BY <1>2, <3>1
  <2>2. PICK N, R : N = NamedIn(history, c) /\ R = RegisteredIn(history, c)
    OBVIOUS
  <2>3. N = NamedIn(all, c) /\ R = RegisteredIn(all, c)
    BY <1>6, <2>1, <2>2 DEF NamedIn, RegisteredIn
  <2>4. \A m \in N : all[m] = history[m]
    BY <2>1, <2>2 DEF NamedIn
  <2>5. R # {} => all[V1!Max(R)] = history[V1!Max(R)]
    <3>1. R \subseteq 1..k
      BY <1>2, <2>2 DEF RegisteredIn
    <3>2. R # {} => Max(R) \in R
      BY <1>2, <3>1, GreatestPosition
    <3> QED
      BY <1>2, <3>1, <3>2, SameLibrary
  <2>6. r.sellsman = IF \E m \in N : history[m].block < history[c].block THEN history[c].sellsman
                     ELSE IF R = {} THEN FeeAddress ELSE history[V1!Max(R)].account
    BY <1>1, <2>2 DEF RowAttributed
  <2>7. r.sellsman = IF \E m \in N : all[m].block < all[c].block THEN all[c].sellsman
                     ELSE IF R = {} THEN FeeAddress ELSE all[V1!Max(R)].account
    BY <1>6, <2>4, <2>5, <2>6
  <2> QED
    BY <1>1, <2>3, <2>7 DEF RowAttributed
<1> QED
  BY <1>7, <1>8

\* A trade's row has what its call says, and its sellsman.
LEMMA NewRowFits ==
  ASSUME V1Inv, NEW k, NEW L, NEW all, NEW D, NEW row, NEW tr,
         NewBlock(k, L, all, D, row, tr), NewRows(k, L, all, D, row, tr), NEW n \in D
  PROVE  RowAmounts(row[n], all) /\ RowAttributed(row[n], all)
<1>1. PICK r, call, c : r = row[n] /\ call = items[n] /\ c = k + n
  OBVIOUS
<1>2. /\ k \in Nat /\ L \in Nat /\ DOMAIN all = 1..(k + L) /\ n \in 1..L
      /\ DOMAIN history = 1..k /\ DOMAIN items = 1..L
      /\ \A m \in 1..k : m \in 1..(k + L) /\ all[m] = history[m]
      /\ \A m \in 1..L : k + m \in 1..(k + L) /\ all[k + m] = items[m] /\ items[m] \in V1Items
      /\ \A m \in 1..(k + L) : m \in 1..k \/ \E i \in 1..L : m = k + i
      /\ k = Len(history) /\ L = Len(items) /\ all = history \o items
      /\ n \in V1!Trades
  BY DEF NewBlock, NewRows, ChainParts
<1>3. r.call = c /\ all[c] = call /\ c \in 1..(k + L)
  BY <1>1, <1>2 DEF NewRows
<1>4. /\ r.sellsman = V1!Sellsman(n)
      /\ r.fee = V1!TokenFee(n)
      /\ r.native = V1!NativeAmount(n)
      /\ r.token_amount = V1!SwapAmount(n) + (IF call.is_buy THEN -V1!TokenFee(n) ELSE V1!TokenFee(n))
  BY <1>1 DEF NewRows
<1>5. RowAmounts(r, all)
  <2>1. PICK O, A : /\ O = {m \in DOMAIN items \ {n} : /\ items[m].kind = "CALL" /\ items[m].tx = items[n].tx
                                                       /\ items[m].result # "failed"}
                    /\ A = OthersIn(all, c)
    OBVIOUS
  <2>2. AmountsOwn(n, O)
    BY <1>2, <2>1, CallAmounts
  <2>3. ASSUME NEW m \in O PROVE k + m \in A /\ all[k + m] = items[m] /\ m \in 1..L
    <3>1. m \in 1..L /\ m # n /\ items[m].kind = "CALL" /\ items[m].tx = items[n].tx /\ items[m].result # "failed"
      BY <1>2, <2>1, <2>3
    <3>2. k + m # c /\ k + m \in 1..(k + L) /\ all[k + m] = items[m]
      BY <1>1, <1>2, <3>1
    <3> QED
      BY <1>1, <1>2, <1>3, <2>1, <3>1, <3>2 DEF OthersIn
  <2>4. /\ (\A m \in A : all[m].token # call.token) => \A m \in O : items[m].token # items[n].token
        /\ (\A m \in A : all[m].venue = call.venue =>
                            IF call.venue = "V2" /\ call.is_buy THEN m < c ELSE m > c)
             => \A m \in O : items[m].venue = items[n].venue =>
                                IF items[n].venue = "V2" /\ items[n].is_buy THEN m < n ELSE m > n
        /\ (call.is_buy \/ \A m \in A : all[m].is_buy \/ all[m].recipient # call.recipient)
             => items[n].is_buy \/ \A m \in O : items[m].is_buy \/ items[m].recipient # items[n].recipient
    <3>1. \A m \in 1..L : (k + m < c => m < n) /\ (k + m > c => m > n)
      BY <1>1, <1>2
    <3>2. ASSUME \A m \in A : all[m].venue = call.venue =>
                            IF call.venue = "V2" /\ call.is_buy THEN m < c ELSE m > c,
                 NEW m \in O, items[m].venue = items[n].venue
          PROVE  IF items[n].venue = "V2" /\ items[n].is_buy THEN m < n ELSE m > n
      <4>1. k + m \in A /\ all[k + m] = items[m] /\ m \in 1..L
        BY <2>3, <3>2
      <4>2. IF call.venue = "V2" /\ call.is_buy THEN k + m < c ELSE k + m > c
        BY <1>1, <3>2, <4>1
      <4> QED
        BY <1>1, <3>1, <4>1, <4>2
    <3>3. (\A m \in A : all[m].token # call.token) => \A m \in O : items[m].token # items[n].token
      BY <1>1, <2>3
    <3>4. (call.is_buy \/ \A m \in A : all[m].is_buy \/ all[m].recipient # call.recipient)
             => items[n].is_buy \/ \A m \in O : items[m].is_buy \/ items[m].recipient # items[n].recipient
      BY <1>1, <2>3, Zenon
    <3> QED
      BY <3>2, <3>3, <3>4
  <2>5. AmountsFrom(r, call, c, all, A)
    <3>1. (\A m \in A : all[m].token # call.token) => V1!TokenFee(n) = call.fee
      BY <1>1, <2>2, <2>4 DEF AmountsOwn
    <3>2. (\A m \in A : all[m].venue = call.venue =>
                            IF call.venue = "V2" /\ call.is_buy THEN m < c ELSE m > c)
             => V1!SwapAmount(n) = call.own
      BY <1>1, <2>2, <2>4 DEF AmountsOwn
    <3>3. (call.is_buy \/ \A m \in A : all[m].is_buy \/ all[m].recipient # call.recipient)
             => V1!NativeAmount(n) = call.native
      BY <1>1, <2>2, <2>4 DEF AmountsOwn
    <3> QED
      BY <1>4, <3>1, <3>2, <3>3, Zenon DEF AmountsFrom
  <2> QED
    BY <1>3, <2>1, <2>5 DEF RowAmounts
<1>6. RowAttributed(r, all)
  <2>1. PICK N, R : /\ N = {m \in 1..((k + n) - 1) : all[m].kind = "IPSHARE" /\ all[m].account = items[n].sellsman}
                    /\ R = {m \in 1..((k + n) - 1) : all[m].kind \in V1!Deploying /\ all[m].token = items[n].token}
    OBVIOUS
  <2>2. N = NamedIn(all, c) /\ R = RegisteredIn(all, c)
    BY <1>1, <1>3, <2>1 DEF NamedIn, RegisteredIn
  <2>3. V1!Sellsman(n) = IF \E m \in N : all[m].block < items[n].block THEN items[n].sellsman
                         ELSE IF R = {} THEN FeeAddress ELSE all[Max(R)].account
    <3>0. V1Inv /\ n \in V1!Trades /\ k = Len(history) /\ all = history \o items
      BY <1>2
    <3>1. SellsmanFits(n, all, N, R)
      BY ONLY <2>1, <3>0, SellsmanIs
    <3> QED
      BY <3>1 DEF SellsmanFits
  <2>4. V1!Max(R) = Max(R)
    BY SameLibrary
  <2> QED
    BY <1>1, <1>3, <1>4, <2>2, <2>3, <2>4 DEF RowAttributed
<1> QED
  BY <1>1, <1>5, <1>6

\* The rows are one for each trade, and numbered in chain order.
LEMMA RowsAreCounted ==
  ASSUME V1Inv, NEW k, NEW L, NEW all, NEW D, NEW row, NEW tr, NewRows(k, L, all, D, row, tr),
         \A c \in DOMAIN history : CallCounted(c, history, trades),
         \A r \in trades : RowNumbered(r, trades)
  PROVE  /\ \A c \in DOMAIN all : CallCounted(c, all, tr)
         /\ \A r \in tr : RowNumbered(r, tr)
         /\ IsFiniteSet(tr) /\ counter + V1!Cardinality(D) = Cardinality(tr)
<1>1. /\ k \in Nat /\ L \in Nat /\ DOMAIN all = 1..(k + L) /\ DOMAIN history = 1..k
      /\ D \subseteq 1..L /\ IsFiniteSet(D)
      /\ \A m \in 1..k : all[m] = history[m]
      /\ \A m \in 1..L : k + m \in 1..(k + L) /\ all[k + m] = items[m]
      /\ \A m \in 1..(k + L) : m \in 1..k \/ \E i \in 1..L : m = k + i
      /\ \A n \in 1..L : n \in D <=> items[n].kind = "CALL" /\ items[n].result = "trade"
  BY DEF NewRows, ChainParts
<1>2. /\ \A n \in D : row[n] \in tr /\ row[n].call = k + n
      /\ \A n \in D : row[n].entity_index = counter + V1!Cardinality({m \in D : m <= n})
      /\ trades \subseteq tr
      /\ \A r \in tr : r \in trades \/ \E n \in D : r = row[n]
      /\ \A r \in trades : r.call \in 1..k
  BY DEF NewRows
<1>3. IsFiniteSet(trades) /\ counter = Cardinality(trades) /\ counter \in Nat
  BY DEF V1Inv, V1Types, RowsCounted
<1>4. \A n, m \in D : row[n] = row[m] => n = m
  <2>1. \A n, m \in D : k + n = k + m => n = m
    BY <1>1
  <2> QED
    BY <1>2, <2>1
<1>5. ASSUME NEW E, E \subseteq D, NEW T, T = trades \cup {row[n] : n \in E}
      PROVE  IsFiniteSet(T) /\ Cardinality(T) = counter + V1!Cardinality(E)
  <2>1. PICK I : I = {row[n] : n \in E}
    OBVIOUS
  <2>2. IsFiniteSet(E)
    BY <1>1, <1>5, FS_Subset
  <2>3. IsFiniteSet(I) /\ Cardinality(I) = Cardinality(E)
    BY <1>4, <1>5, <2>1, <2>2, FiniteImage
  <2>4. I \cap trades = {}
    <3>1. \A n \in E : row[n].call \notin 1..k
      BY <1>1, <1>2, <1>5
    <3> QED
      BY <1>2, <2>1, <3>1
  <2>5. IsFiniteSet(T) /\ Cardinality(T) = Cardinality(trades) + Cardinality(I)
    <3>1. IsFiniteSet(trades \cup I) /\ Cardinality(trades \cup I)
             = Cardinality(trades) + Cardinality(I) - Cardinality(trades \cap I)
      BY <1>3, <2>3, FS_Union
    <3>2. Cardinality(trades \cap I) = 0
      <4>1. trades \cap I = {}
        BY <2>4
      <4>2. Cardinality({}) = 0
        BY FS_EmptySet
      <4> QED
        BY ONLY <4>1, <4>2
    <3>3. Cardinality(trades) \in Nat /\ Cardinality(I) \in Nat
      BY <1>3, <2>3, FS_CardinalityType
    <3>4. T = trades \cup I
      BY <1>5, <2>1
    <3>5. PICK a, b, c : a = Cardinality(trades) /\ b = Cardinality(I) /\ c = Cardinality(trades \cap I)
      OBVIOUS
    <3>6. Cardinality(T) = a + b - c /\ a \in Nat /\ b \in Nat /\ c = 0
      BY ONLY <3>1, <3>2, <3>3, <3>4, <3>5
    <3> QED
      BY ONLY <3>1, <3>4, <3>5, <3>6
  <2> QED
    BY <1>3, <2>3, <2>5, SameLibrary
<1>6. IsFiniteSet(tr) /\ counter + V1!Cardinality(D) = Cardinality(tr)
  <2>1. tr = trades \cup {row[n] : n \in D}
    BY <1>2
  <2> QED
    BY <1>5, <2>1
<1>7. ASSUME NEW r \in tr PROVE RowNumbered(r, tr)
  <2>1. CASE r \in trades
    <3>1. PICK S : S = {x \in trades : x.call <= r.call}
      OBVIOUS
    <3>2. \A n \in D : ~ (row[n].call <= r.call)
      BY <1>1, <1>2, <2>1
    <3>3. {x \in tr : x.call <= r.call} = S
      BY <1>2, <3>1, <3>2
    <3>4. r.entity_index = V1!Cardinality(S)
      BY <2>1, <3>1 DEF RowNumbered
    <3> QED
      BY <3>3, <3>4 DEF RowNumbered
  <2>2. ASSUME NEW n \in D, r = row[n] PROVE RowNumbered(r, tr)
    <3>1. PICK E, S : E = {m \in D : m <= n} /\ S = {x \in tr : x.call <= r.call}
      OBVIOUS
    <3>2. S = trades \cup {row[m] : m \in E}
      <4>1. \A x \in trades : x.call <= r.call
        BY <1>1, <1>2, <2>2
      <4>2. \A m \in D : row[m].call <= r.call <=> m <= n
        BY <1>1, <1>2, <2>2
      <4> QED
        BY <1>2, <3>1, <4>1, <4>2
    <3>3. Cardinality(S) = counter + V1!Cardinality(E)
      BY <1>5, <3>1, <3>2
    <3>4. r.entity_index = counter + V1!Cardinality(E)
      BY <1>2, <2>2, <3>1
    <3>5. r.entity_index = V1!Cardinality(S)
      BY <3>3, <3>4, SameLibrary
    <3> QED
      BY <3>1, <3>5 DEF RowNumbered
  <2> QED
    BY <1>2, <2>1, <2>2
<1>8. ASSUME NEW c \in 1..(k + L) PROVE CallCounted(c, all, tr)
  <2>1. CASE c \in 1..k
    <3>1. \A n \in D : row[n].call # c
      BY <1>1, <1>2, <2>1
    <3>2. {r \in tr : r.call = c} = {r \in trades : r.call = c}
      BY <1>2, <3>1
    <3>3. CallCounted(c, history, trades)
      BY <1>1, <2>1
    <3> QED
      BY <1>1, <2>1, <3>2, <3>3 DEF CallCounted
  <2>2. ASSUME NEW n \in 1..L, c = k + n PROVE CallCounted(c, all, tr)
    <3>1. PICK S : S = {r \in tr : r.call = c}
      OBVIOUS
    <3>2. \A r \in trades : r.call # c
      BY <1>1, <1>2, <2>2
    <3>3. \A m \in D : row[m].call = c <=> m = n
      BY <1>1, <1>2, <2>2
    <3>4. V1!Cardinality(S) = IF n \in D THEN 1 ELSE 0
      <4>1. CASE n \in D
        <5>1. S = {row[n]}
          BY <1>2, <3>1, <3>2, <3>3, <4>1
        <5>2. Cardinality(S) = 1
          BY <5>1, FS_Singleton
        <5> QED
          BY <4>1, <5>2, SameLibrary
      <4>2. CASE n \notin D
        <5>1. S = {}
          BY <1>2, <3>1, <3>2, <3>3, <4>2
        <5>2. Cardinality(S) = 0
          BY <5>1, FS_EmptySet
        <5> QED
          BY <4>2, <5>2, SameLibrary
      <4> QED
        BY <4>1, <4>2
    <3>5. n \in D <=> all[c].kind = "CALL" /\ all[c].result = "trade"
      BY <1>1, <2>2
    <3> QED
      BY <3>1, <3>4, <3>5 DEF CallCounted
  <2> QED
    BY <1>1, <2>1, <2>2
<1> QED
  BY <1>1, <1>6, <1>7, <1>8

LEMMA V1TradesEndBlock ==
  ASSUME V1Inv, V1!EndBlock
  PROVE  /\ V1!TradesExact' /\ V1!SellsmanAttributed' /\ RowsCounted'
         /\ IsFiniteSet(trades') /\ counter' \in Nat
<1>1. PICK k, L, all, D : k = Len(history) /\ L = Len(items) /\ all = history \o items /\ D = V1!Trades
  OBVIOUS
<1>2. PICK row : row = [n \in D |-> V1!TradeRow(n)]
  OBVIOUS
<1>3. PICK tr : tr = trades \cup {row[n] : n \in D}
  OBVIOUS
<1>4. NewBlock(k, L, all, D, row, tr)
  BY <1>1, <1>2, <1>3 DEF NewBlock
<1>5. NewRows(k, L, all, D, row, tr)
  BY <1>4, RowsOfBlock
<1>6. history' = all /\ trades' = tr /\ counter' = counter + V1!Cardinality(D)
  <2>1. {row[n] : n \in D} = {V1!TradeRow(n) : n \in D}
    BY <1>2
  <2> QED
    BY <1>1, <1>3, <2>1 DEF V1!EndBlock, V1!Chain
<1>7. /\ \A c \in DOMAIN history : CallCounted(c, history, trades)
      /\ \A r \in trades : RowNumbered(r, trades) /\ RowAmounts(r, history) /\ RowAttributed(r, history)
  BY ExactlyWhen DEF V1Inv
<1>8. /\ \A c \in DOMAIN all : CallCounted(c, all, tr)
      /\ \A r \in tr : RowNumbered(r, tr)
      /\ IsFiniteSet(tr) /\ counter + V1!Cardinality(D) = Cardinality(tr)
  BY <1>5, <1>7, RowsAreCounted
<1>9. ASSUME NEW r \in tr
      PROVE  RowAmounts(r, all) /\ RowAttributed(r, all) /\ r.call \in 1..(k + L)
  <2>1. /\ k \in Nat /\ L \in Nat /\ ChainParts(k, L, all) /\ D \subseteq 1..L
        /\ \A n \in D : row[n].call = k + n
        /\ r \in trades \/ \E n \in D : r = row[n]
        /\ \A x \in trades : x.call \in 1..k
    BY <1>5 DEF NewRows, ChainParts
  <2>2. CASE r \in trades
    <3>1. RowAmounts(r, all) /\ RowAttributed(r, all)
      BY <1>1, <1>7, <2>1, <2>2, OldRowStays
    <3> QED
      BY <2>1, <2>2, <3>1
  <2>3. ASSUME NEW n \in D, r = row[n]
        PROVE  RowAmounts(r, all) /\ RowAttributed(r, all) /\ r.call \in 1..(k + L)
    <3>1. RowAmounts(r, all) /\ RowAttributed(r, all)
      BY <1>4, <1>5, <2>3, NewRowFits
    <3> QED
      BY <2>1, <2>3, <3>1
  <2> QED
    BY <2>1, <2>2, <2>3
<1>10. V1!TradesExact'
  <2>1. \A c \in DOMAIN history' : CallCounted(c, history', trades')
    BY <1>6, <1>8
  <2>2. \A r \in trades' : RowNumbered(r, trades') /\ RowAmounts(r, history')
    BY <1>6, <1>8, <1>9
  <2>3. \A c : V1!Beside(c)' = OthersIn(history', c)
    BY DEF V1!Beside, OthersIn
  <2> QED
    BY <2>1, <2>2, <2>3, Zenon DEF V1!TradesExact, CallCounted, RowNumbered, RowAmounts, AmountsFrom
<1>11. V1!SellsmanAttributed'
  <2>1. \A r \in trades' : RowAttributed(r, history')
    BY <1>6, <1>9
  <2> QED
    BY <2>1, Zenon DEF V1!SellsmanAttributed, RowAttributed, NamedIn, RegisteredIn
<1>12. RowsCounted' /\ IsFiniteSet(trades') /\ counter' \in Nat
  <2>1. Len(all) = k + L
    BY <1>5 DEF NewRows, ChainParts
  <2>2. Cardinality(tr) \in Nat
    BY <1>8, FS_CardinalityType
  <2> QED
    BY <1>6, <1>8, <1>9, <2>1, <2>2 DEF RowsCounted
<1> QED
  BY <1>10, <1>11, <1>12

LEMMA V1EndBlockStep ==
  ASSUME V1Inv, V1!EndBlock, items # <<>>
  PROVE  V1Inv'
<1>1. PICK k, L, all : k = Len(history) /\ L = Len(items) /\ all = history \o items
  OBVIOUS
<1>2. /\ k \in Nat /\ L \in Nat /\ Len(all) = k + L /\ DOMAIN all = 1..(k + L)
      /\ DOMAIN history = 1..k /\ DOMAIN items = 1..L /\ all \in Seq(V1Items)
      /\ \A n \in 1..k : all[n] = history[n] /\ history[n] \in V1Items
      /\ \A n \in 1..L : all[k + n] = items[n] /\ items[n] \in V1Items
      /\ \A n \in 1..(k + L) : n \in 1..k \/ \E m \in 1..L : n = k + m
  <2>1. ChainParts(k, L, all)
    BY <1>1, V1Parts
  <2> QED
    BY <2>1 DEF ChainParts
<1>3. history' = all /\ items' = <<>> /\ markets' = [t \in Tokens |-> V1!MarketAfter(t)]
  BY <1>1 DEF V1!EndBlock, V1!Chain
<1>4. V1Types'
  <2>1. ASSUME NEW t \in Tokens PROVE V1!MarketAfter(t) \in V1MarketRows
    <3>1. PICK g \in [0..L -> V1MarketRows] : V1!MarketAfter(t) = g[L]
      BY <1>1, V1MarketAfterSteps DEF V1Inv
    <3> QED
      BY <1>2, <3>1
  <2>2. markets' \in [Tokens -> V1MarketRows]
    BY <1>3, <2>1
  <2>3. items' \in Seq(V1Items) /\ history' \in Seq(V1Items)
    BY <1>2, <1>3
  <2> QED
    BY <2>2, <2>3, V1StoresEndBlock, V1TradesEndBlock DEF V1Types
<1>5. ReceiptsFit'
  <2>1. L > 0
    BY <1>1, <1>2 DEF V1Inv, V1Types
  <2>2. ASSUME NEW n \in 1..(k + L) PROVE all[n].block < k + L /\ all[n].tx <= k + L
    <3>1. CASE n \in 1..k
      <4>1. history[n].block < k /\ history[n].tx <= k
        BY <1>1, <1>2, <3>1 DEF V1Inv, ReceiptsFit
      <4>2. history[n].block \in Nat /\ history[n].tx \in Nat
        BY <1>2, <3>1 DEF V1Items, V1Calls
      <4> QED
        BY <1>2, <3>1, <4>1, <4>2
    <3>2. ASSUME NEW m \in 1..L, n = k + m PROVE all[n].block < k + L /\ all[n].tx <= k + L
      <4>1. items[m].block = k /\ items[m].tx <= k + L
        BY <1>1, <1>2 DEF V1Inv, ReceiptsFit
      <4> QED
        BY <1>2, <2>1, <3>2, <4>1
    <3> QED
      BY <1>2, <3>1, <3>2
  <2>3. DOMAIN items' = {}
    BY <1>3
  <2> QED
    BY <1>2, <1>3, <2>2, <2>3 DEF ReceiptsFit
<1> QED
  BY <1>4, <1>5, V1MarketsEndBlock, V1StoresEndBlock, V1TradesEndBlock DEF V1Inv

\* A call's logs are those its function leaves.
LEMMA CallStep ==
  ASSUME V1Inv, NEW tx \in V1!Receipts, NEW result \in {"trade", "other", "failed"}, NEW venue \in Venues,
         NEW is_buy \in BOOLEAN, NEW hops \in 1..2, NEW token \in Tokens,
         NEW recipient \in Users \cup {NoOne}, NEW sellsman \in Users \cup {NoOne}, tx \in Nat,
         V1!Call(tx, result, venue, is_buy, hops, token, recipient, sellsman)
  PROVE  V1Inv'
<1>1. PICK own, swaps, fee, native :
         /\ own = V1!Own
         /\ swaps = IF result = "failed" THEN <<>> ELSE V1!SwapsOf(venue, is_buy, hops)
         /\ fee = IF result = "failed" THEN 0 ELSE V1!Place
         /\ native = IF result = "failed" THEN 0 ELSE 100 * V1!Place
  OBVIOUS
<1>2. PICK item : item = [kind |-> "CALL", tx |-> tx, block |-> Len(history), result |-> result, venue |-> venue,
                          is_buy |-> is_buy, token |-> token, recipient |-> recipient,
                          sellsman |-> sellsman, own |-> own, swaps |-> swaps, fee |-> fee, native |-> native]
  OBVIOUS
<1>3. V1!Emit(item)
  BY <1>1, <1>2 DEF V1!Call
<1>4. Len(history) \in Nat /\ V1!Place \in Int /\ V1!Own \in Int /\ V1!Hop \in Int
  <2>1. history \o items \in Seq(V1Items)
    BY DEF V1Inv, V1Types
  <2>2. Len(history) \in Nat /\ V1!Place \in Nat
    BY <2>1 DEF V1Inv, V1Types, V1!Place, V1!Chain
  <2> QED
    BY <2>2 DEF V1!Own, V1!Hop
<1>5. own \in Int /\ fee \in Int /\ native \in Int
  BY <1>1, <1>4
<1>6. PICK path : path = V1!SwapsOf(venue, is_buy, hops)
  OBVIOUS
<1>7. /\ path \in Seq(Int) /\ path # <<>>
      /\ IF venue = "V2" /\ is_buy THEN path[Len(path)] = own ELSE Head(path) = own
  <2>1. PICK h : h = V1!Hop /\ h \in Int
    BY <1>4
  <2>2. path = IF venue # "V2" \/ hops = 1 THEN <<own>> ELSE IF is_buy THEN <<h, own>> ELSE <<own, h>>
    BY <1>1, <1>6, <2>1 DEF V1!SwapsOf
  <2>3. \/ path = <<own>>
        \/ venue = "V2" /\ is_buy /\ path = <<h, own>>
        \/ venue = "V2" /\ ~ is_buy /\ path = <<own, h>>
    BY <2>2
  <2>4. CASE path = <<own>>
    BY <1>5, <2>4
  <2>5. CASE venue = "V2" /\ is_buy /\ path = <<h, own>>
    <3>1. path \in Seq(Int) /\ Len(path) = 2 /\ path[2] = own
      BY <1>5, <2>1, <2>5
    <3> QED
      BY <2>5, <3>1
  <2>6. CASE venue = "V2" /\ ~ is_buy /\ path = <<own, h>>
    <3>1. path \in Seq(Int) /\ Len(path) = 2 /\ Head(path) = own
      BY <1>5, <2>1, <2>6
    <3> QED
      BY <2>6, <3>1
  <2> QED
    BY <2>3, <2>4, <2>5, <2>6
<1>8. swaps \in Seq(Int)
  BY <1>1, <1>6, <1>7
<1>9. item \in V1Calls
  BY <1>2, <1>4, <1>5, <1>8 DEF V1Calls
<1>10. item \in V1Items /\ item.block = Len(history) /\ item.tx \in V1!Receipts
  BY <1>2, <1>9 DEF V1Items
<1>11. AmountsFit(item)
  <2>1. CASE result = "failed"
    BY <1>1, <1>2, <2>1 DEF AmountsFit
  <2>2. CASE result # "failed"
    BY <1>1, <1>2, <1>6, <1>7, <2>2 DEF AmountsFit
  <2> QED
    BY <2>1, <2>2
<1> QED
  BY <1>3, <1>10, <1>11, V1EmitStep

LEMMA NextV1 ==
  ASSUME V1Inv, [V1!Next]_v1Vars
  PROVE  V1Inv'
<1>1. \A tx \in V1!Receipts : tx \in Nat
  <2>1. history \o items \in Seq(V1Items) /\ items \in Seq(V1Items)
    BY DEF V1Inv, V1Types
  <2>2. V1!Place \in Nat
    BY <2>1 DEF V1!Place, V1!Chain
  <2>3. items # <<>> => items[Len(items)].tx \in Nat
    <3>1. items # <<>> => items[Len(items)] \in V1Items
      BY <2>1
    <3> QED
      BY <3>1 DEF V1Items, V1Calls
  <2> QED
    BY <2>2, <2>3 DEF V1!Receipts
<1>2. Len(history) \in Nat
  BY DEF V1Inv, V1Types
<1>3. ASSUME NEW tx \in V1!Receipts, NEW who \in Users, V1!CreateIPShare(tx, who) PROVE V1Inv'
  <2>1. PICK item : item = [kind |-> "IPSHARE", tx |-> tx, block |-> Len(history), account |-> who]
    OBVIOUS
  <2>2. V1!Emit(item)
    BY <1>3, <2>1 DEF V1!CreateIPShare
  <2>3. item \in V1Items
    BY <1>1, <1>2, <2>1 DEF V1Items
  <2>4. item.block = Len(history) /\ item.tx \in V1!Receipts /\ item.kind # "CALL"
    BY <2>1
  <2> QED
    BY <2>2, <2>3, <2>4, V1EmitStep
<1>4. ASSUME NEW tx \in V1!Receipts, NEW kind \in V1!MarketKinds, NEW t \in Tokens, NEW who \in Users,
             V1!AnnounceMarket(tx, kind, t, who)
      PROVE  V1Inv'
  <2>1. PICK item : item = [kind |-> kind, tx |-> tx, block |-> Len(history), token |-> t, account |-> who]
    OBVIOUS
  <2>2. V1!Emit(item)
    BY <1>4, <2>1 DEF V1!AnnounceMarket
  <2>3. item \in V1Items
    BY <1>1, <1>2, <2>1 DEF V1Items
  <2>4. item.block = Len(history) /\ item.tx \in V1!Receipts /\ item.kind # "CALL"
    BY <2>1 DEF V1!MarketKinds, V1!Deploying
  <2> QED
    BY <2>2, <2>3, <2>4, V1EmitStep
<1>5. ASSUME NEW tx \in V1!Receipts, NEW venue \in Venues, NEW hops \in 1..2, NEW t \in Tokens, NEW sellsman \in Users,
             \/ V1!Call(tx, "trade", venue, TRUE, hops, t, NoOne, sellsman)
             \/ \E who \in Users : V1!Call(tx, "trade", venue, FALSE, hops, t, who, sellsman)
      PROVE  V1Inv'
  <2>1. ASSUME V1!Call(tx, "trade", venue, TRUE, hops, t, NoOne, sellsman) PROVE V1Inv'
    BY <1>1, <2>1, CallStep
  <2>2. ASSUME NEW who \in Users, V1!Call(tx, "trade", venue, FALSE, hops, t, who, sellsman) PROVE V1Inv'
    BY <1>1, <2>2, CallStep
  <2> QED
    BY <1>5, <2>1, <2>2
<1>6. ASSUME NEW tx \in V1!Receipts, NEW venue \in Venues, NEW t \in Tokens,
             \/ V1!Call(tx, "other", venue, TRUE, 1, t, NoOne, NoOne)
             \/ \E who \in Users : V1!Call(tx, "other", venue, FALSE, 1, t, who, NoOne)
      PROVE  V1Inv'
  <2>0. NoOne \in Users \cup {NoOne} /\ 1 \in 1..2 /\ tx \in Nat
    BY <1>1
  <2>1. ASSUME V1!Call(tx, "other", venue, TRUE, 1, t, NoOne, NoOne) PROVE V1Inv'
    BY <2>0, <2>1, CallStep
  <2>2. ASSUME NEW who \in Users, V1!Call(tx, "other", venue, FALSE, 1, t, who, NoOne) PROVE V1Inv'
    BY <2>0, <2>2, CallStep
  <2> QED
    BY <1>6, <2>1, <2>2
<1>7. ASSUME NEW tx \in V1!Receipts, NEW t \in Tokens, NEW who \in Users,
             V1!Call(tx, "failed", "V2", FALSE, 1, t, who, NoOne)
      PROVE  V1Inv'
  <2>1. NoOne \in Users \cup {NoOne} /\ 1 \in 1..2 /\ tx \in Nat /\ "V2" \in Venues
    BY <1>1, ImportAssumption
  <2> QED
    BY <1>7, <2>1, CallStep
<1>8. ASSUME V1!ChainStep PROVE V1Inv'
  <2>1. PICK tx \in V1!Receipts :
           \/ \E who \in Users : V1!CreateIPShare(tx, who)
           \/ \E kind \in V1!MarketKinds, t \in Tokens, who \in Users : V1!AnnounceMarket(tx, kind, t, who)
           \/ \E venue \in Venues, hops \in 1..2, t \in Tokens, sellsman \in Users :
                 \/ V1!Call(tx, "trade", venue, TRUE, hops, t, NoOne, sellsman)
                 \/ \E who \in Users : V1!Call(tx, "trade", venue, FALSE, hops, t, who, sellsman)
           \/ \E venue \in Venues, t \in Tokens :
                 \/ V1!Call(tx, "other", venue, TRUE, 1, t, NoOne, NoOne)
                 \/ \E who \in Users : V1!Call(tx, "other", venue, FALSE, 1, t, who, NoOne)
           \/ \E t \in Tokens, who \in Users : V1!Call(tx, "failed", "V2", FALSE, 1, t, who, NoOne)
    BY <1>8 DEF V1!ChainStep
  <2> QED
    BY <2>1, <1>3, <1>4, <1>5, <1>6, <1>7, Zenon
<1>9. ASSUME UNCHANGED v1Vars PROVE V1Inv'
  <2>1. /\ items' = items /\ history' = history /\ subjects' = subjects /\ deployers' = deployers
        /\ counter' = counter /\ markets' = markets /\ trades' = trades
    BY <1>9 DEF v1Vars
  <2>2. V1Types' /\ ReceiptsFit'
    BY <2>1 DEF V1Inv, V1Types, ReceiptsFit, AmountsFit
  <2>3. StoresFollow' /\ V1Follow'
    BY <2>1 DEF V1Inv, StoresFollow, V1Follow, V1Registered, V1Announced, V1Created, Follows, LastIn
  <2>4. RowsCounted' /\ V1!SellsmanAttributed'
    BY <2>1 DEF V1Inv, RowsCounted, V1!SellsmanAttributed
  <2>5. V1!TradesExact'
    <3>1. \A c : V1!Beside(c)' = V1!Beside(c)
      BY <2>1 DEF V1!Beside
    <3>2. V1!TradesExact
      BY DEF V1Inv
    <3> QED
      BY <2>1, <3>1, <3>2, Zenon DEF V1!TradesExact
  <2> QED
    BY <2>2, <2>3, <2>4, <2>5 DEF V1Inv
<1> QED
  BY <1>8, <1>9, V1EndBlockStep DEF V1!Next

LEMMA V1MarketsAre ==
  ASSUME V1Inv
  PROVE  V1!MarketsFollow
<1>1. ASSUME NEW t \in Tokens, NEW A, A = V1Announced(t), NEW C, C = {m \in A : history[m].kind = "COMMUNITY_CREATED"}
      PROVE  /\ markets[t].deployer = IF A = {} THEN NoOne ELSE history[Max(A)].account
             /\ markets[t].social_pool = IF C = {} THEN 0 ELSE history[Max(C)].tx
             /\ markets[t].source # "COMMUNITY_CREATED" => deployers[t] = markets[t].deployer
  <2>1. PICK k, G : k = Len(history) /\ G = V1Registered(t)
    OBVIOUS
  <2>2. /\ k \in Nat /\ DOMAIN history = 1..k
        /\ A \subseteq 1..k /\ C \subseteq A /\ C \subseteq 1..k /\ G \subseteq A /\ G \subseteq 1..k
    BY <1>1, <2>1 DEF V1Inv, V1Types, V1Announced, V1Registered, V1!MarketKinds
  <2>3. PICK account, kind, tx : /\ account = [n \in DOMAIN history |-> history[n].account]
                                 /\ kind = [n \in DOMAIN history |-> history[n].kind]
                                 /\ tx = [n \in DOMAIN history |-> history[n].tx]
    OBVIOUS
  <2>4. /\ Follows(markets[t].deployer, A, account, NoOne)
        /\ Follows(markets[t].source, A, kind, "NONE")
        /\ Follows(markets[t].social_pool, C, tx, 0)
        /\ Follows(deployers[t], G, account, NoOne)
    BY <1>1, <2>1, <2>3 DEF V1Inv, V1Follow, StoresFollow, V1Created
  <2>5. /\ A # {} => Max(A) \in 1..k /\ LastIn(Max(A), A)
        /\ C # {} => Max(C) \in 1..k /\ LastIn(Max(C), C)
        /\ G # {} => Max(G) \in 1..k /\ LastIn(Max(G), G)
    <3>1. ASSUME NEW S, S \subseteq 1..k, S # {} PROVE Max(S) \in 1..k /\ LastIn(Max(S), S)
      BY <2>2, <3>1, GreatestPosition DEF LastIn
    <3> QED
      BY <2>2, <3>1
  <2>6. markets[t].deployer = IF A = {} THEN NoOne ELSE history[Max(A)].account
    BY <2>2, <2>3, <2>4, <2>5 DEF Follows
  <2>7. markets[t].social_pool = IF C = {} THEN 0 ELSE history[Max(C)].tx
    BY <2>2, <2>3, <2>4, <2>5 DEF Follows
  <2>8. ASSUME markets[t].source # "COMMUNITY_CREATED" PROVE deployers[t] = markets[t].deployer
    <3>1. CASE A = {}
      BY <2>2, <2>4, <2>6, <3>1 DEF Follows
    <3>2. CASE A # {}
      <4>1. PICK m : m = Max(A)
        OBVIOUS
      <4>2. m \in A /\ m \in 1..k /\ LastIn(m, A)
        BY <2>5, <3>2, <4>1 DEF LastIn
      <4>3. history[m].kind # "COMMUNITY_CREATED"
        BY <2>2, <2>3, <2>4, <2>8, <4>2 DEF Follows
      <4>4. m \in G
        BY <1>1, <2>1, <4>2, <4>3 DEF V1Announced, V1Registered, V1!MarketKinds
      <4>5. LastIn(m, G)
        BY <2>2, <4>2, <4>4 DEF LastIn
      <4>6. deployers[t] = history[m].account
        BY <2>2, <2>3, <2>4, <4>2, <4>5 DEF Follows
      <4> QED
        BY <2>6, <3>2, <4>1, <4>6
    <3> QED
      BY <3>1, <3>2
  <2> QED
    BY <2>6, <2>7, <2>8
<1>2. \A S : V1!Max(S) = Max(S)
  BY SameLibrary
<1>3. ASSUME NEW t \in Tokens
      PROVE  LET announced == {m \in DOMAIN history : history[m].kind \in V1!MarketKinds /\ history[m].token = t}
                 created == {m \in announced : history[m].kind = "COMMUNITY_CREATED"}
             IN  /\ markets[t].deployer = IF announced = {} THEN NoOne ELSE history[V1!Max(announced)].account
                 /\ markets[t].social_pool = IF created = {} THEN 0 ELSE history[V1!Max(created)].tx
                 /\ markets[t].source # "COMMUNITY_CREATED" => deployers[t] = markets[t].deployer
  <2>1. PICK A, C : A = V1Announced(t) /\ C = {m \in A : history[m].kind = "COMMUNITY_CREATED"}
    OBVIOUS
  <2>2. /\ markets[t].deployer = IF A = {} THEN NoOne ELSE history[V1!Max(A)].account
        /\ markets[t].social_pool = IF C = {} THEN 0 ELSE history[V1!Max(C)].tx
        /\ markets[t].source # "COMMUNITY_CREATED" => deployers[t] = markets[t].deployer
    BY <1>1, <1>2, <2>1
  <2> QED
    BY <2>1, <2>2, Zenon DEF V1Announced
<1> QED
  BY <1>3 DEF V1!MarketsFollow

-----------------------------------------------------------------------------
ImportInv == RegistryInv /\ V1Inv /\ V2Inv

LEMMA ImportInvHolds ==
  ImportSpec => []ImportInv
<1>1. ImportInit => ImportInv
  BY InitV1, InitV2, InitRegistry DEF ImportInit, ImportInv
<1>2. ASSUME ImportInv, [ImportNext]_importVars PROVE ImportInv'
  <2>1. [V1!Next]_v1Vars /\ [V2!Next]_v2Vars /\ [Registry!Next]_registryVars
    <3>1. CASE UNCHANGED importVars
      BY <3>1 DEF importVars
    <3>2. CASE ImportNext
      BY <3>2 DEF ImportNext
    <3> QED
      BY <1>2, <3>1, <3>2
  <2>2. RegistryInv /\ V1Inv /\ V2Inv
    BY <1>2 DEF ImportInv
  <2> QED
    BY <2>1, <2>2, NextV1, NextV2, NextRegistry DEF ImportInv
<1> QED
  BY <1>1, <1>2, PTL DEF ImportSpec

\* Every decoded call that succeeds becomes one row, numbered in chain order
\* (import_v1.rs), with the amounts of its own call wherever its receipt
\* leaves no doubt; and each wrapper log of the second domain one row.
THEOREM ImportedTradesAlwaysExact ==
  ImportSpec => []TradesExact
<1>1. ImportInv => TradesExact
  BY DEF ImportInv, V1Inv, V2Inv, V2Traded, TradesExact
<1> QED
  BY <1>1, ImportInvHolds, PTL

\* A trade is credited to the sellsman it names if that is a subject of an
\* earlier block, else to the token's deployer, else to the fee address.
THEOREM SellsmanAlwaysAttributed ==
  ImportSpec => []SellsmanAttributed
<1>1. ImportInv => SellsmanAttributed
  BY DEF ImportInv, V1Inv, SellsmanAttributed
<1> QED
  BY <1>1, ImportInvHolds, PTL

\* The market rows of both wrappers and the registries' entries follow what
\* was announced last, after any number of blocks.
THEOREM MarketsAlwaysFollow ==
  ImportSpec => []MarketsFollow
<1>1. ImportInv => MarketsFollow
  <2> SUFFICES ASSUME ImportInv PROVE MarketsFollow
    OBVIOUS
  <2>1. RegistryInv /\ V1Inv /\ V2Inv
    BY DEF ImportInv
  <2> QED
    BY <2>1, V1MarketsAre, V2MarketsAre, RegistryFollows DEF MarketsFollow
<1> QED
  BY <1>1, ImportInvHolds, PTL
=============================================================================

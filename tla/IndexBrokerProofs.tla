-------------------------- MODULE IndexBrokerProofs --------------------------
(***************************************************************************)
(* The rows of IndexBroker follow the creations on the chain, wherever the *)
(* block boundaries are, and a creation's metadata is that of its own call *)
(* up to the first call that cannot be decoded.                            *)
(***************************************************************************)
EXTENDS MCBrokerCreations, FiniteFacts

-----------------------------------------------------------------------------
(***************************************************************************)
(* What the maps and the property say of a log, said of a sequence of logs *)
(* that may be the chain or a block.                                       *)
(***************************************************************************)
LogKinds == Creations \cup {"pool", "amm"}

Logs ==
    {l \in [kind : LogKinds, emitter : Pools \cup Amms \cup {Factory}, pool : Pools \cup {Zero},
            amm : Amms \cup {Zero}, account : Users \cup {Zero}, secondary : Users \cup {Zero}] :
       /\ l.kind \in Creations => l.pool \in Pools
       /\ l.kind = "amm_created" => l.amm \in Amms
       /\ l.kind = "pool" => l.emitter \in Pools
       /\ l.kind = "amm" => l.emitter \in Amms}

CreatesPool(c, g, p) == c[g].kind = "pool_created" /\ c[g].pool = p
CreatesAmm(c, g, a) == c[g].kind = "amm_created" /\ c[g].amm = a

AmmCreations(c, h) == {g \in 1..(h - 1) : CreatesAmm(c, g, c[h].emitter)}

PoolIn(c, h) ==
    IF c[h].kind \in Creations THEN c[h].pool
    ELSE IF c[h].kind = "pool"
    THEN IF \E g \in 1..(h - 1) : CreatesPool(c, g, c[h].emitter) THEN c[h].emitter ELSE Zero
    ELSE IF AmmCreations(c, h) = {} THEN Zero ELSE c[CHOOSE g \in AmmCreations(c, h) : TRUE].pool

Followed(c) == {h \in DOMAIN c : PoolIn(c, h) # Zero}

Names(c, h, k) ==
    /\ c[h].kind \notin Creations
    /\ PoolIn(c, h) = k[1]
    /\ k[2] \in {c[h].account, c[h].secondary}

RowIn(c, h) ==
    [entity_index |-> Cardinality({g \in Followed(c) : g <= h}), log |-> h, pool |-> PoolIn(c, h)]

(***************************************************************************)
(* The inductive invariant.  The chain: its logs are well formed, and an   *)
(* AMM is created once.                                                    *)
(***************************************************************************)
ChainInv ==
    /\ logs \in Seq(Logs) /\ history \in Seq(Logs)
    /\ \A g, h \in DOMAIN ChainLogs :
          ChainLogs[g].kind = "amm_created" /\ CreatesAmm(ChainLogs, h, ChainLogs[g].amm) => g = h

\* The stores are what the committed blocks say.
StoresInv ==
    /\ pools = {history[h].pool : h \in {g \in DOMAIN history : history[g].kind = "pool_created"}}
    /\ \A h \in DOMAIN history : history[h].kind = "amm_created" => amms[history[h].amm] = history[h].pool
    /\ \A a \in Amms : (\A h \in DOMAIN history : ~CreatesAmm(history, h, a)) => amms[a] = Zero
    /\ counter = Cardinality(Followed(history))
    /\ accounts \in [Keys -> Nat]
    /\ \A k \in Keys : accounts[k] > 0 <=> \E h \in DOMAIN history : Names(history, h, k)

\* And so are the rows.
RowsInv ==
    /\ db.events = {RowIn(history, h) : h \in Followed(history)}
    /\ \A k \in Keys : db.accounts[k] \in Nat /\ (db.accounts[k] > 0 <=> accounts[k] > 0)

IInv == ChainInv /\ StoresInv /\ RowsInv

-----------------------------------------------------------------------------
\* The property's own words for the pool of a log.
LEMMA TruePoolIn ==
  ASSUME history \in Seq(Logs), NEW h \in DOMAIN history
  PROVE  TruePool(h) = PoolIn(history, h)
<1>1. history[h].kind \in LogKinds
  BY DEF Logs
<1> QED
  BY <1>1 DEF TruePool, PoolIn, LogKinds, Creations, AmmCreations, CreatesPool, CreatesAmm

LEMMA RowsAreThose ==
  IInv => RowsFollowCreations
<1> SUFFICES ASSUME IInv PROVE RowsFollowCreations
  OBVIOUS
<1>1. \A h \in DOMAIN history : TruePool(h) = PoolIn(history, h)
  BY TruePoolIn DEF IInv, ChainInv
<1>2. {h \in DOMAIN history : TruePool(h) # Zero} = Followed(history)
  BY <1>1 DEF Followed
<1>3. \A h \in Followed(history) : h \in DOMAIN history /\ TruePool(h) = PoolIn(history, h)
  BY <1>1 DEF Followed
<1>4. db.events = {[entity_index |-> Cardinality({g \in Followed(history) : g <= h}),
                    log |-> h, pool |-> TruePool(h)] : h \in Followed(history)}
  BY <1>3 DEF IInv, RowsInv, RowIn
<1>5. \A k \in Keys : db.accounts[k] > 0 <=>
        \E h \in DOMAIN history : /\ history[h].kind \notin Creations
                                  /\ TruePool(h) = k[1]
                                  /\ k[2] \in {history[h].account, history[h].secondary}
  BY <1>1 DEF IInv, RowsInv, StoresInv, Names
<1> QED
  BY <1>2, <1>4, <1>5 DEF RowsFollowCreations

\* A log's pool is decided by what is before it.
LEMMA PoolInPrefix ==
  ASSUME NEW c \in Seq(Logs), NEW d \in Seq(Logs), NEW h \in 1..Len(c)
  PROVE  PoolIn(c \o d, h) = PoolIn(c, h)
<1>1. PICK e : e = c \o d
  OBVIOUS
<1>2. \A g \in 1..h : e[g] = c[g]
  BY <1>1
<1>3. AmmCreations(e, h) = AmmCreations(c, h) /\ e[h] = c[h]
  BY <1>2 DEF AmmCreations, CreatesAmm
<1>4. \A g \in AmmCreations(c, h) : e[g] = c[g]
  BY <1>2 DEF AmmCreations
<1>5. (\E g \in 1..(h - 1) : CreatesPool(e, g, e[h].emitter))
        <=> \E g \in 1..(h - 1) : CreatesPool(c, g, c[h].emitter)
  BY <1>2 DEF CreatesPool
<1>6. PoolIn(e, h) = PoolIn(c, h)
  BY <1>3, <1>4, <1>5 DEF PoolIn
<1> QED
  BY <1>1, <1>6

\* An element of the first sequence, and of the second.
LEMMA Joined ==
  ASSUME NEW c \in Seq(Logs), NEW d \in Seq(Logs)
  PROVE  /\ c \o d \in Seq(Logs) /\ Len(c \o d) = Len(c) + Len(d)
         /\ \A h \in 1..Len(c) : (c \o d)[h] = c[h]
         /\ \A n \in 1..Len(d) : (c \o d)[Len(c) + n] = d[n]
         /\ \A h \in 1..Len(c \o d) : h \in 1..Len(c) \/ \E n \in 1..Len(d) : h = Len(c) + n
<1>1. c \o d \in Seq(Logs) /\ Len(c \o d) = Len(c) + Len(d)
  OBVIOUS
<1>2. ASSUME NEW h \in 1..(Len(c) + Len(d)), h \notin 1..Len(c)
      PROVE  \E n \in 1..Len(d) : h = Len(c) + n
  <2>1. h - Len(c) \in 1..Len(d) /\ h = Len(c) + (h - Len(c))
    BY <1>2
  <2> QED
    BY <2>1
<1> QED
  BY <1>1, <1>2

\* The numbers of a set up to l, and those of another, counted from l on.
Then(F, l, E) == F \cup {l + n : n \in E}

LEMMA CountBoth ==
  ASSUME NEW l \in Nat, NEW F, F \subseteq 1..l, NEW E, E \subseteq Nat \ {0}, IsFiniteSet(E)
  PROVE  Cardinality(Then(F, l, E)) = Cardinality(F) + Cardinality(E)
<1>1. IsFiniteSet(F)
  <2>1. IsFiniteSet(1..l)
    BY FS_Interval
  <2> QED
    BY <2>1, FS_Subset
<1>2. PICK later : later = [n \in E |-> l + n]
  OBVIOUS
<1>3. PICK T : T = {later[n] : n \in E}
  OBVIOUS
<1>4. \A i, j \in E : later[i] = later[j] => i = j
  BY <1>2
<1>5. IsFiniteSet(T) /\ Cardinality(T) = Cardinality(E)
  BY <1>1, <1>3, <1>4, FiniteImage
<1>6. T = {l + n : n \in E}
  BY <1>2, <1>3
<1>7. F \cap T = {}
  BY <1>6
<1>10. Then(F, l, E) = F \cup T
  BY <1>6 DEF Then
<1>8. IsFiniteSet(F \cup T) /\ Cardinality(F \cup T) = Cardinality(F) + Cardinality(T) - Cardinality(F \cap T)
  BY <1>1, <1>5, FS_Union
<1>9. Cardinality(F \cap T) = 0 /\ Cardinality(F) \in Nat /\ Cardinality(T) \in Nat
  BY <1>1, <1>5, <1>7, FS_EmptySet, FS_CardinalityType
<1> QED
  BY <1>5, <1>8, <1>9, <1>10

\* A block's log has the pool that the chain says it has.
LEMMA PoolInBlock ==
  ASSUME ChainInv, StoresInv, NEW n \in DOMAIN logs
  PROVE  PoolOf(n) = PoolIn(ChainLogs, Len(history) + n)
<1>0. logs \in Seq(Logs) /\ history \in Seq(Logs)
  BY DEF ChainInv
<1>1. PICK c : c = history \o logs
  OBVIOUS
<1>2. PICK l \in Nat : l = Len(history)
  BY <1>0
<1>3. /\ \A h \in 1..l : c[h] = history[h]
      /\ \A m \in 1..Len(logs) : c[l + m] = logs[m]
      /\ \A h \in 1..Len(c) : h \in 1..l \/ \E m \in 1..Len(logs) : h = l + m
      /\ c \in Seq(Logs) /\ Len(c) = l + Len(logs)
  BY <1>0, <1>1, <1>2, Joined
<1>4. n \in 1..Len(logs) /\ logs[n] \in Logs /\ DOMAIN logs = 1..Len(logs) /\ DOMAIN history = 1..l
      /\ Len(logs) \in Nat
  BY <1>0, <1>2
<1>5. \A g \in 1..(l + n - 1) : g \in 1..l \/ \E m \in 1..(n - 1) : g = l + m
  <2> SUFFICES ASSUME NEW g \in 1..(l + n - 1), g \notin 1..l PROVE \E m \in 1..(n - 1) : g = l + m
    OBVIOUS
  <2>1. g - l \in 1..(n - 1) /\ g = l + (g - l)
    BY <1>4
  <2> QED
    BY <2>1
<1>6. logs[n].kind \in LogKinds
  BY <1>4 DEF Logs
<1>7. CASE logs[n].kind \in Creations
  BY <1>3, <1>4, <1>7, <1>1, <1>2 DEF PoolOf, PoolIn, Creations, ChainLogs
<1>8. CASE logs[n].kind = "pool"
  <2>1. PICK p : p = logs[n].emitter
    OBVIOUS
  <2>2. p \in pools <=> \E g \in 1..l : CreatesPool(c, g, p)
    <3>1. p \in pools <=> \E h \in DOMAIN history : history[h].kind = "pool_created" /\ history[h].pool = p
      BY DEF StoresInv
    <3> QED
      BY <1>3, <1>4, <3>1 DEF CreatesPool
  <2>3. (\E m \in 1..(n - 1) : logs[m].kind = "pool_created" /\ logs[m].pool = p)
          <=> \E m \in 1..(n - 1) : CreatesPool(c, l + m, p)
    BY <1>3, <1>4 DEF CreatesPool
  <2>4. \A m \in 1..(n - 1) : l + m \in 1..(l + n - 1)
    BY <1>4
  <2>5. \A g \in 1..l : g \in 1..(l + n - 1)
    BY <1>4
  <2>6. KnownPool(n) <=> \E g \in 1..(l + n - 1) : CreatesPool(c, g, p)
    BY <1>5, <2>1, <2>2, <2>3, <2>4, <2>5 DEF KnownPool
  <2>7. c[l + n].emitter = p /\ c[l + n].kind = "pool"
    BY <1>3, <1>4, <1>8, <2>1
  <2>8. PoolIn(c, l + n) = IF KnownPool(n) THEN p ELSE Zero
    <3>1. PoolIn(c, l + n) = IF \E g \in 1..(l + n - 1) : CreatesPool(c, g, p) THEN p ELSE Zero
      <4>1. PICK h : h = l + n
        OBVIOUS
      <4>2. PoolIn(c, h) = IF \E g \in 1..(h - 1) : CreatesPool(c, g, p) THEN p ELSE Zero
        BY <2>7, <4>1 DEF PoolIn, Creations
      <4> QED
        BY <1>2, <1>4, <4>1, <4>2
    <3> QED
      BY <2>6, <3>1
  <2> QED
    BY <1>1, <1>2, <1>8, <2>1, <2>8 DEF PoolOf, Creations, ChainLogs
<1>9. CASE logs[n].kind = "amm"
  <2>1. PICK a : a = logs[n].emitter
    OBVIOUS
  <2>2. a \in Amms
    BY <1>4, <1>9, <2>1 DEF Logs
  <2>3. PICK found : found = {m \in 1..(n - 1) : logs[m].kind = "amm_created" /\ logs[m].amm = a}
    OBVIOUS
  <2>4. c[l + n].emitter = a /\ c[l + n].kind = "amm"
    BY <1>3, <1>4, <1>9, <2>1
  <2>5. AmmCreations(c, l + n) = {g \in 1..(l + n - 1) : CreatesAmm(c, g, a)}
    <3>1. PICK h : h = l + n
      OBVIOUS
    <3>2. AmmCreations(c, h) = {g \in 1..(h - 1) : CreatesAmm(c, g, a)}
      BY <2>4, <3>1 DEF AmmCreations
    <3> QED
      BY <1>2, <1>4, <3>1, <3>2
  <2>6. PoolIn(c, l + n) = IF AmmCreations(c, l + n) = {} THEN Zero
                           ELSE c[CHOOSE g \in AmmCreations(c, l + n) : TRUE].pool
    BY <1>9, <2>4 DEF PoolIn, Creations
  <2>7. \A g, h \in AmmCreations(c, l + n) : g = h
    <3>1. \A g, h \in DOMAIN c : CreatesAmm(c, g, a) /\ CreatesAmm(c, h, a) => g = h
      BY <1>1 DEF ChainInv, ChainLogs, CreatesAmm
    <3>2. AmmCreations(c, l + n) \subseteq DOMAIN c
      BY <1>3, <1>4, <2>5
    <3> QED
      BY <2>5, <3>1, <3>2
  <2>8. \A g \in AmmCreations(c, l + n) : PoolIn(c, l + n) = c[g].pool
    <3> SUFFICES ASSUME NEW g \in AmmCreations(c, l + n) PROVE PoolIn(c, l + n) = c[g].pool
      OBVIOUS
    <3>1. g = CHOOSE h \in AmmCreations(c, l + n) : TRUE
      BY <2>7
    <3> QED
      BY <2>6, <3>1
  <2>9. CASE found # {}
    <3>1. PICK m \in found : m = CHOOSE i \in found : \A o \in found : i <= o
      <4>1. found \subseteq Nat
        BY <1>4, <2>3
      <4> QED
        BY <2>9, <4>1, LeastNumber
    <3>2. l + m \in AmmCreations(c, l + n)
      BY <1>3, <1>4, <2>3, <2>5 DEF CreatesAmm
    <3>3. PoolIn(c, l + n) = logs[m].pool
      BY <1>3, <1>4, <2>3, <2>8, <3>2
    <3>4. PoolOfAmm(n) = logs[m].pool
      BY <2>1, <2>3, <2>9, <3>1 DEF PoolOfAmm
    <3> QED
      BY <1>1, <1>2, <1>9, <3>3, <3>4 DEF PoolOf, Creations, ChainLogs
  <2>10. CASE found = {}
    <3>1. PoolOfAmm(n) = amms[a]
      BY <2>1, <2>2, <2>3, <2>10 DEF PoolOfAmm
    <3>2. \A g \in AmmCreations(c, l + n) : g \in 1..l /\ CreatesAmm(history, g, a)
      <4> SUFFICES ASSUME NEW g \in AmmCreations(c, l + n) PROVE g \in 1..l /\ CreatesAmm(history, g, a)
        OBVIOUS
      <4>1. g \in 1..(l + n - 1) /\ CreatesAmm(c, g, a)
        BY <2>5
      <4>2. ASSUME NEW m \in 1..(n - 1), g = l + m PROVE FALSE
        <5>1. c[g] = logs[m]
          BY <1>3, <1>4, <4>2
        <5> QED
          BY <2>3, <2>10, <4>1, <5>1 DEF CreatesAmm
      <4>3. g \in 1..l
        BY <1>5, <4>1, <4>2
      <4> QED
        BY <1>3, <4>1, <4>3 DEF CreatesAmm
    <3>3. CASE AmmCreations(c, l + n) = {}
      <4>1. \A h \in 1..l : ~CreatesAmm(history, h, a)
        <5>1. \A h \in 1..l : h \in 1..(l + n - 1)
          BY <1>2, <1>4
        <5>2. \A h \in 1..l : ~CreatesAmm(c, h, a)
          BY <2>5, <3>3, <5>1
        <5> QED
          BY <1>3, <5>2 DEF CreatesAmm
      <4>2. amms[a] = Zero
        BY <1>4, <2>2, <4>1 DEF StoresInv
      <4> QED
        BY <1>1, <1>2, <1>9, <2>6, <3>1, <3>3, <4>2 DEF PoolOf, Creations, ChainLogs
    <3>4. CASE AmmCreations(c, l + n) # {}
      <4>1. PICK g \in AmmCreations(c, l + n) : TRUE
        BY <3>4
      <4>2. g \in 1..l /\ history[g].kind = "amm_created" /\ history[g].amm = a
        BY <3>2, <4>1 DEF CreatesAmm
      <4>3. amms[a] = history[g].pool
        BY <1>4, <4>2 DEF StoresInv
      <4>4. PoolIn(c, l + n) = history[g].pool
        BY <1>3, <2>8, <4>1, <4>2
      <4> QED
        BY <1>1, <1>2, <1>9, <3>1, <4>3, <4>4 DEF PoolOf, Creations, ChainLogs
    <3> QED
      BY <3>3, <3>4
  <2> QED
    BY <2>9, <2>10
<1> QED
  BY <1>6, <1>7, <1>8, <1>9 DEF LogKinds

-----------------------------------------------------------------------------
(***************************************************************************)
(* The end of a block, with the chain c and the number l of its logs that  *)
(* were committed before.                                                  *)
(***************************************************************************)
LEMMA ChainParts ==
  ASSUME IInv
  PROVE  /\ ChainLogs \in Seq(Logs) /\ Len(history) \in Nat /\ Len(logs) \in Nat
         /\ Len(ChainLogs) = Len(history) + Len(logs)
         /\ DOMAIN history = 1..Len(history) /\ DOMAIN logs = 1..Len(logs)
         /\ DOMAIN ChainLogs = 1..(Len(history) + Len(logs))
         /\ \A h \in DOMAIN history : ChainLogs[h] = history[h] /\ history[h] \in Logs
                                      /\ PoolIn(ChainLogs, h) = PoolIn(history, h)
         /\ \A n \in DOMAIN logs : ChainLogs[Len(history) + n] = logs[n] /\ logs[n] \in Logs
                                   /\ PoolIn(ChainLogs, Len(history) + n) = PoolOf(n)
         /\ \A h \in DOMAIN ChainLogs : h \in DOMAIN history \/ \E n \in DOMAIN logs : h = Len(history) + n
         /\ \A n \in DOMAIN logs : Len(history) + n \in DOMAIN ChainLogs
         /\ DOMAIN history \subseteq DOMAIN ChainLogs
<1>1. logs \in Seq(Logs) /\ history \in Seq(Logs)
  BY DEF IInv, ChainInv
<1>2. \A h \in 1..Len(history) : PoolIn(ChainLogs, h) = PoolIn(history, h)
  BY <1>1, PoolInPrefix DEF ChainLogs
<1>3. \A n \in DOMAIN logs : PoolIn(ChainLogs, Len(history) + n) = PoolOf(n)
  BY PoolInBlock DEF IInv
<1>4. /\ ChainLogs \in Seq(Logs) /\ Len(ChainLogs) = Len(history) + Len(logs)
      /\ \A h \in 1..Len(history) : ChainLogs[h] = history[h]
      /\ \A n \in 1..Len(logs) : ChainLogs[Len(history) + n] = logs[n]
      /\ \A h \in 1..Len(ChainLogs) : h \in 1..Len(history) \/ \E n \in 1..Len(logs) : h = Len(history) + n
  BY <1>1, Joined DEF ChainLogs
<1>5. DOMAIN history = 1..Len(history) /\ DOMAIN logs = 1..Len(logs) /\ DOMAIN ChainLogs = 1..Len(ChainLogs)
      /\ Len(history) \in Nat /\ Len(logs) \in Nat
  BY <1>1, <1>4
<1>6. \A h \in 1..Len(history) : history[h] \in Logs
  BY <1>1
<1>7. \A n \in 1..Len(logs) : logs[n] \in Logs
  BY <1>1
<1>8. \A n \in 1..Len(logs) : Len(history) + n \in 1..(Len(history) + Len(logs))
  BY <1>5
<1>9. 1..Len(history) \subseteq 1..(Len(history) + Len(logs))
  BY <1>5
<1> QED
  BY <1>2, <1>3, <1>4, <1>5, <1>6, <1>7, <1>8, <1>9

\* The chain's events are the committed ones and the block's.
LEMMA FollowedAfter ==
  ASSUME IInv
  PROVE  /\ Followed(ChainLogs) = Followed(history) \cup {Len(history) + n : n \in Events}
         /\ Followed(history) \subseteq 1..Len(history) /\ Events \subseteq 1..Len(logs)
<1>1. PICK c : c = ChainLogs
  OBVIOUS
<1>2. PICK l : l = Len(history)
  OBVIOUS
<1>3. /\ \A h \in DOMAIN history : h \in DOMAIN c /\ PoolIn(c, h) = PoolIn(history, h)
      /\ \A n \in DOMAIN logs : l + n \in DOMAIN c /\ PoolIn(c, l + n) = PoolOf(n)
      /\ \A h \in DOMAIN c : h \in DOMAIN history \/ \E n \in DOMAIN logs : h = l + n
      /\ DOMAIN history = 1..l /\ DOMAIN logs = 1..Len(logs)
  BY <1>1, <1>2, ChainParts
<1>4. \A h \in DOMAIN history : h \in Followed(c) <=> h \in Followed(history)
  BY <1>3 DEF Followed
<1>5. \A n \in DOMAIN logs : l + n \in Followed(c) <=> n \in Events
  BY <1>3 DEF Followed, Events
<1>6. Followed(c) \subseteq DOMAIN c /\ Followed(history) \subseteq DOMAIN history /\ Events \subseteq DOMAIN logs
  BY DEF Followed, Events
<1>7. Followed(c) = Followed(history) \cup {l + n : n \in Events}
  BY <1>3, <1>4, <1>5, <1>6
<1> QED
  BY <1>1, <1>2, <1>3, <1>6, <1>7

\* The events up to a committed log are the same; up to one of the block,
\* all the committed ones and the block's up to it.
LEMMA EventNumbers ==
  ASSUME IInv
  PROVE  /\ Cardinality(Followed(ChainLogs)) = counter + Cardinality(Events)
         /\ \A h \in Followed(history) :
              {g \in Followed(ChainLogs) : g <= h} = {g \in Followed(history) : g <= h}
         /\ \A n \in Events :
              Cardinality({g \in Followed(ChainLogs) : g <= Len(history) + n}) = EventIndex(n)
<1>1. PICK f : f = Followed(ChainLogs)
  OBVIOUS
<1>2. PICK o : o = Followed(history)
  OBVIOUS
<1>3. PICK l \in Nat : l = Len(history)
  BY ChainParts
<1>4. PICK m \in Nat : m = Len(logs)
  BY ChainParts
<1>5. f = o \cup {l + n : n \in Events} /\ o \subseteq 1..l /\ Events \subseteq 1..m
  BY <1>1, <1>2, <1>3, <1>4, FollowedAfter
<1>6. counter = Cardinality(o)
  BY <1>2 DEF IInv, StoresInv
<1>10. Events \subseteq Nat \ {0} /\ IsFiniteSet(Events)
  <2>1. PICK v : v = Events
    OBVIOUS
  <2>2. IsFiniteSet(1..m) /\ v \subseteq 1..m
    BY <1>4, <1>5, <2>1, FS_Interval
  <2>3. IsFiniteSet(v)
    BY <2>2, FS_Subset
  <2>4. v \subseteq Nat \ {0}
    BY <2>2
  <2> QED
    BY <2>1, <2>3, <2>4
<1>7. Cardinality(f) = counter + Cardinality(Events)
  <2>1. PICK v : v = Events
    OBVIOUS
  <2>2. f = Then(o, l, v)
    BY <1>5, <2>1 DEF Then
  <2>4. o \subseteq 1..l /\ v \subseteq Nat \ {0} /\ IsFiniteSet(v)
    BY <1>5, <1>10, <2>1
  <2>3. Cardinality(Then(o, l, v)) = Cardinality(o) + Cardinality(v)
    BY <2>4, CountBoth
  <2> QED
    BY <1>6, <2>1, <2>2, <2>3
<1>8. ASSUME NEW h \in o PROVE {g \in f : g <= h} = {g \in o : g <= h}
  <2>1. \A n \in Events : ~(l + n <= h)
    BY <1>3, <1>4, <1>5
  <2> QED
    BY <1>5, <2>1
<1>9. ASSUME NEW n \in Events PROVE Cardinality({g \in f : g <= l + n}) = EventIndex(n)
  <2>1. PICK E : E = {i \in Events : i <= n}
    OBVIOUS
  <2>2. E \subseteq Nat \ {0} /\ IsFiniteSet(E)
    BY <1>10, <2>1, FS_Subset
  <2>3. \A g \in o : g <= l + n
    BY <1>3, <1>4, <1>5
  <2>4. \A i \in Events : l + i <= l + n <=> i <= n
    BY <1>3, <1>4, <1>5
  <2>5. PICK up : up = {g \in f : g <= l + n}
    OBVIOUS
  <2>6. up = Then(o, l, E)
    BY <1>5, <2>1, <2>3, <2>4, <2>5 DEF Then
  <2>7. Cardinality(up) = Cardinality(o) + Cardinality(E)
    <3>1. o \subseteq 1..l
      BY <1>5
    <3>2. Cardinality(Then(o, l, E)) = Cardinality(o) + Cardinality(E)
      BY <2>2, <3>1, CountBoth
    <3> QED
      BY <2>6, <3>2
  <2> QED
    BY <1>6, <2>1, <2>5, <2>7 DEF EventIndex
<1> QED
  BY <1>1, <1>2, <1>3, <1>7, <1>8, <1>9

\* A log of the block names a key's account when it is among its discoveries.
LEMMA NamesAfter ==
  ASSUME IInv, BrokerAssumption, NEW k \in Keys
  PROVE  /\ \A h \in DOMAIN history : Names(ChainLogs, h, k) <=> Names(history, h, k)
         /\ \A n \in DOMAIN logs : Names(ChainLogs, Len(history) + n, k) <=> n \in Discoveries(k)
         /\ \A n \in DOMAIN logs : k \in KeysOf(n) <=> /\ PoolOf(n) = k[1]
                                                       /\ k[2] \in {logs[n].account, logs[n].secondary}
<1>1. \A h \in DOMAIN history : Names(ChainLogs, h, k) <=> Names(history, h, k)
  BY ChainParts DEF Names
<1>2. k[1] \in Pools /\ k[2] \in Users /\ k = <<k[1], k[2]>> /\ k[1] # Zero /\ k[2] # Zero
  BY DEF Keys, BrokerAssumption
<1>3. \A n \in DOMAIN logs : k \in KeysOf(n) <=> /\ PoolOf(n) = k[1]
                                                 /\ k[2] \in {logs[n].account, logs[n].secondary}
  <2> SUFFICES ASSUME NEW n \in DOMAIN logs
               PROVE  k \in KeysOf(n) <=> PoolOf(n) = k[1] /\ k[2] \in {logs[n].account, logs[n].secondary}
    OBVIOUS
  <2>1. PICK p : p = PoolOf(n)
    OBVIOUS
  <2>2. PICK us : us = {logs[n].account, logs[n].secondary}
    OBVIOUS
  <2>3. k \in KeysOf(n) <=> \E u \in us \ {Zero} : k = <<p, u>>
    BY <2>1, <2>2 DEF KeysOf
  <2>4. (\E u \in us \ {Zero} : k = <<p, u>>) <=> p = k[1] /\ k[2] \in us
    BY <1>2
  <2> QED
    BY <2>1, <2>2, <2>3, <2>4
<1>4. ASSUME NEW n \in DOMAIN logs
      PROVE  Names(ChainLogs, Len(history) + n, k) <=> n \in Discoveries(k)
  <2>1. ChainLogs[Len(history) + n] = logs[n] /\ PoolIn(ChainLogs, Len(history) + n) = PoolOf(n)
    BY ChainParts
  <2>2. PoolOf(n) = k[1] => n \in Events
    BY <1>2 DEF Events
  <2> QED
    BY <1>3, <2>1, <2>2 DEF Names, Discoveries
<1> QED
  BY <1>1, <1>3, <1>4

-----------------------------------------------------------------------------
(***************************************************************************)
(* The steps.  The chain adds a log.                                       *)
(***************************************************************************)
LEMMA EmitStep ==
  ASSUME IInv, NEW log \in Logs, Emit(log),
         log.kind = "amm_created" => ~CreatedAmm(log.amm)
  PROVE  IInv'
<1>1. logs' = Append(logs, log) /\ UNCHANGED <<history, pools, amms, accounts, counter, db>>
  BY DEF Emit, stores
<1>2. StoresInv'
  BY <1>1 DEF IInv, StoresInv
<1>3. RowsInv'
  BY <1>1 DEF IInv, RowsInv
<1>4. PICK c : c = ChainLogs
  OBVIOUS
<1>5. c \in Seq(Logs) /\ logs \in Seq(Logs) /\ history \in Seq(Logs)
  BY <1>4, ChainParts DEF IInv, ChainInv
<1>6. ChainLogs' = Append(c, log)
  BY <1>1, <1>4, <1>5 DEF ChainLogs
<1>7. PICK d : d = ChainLogs'
  OBVIOUS
<1>8. \A g, h \in DOMAIN d : d[g].kind = "amm_created" /\ CreatesAmm(d, h, d[g].amm) => g = h
  <2>1. \A g \in DOMAIN d : g = Len(c) + 1 \/ g \in DOMAIN c
    BY <1>5, <1>6, <1>7
  <2>2. d[Len(c) + 1] = log /\ \A g \in DOMAIN c : d[g] = c[g]
    BY <1>5, <1>6, <1>7
  <2>3. \A g, h \in DOMAIN c : c[g].kind = "amm_created" /\ CreatesAmm(c, h, c[g].amm) => g = h
    BY <1>4 DEF IInv, ChainInv
  <2>4. log.kind = "amm_created" => \A g \in DOMAIN c : ~(c[g].kind = "amm_created" /\ c[g].amm = log.amm)
    BY <1>4 DEF CreatedAmm
  <2> QED
    BY <2>1, <2>2, <2>3, <2>4 DEF CreatesAmm
<1>9. logs' \in Seq(Logs) /\ history' \in Seq(Logs)
  BY <1>1, <1>5
<1>10. ChainInv'
  BY <1>7, <1>8, <1>9 DEF ChainInv
<1> QED
  BY <1>2, <1>3, <1>10 DEF IInv

LEMMA CreatePoolStep ==
  ASSUME IInv, NEW p \in Pools, NEW u \in Users, CreatePool(p, u)
  PROVE  IInv'
<1>1. PICK log : log = [kind |-> "pool_created", emitter |-> Factory, pool |-> p, amm |-> Zero,
                        account |-> u, secondary |-> Zero]
  OBVIOUS
<1>2. log \in Logs
  BY <1>1 DEF Logs, LogKinds, Creations
<1>3. log.kind # "amm_created" /\ Emit(log)
  BY <1>1 DEF CreatePool
<1> QED
  BY <1>2, <1>3, EmitStep

LEMMA CreateAmmStep ==
  ASSUME IInv, NEW p \in Pools, NEW a \in Amms, CreateAmm(p, a)
  PROVE  IInv'
<1>1. PICK log : log = [kind |-> "amm_created", emitter |-> Factory, pool |-> p, amm |-> a,
                        account |-> Zero, secondary |-> Zero]
  OBVIOUS
<1>2. log \in Logs
  BY <1>1 DEF Logs, LogKinds, Creations
<1>3. Emit(log) /\ ~CreatedAmm(log.amm)
  BY <1>1 DEF CreateAmm
<1> QED
  BY <1>2, <1>3, EmitStep

LEMMA PoolLogStep ==
  ASSUME IInv, NEW p \in Pools, NEW u \in Users \cup {Zero}, NEW v \in Users \cup {Zero},
         PoolLog(p, u, v)
  PROVE  IInv'
<1>1. PICK log : log = [kind |-> "pool", emitter |-> p, pool |-> Zero, amm |-> Zero,
                        account |-> u, secondary |-> v]
  OBVIOUS
<1>2. log \in Logs
  BY <1>1 DEF Logs, LogKinds, Creations
<1>3. Emit(log) /\ log.kind # "amm_created"
  BY <1>1 DEF PoolLog
<1> QED
  BY <1>2, <1>3, EmitStep

LEMMA AmmLogStep ==
  ASSUME IInv, NEW a \in Amms, NEW u \in Users \cup {Zero}, NEW v \in Users \cup {Zero},
         AmmLog(a, u, v)
  PROVE  IInv'
<1>1. PICK log : log = [kind |-> "amm", emitter |-> a, pool |-> Zero, amm |-> Zero,
                        account |-> u, secondary |-> v]
  OBVIOUS
<1>2. log \in Logs
  BY <1>1 DEF Logs, LogKinds, Creations
<1>3. Emit(log) /\ log.kind # "amm_created"
  BY <1>1 DEF AmmLog
<1> QED
  BY <1>2, <1>3, EmitStep

\* The chain does not change, it is now all committed.
LEMMA EndBlockChain ==
  ASSUME IInv, EndBlock
  PROVE  ChainInv'
<1>1. history' = ChainLogs /\ logs' = <<>> /\ ChainLogs \in Seq(Logs)
  BY ChainParts DEF EndBlock
<1>2. ChainLogs' = ChainLogs
  BY <1>1 DEF ChainLogs
<1> QED
  BY <1>1, <1>2 DEF IInv, ChainInv

LEMMA EndBlockPools ==
  ASSUME IInv, EndBlock
  PROVE  pools' = {history'[h].pool : h \in {g \in DOMAIN history' : history'[g].kind = "pool_created"}}
<1>1. PICK c : c = history'
  OBVIOUS
<1>2. PICK l : l = Len(history)
  OBVIOUS
<1>3. /\ \A h \in DOMAIN history : h \in DOMAIN c /\ c[h] = history[h]
      /\ \A n \in DOMAIN logs : l + n \in DOMAIN c /\ c[l + n] = logs[n]
      /\ \A h \in DOMAIN c : h \in DOMAIN history \/ \E n \in DOMAIN logs : h = l + n
  BY <1>1, <1>2, ChainParts DEF EndBlock
<1>4. \A p : p \in pools <=> \E h \in DOMAIN history : history[h].kind = "pool_created" /\ history[h].pool = p
  BY DEF IInv, StoresInv
<1>5. \A p : p \in pools' <=>
               \/ p \in pools
               \/ \E n \in DOMAIN logs : logs[n].kind = "pool_created" /\ logs[n].pool = p
  BY DEF EndBlock
<1>6. \A p : p \in pools' <=> \E h \in DOMAIN c : c[h].kind = "pool_created" /\ c[h].pool = p
  BY <1>3, <1>4, <1>5
<1>7. pools' = {c[h].pool : h \in {g \in DOMAIN c : c[g].kind = "pool_created"}}
  BY <1>6
<1> QED
  BY <1>1, <1>7

LEMMA EndBlockAmms ==
  ASSUME IInv, EndBlock
  PROVE  /\ \A h \in DOMAIN history' :
              history'[h].kind = "amm_created" => amms'[history'[h].amm] = history'[h].pool
         /\ \A a \in Amms : (\A h \in DOMAIN history' : ~CreatesAmm(history', h, a)) => amms'[a] = Zero
<1>1. PICK c : c = history'
  OBVIOUS
<1>2. PICK l : l = Len(history)
  OBVIOUS
<1>3. /\ \A h \in DOMAIN history : h \in DOMAIN c /\ c[h] = history[h] /\ history[h] \in Logs
      /\ \A n \in DOMAIN logs : l + n \in DOMAIN c /\ c[l + n] = logs[n] /\ logs[n] \in Logs
      /\ \A h \in DOMAIN c : h \in DOMAIN history \/ \E n \in DOMAIN logs : h = l + n
      /\ l \in Nat /\ DOMAIN history = 1..l /\ DOMAIN logs = 1..Len(logs) /\ Len(logs) \in Nat
  BY <1>1, <1>2, ChainParts DEF EndBlock
<1>4. \A g, h \in DOMAIN c : c[g].kind = "amm_created" /\ CreatesAmm(c, h, c[g].amm) => g = h
  BY <1>1 DEF IInv, ChainInv, EndBlock
<1>5. ASSUME NEW a \in Amms
      PROVE  amms'[a] = IF \E n \in DOMAIN logs : CreatesAmm(logs, n, a)
                        THEN logs[CHOOSE n \in DOMAIN logs : CreatesAmm(logs, n, a)].pool
                        ELSE amms[a]
  BY DEF EndBlock, CreatesAmm
<1>6. ASSUME NEW h \in DOMAIN c, c[h].kind = "amm_created" PROVE amms'[c[h].amm] = c[h].pool
  <2>1. PICK a : a = c[h].amm
    OBVIOUS
  <2>2. a \in Amms
    BY <1>3, <1>6, <2>1 DEF Logs
  <2>3. CASE h \in DOMAIN history
    <3>1. ASSUME NEW n \in DOMAIN logs, CreatesAmm(logs, n, a) PROVE FALSE
      <4>1. CreatesAmm(c, l + n, a) /\ l + n \in DOMAIN c
        BY <1>3, <3>1 DEF CreatesAmm
      <4>2. h = l + n
        BY <1>4, <1>6, <2>1, <4>1
      <4> QED
        BY <1>3, <2>3, <4>2
    <3>2. amms'[a] = amms[a]
      BY <1>5, <2>2, <3>1
    <3>3. amms[a] = history[h].pool
      BY <1>3, <1>6, <2>1, <2>3 DEF IInv, StoresInv
    <3> QED
      BY <1>3, <2>1, <2>3, <3>2, <3>3
  <2>4. ASSUME NEW n \in DOMAIN logs, h = l + n PROVE amms'[a] = c[h].pool
    <3>1. CreatesAmm(logs, n, a)
      BY <1>3, <1>6, <2>1, <2>4 DEF CreatesAmm
    <3>2. PICK m : m = CHOOSE i \in DOMAIN logs : CreatesAmm(logs, i, a)
      OBVIOUS
    <3>3. m \in DOMAIN logs /\ CreatesAmm(logs, m, a)
      BY <3>1, <3>2
    <3>4. CreatesAmm(c, l + m, a) /\ l + m \in DOMAIN c
      BY <1>3, <3>3 DEF CreatesAmm
    <3>5. c[l + m] = c[h]
      BY <1>4, <1>6, <2>1, <3>4
    <3>6. amms'[a] = logs[m].pool
      BY <1>5, <2>2, <3>1, <3>2
    <3> QED
      BY <1>3, <3>3, <3>5, <3>6
  <2> QED
    BY <1>3, <2>1, <2>3, <2>4
<1>7. ASSUME NEW a \in Amms, \A h \in DOMAIN c : ~CreatesAmm(c, h, a) PROVE amms'[a] = Zero
  <2>1. \A n \in DOMAIN logs : ~CreatesAmm(logs, n, a)
    BY <1>3, <1>7 DEF CreatesAmm
  <2>2. \A h \in DOMAIN history : ~CreatesAmm(history, h, a)
    BY <1>3, <1>7 DEF CreatesAmm
  <2>3. amms[a] = Zero
    BY <2>2 DEF IInv, StoresInv
  <2> QED
    BY <1>5, <2>1, <2>3
<1> QED
  BY <1>1, <1>6, <1>7

LEMMA EndBlockEvents ==
  ASSUME IInv, EndBlock
  PROVE  /\ counter' = Cardinality(Followed(history'))
         /\ db'.events = {RowIn(history', h) : h \in Followed(history')}
<1>1. PICK c : c = history'
  OBVIOUS
<1>2. PICK l : l = Len(history)
  OBVIOUS
<1>3. c = ChainLogs
  BY <1>1 DEF EndBlock
<1>4. counter' = Cardinality(Followed(c))
  BY <1>3, EventNumbers DEF EndBlock
<1>5. ASSUME NEW h \in Followed(history) PROVE RowIn(c, h) = RowIn(history, h)
  <2>1. {g \in Followed(c) : g <= h} = {g \in Followed(history) : g <= h}
    BY <1>3, EventNumbers
  <2>2. PoolIn(c, h) = PoolIn(history, h)
    BY <1>3, ChainParts DEF Followed
  <2> QED
    BY <2>1, <2>2 DEF RowIn
<1>6. ASSUME NEW n \in Events
      PROVE  RowIn(c, l + n) = [entity_index |-> EventIndex(n), log |-> l + n, pool |-> PoolOf(n)]
  <2>1. Cardinality({g \in Followed(c) : g <= l + n}) = EventIndex(n)
    BY <1>2, <1>3, EventNumbers
  <2>2. n \in DOMAIN logs
    BY DEF Events
  <2>3. PoolIn(c, l + n) = PoolOf(n)
    BY <1>2, <1>3, <2>2, ChainParts
  <2> QED
    BY <2>1, <2>3 DEF RowIn
<1>7. db'.events = db.events \cup {[entity_index |-> EventIndex(n), log |-> l + n, pool |-> PoolOf(n)] : n \in Events}
  BY <1>2 DEF EndBlock
<1>8. db'.events = {RowIn(history, h) : h \in Followed(history)} \cup {RowIn(c, l + n) : n \in Events}
  BY <1>6, <1>7 DEF IInv, RowsInv
<1>9. Followed(c) = Followed(history) \cup {l + n : n \in Events}
  BY <1>2, <1>3, FollowedAfter
<1>10. db'.events = {RowIn(c, h) : h \in Followed(c)}
  BY <1>5, <1>8, <1>9
<1> QED
  BY <1>1, <1>4, <1>10

LEMMA EndBlockAccounts ==
  ASSUME IInv, EndBlock, BrokerAssumption
  PROVE  /\ accounts' \in [Keys -> Nat]
         /\ \A k \in Keys : /\ accounts'[k] > 0 <=> \E h \in DOMAIN history' : Names(history', h, k)
                            /\ db'.accounts[k] \in Nat
                            /\ db'.accounts[k] > 0 <=> accounts'[k] > 0
<1>1. accounts' = AccountsAfter /\ db'.accounts = AccountRows /\ history' = ChainLogs
  BY DEF EndBlock
<1>2. accounts \in [Keys -> Nat]
  BY DEF IInv, StoresInv
<1>3. ASSUME NEW k \in Keys
      PROVE  /\ AccountsAfter[k] \in Nat
             /\ AccountsAfter[k] > 0 <=> accounts[k] > 0 \/ Discoveries(k) # {}
             /\ AccountRows[k] \in Nat
             /\ AccountRows[k] > 0 <=> AccountsAfter[k] > 0
  <2>1. PICK ds : ds = Discoveries(k)
    OBVIOUS
  <2>2. PICK was \in Nat : was = accounts[k]
    BY <1>2
  <2>3. PICK now : now = AccountsAfter[k]
    OBVIOUS
  <2>4. now = IF was = 0 /\ ds # {} THEN CHOOSE n \in ds : \A m \in ds : n <= m ELSE was
    BY <2>1, <2>2, <2>3 DEF AccountsAfter
  <2>5. ds \subseteq Nat \ {0} /\ ds \subseteq Events /\ ds \subseteq DOMAIN logs
    <3>1. Events \subseteq 1..Len(logs) /\ Len(logs) \in Nat /\ DOMAIN logs = 1..Len(logs)
      BY FollowedAfter, ChainParts
    <3>2. ds \subseteq Events
      BY <2>1 DEF Discoveries
    <3> QED
      BY <3>1, <3>2
  <2>6. was = 0 /\ ds # {} => now \in ds
    <3> SUFFICES ASSUME was = 0, ds # {} PROVE now \in ds
      OBVIOUS
    <3>1. ds \subseteq Nat
      BY <2>5
    <3>2. \E n \in ds : \A m \in ds : n <= m
      BY <3>1, LeastNumber
    <3> QED
      BY <2>4, <3>2
  <2>7. now \in Nat /\ (now > 0 <=> was > 0 \/ ds # {})
    <3>1. CASE was = 0 /\ ds # {}
      <4>1. now \in ds
        BY <2>6, <3>1
      <4>2. now \in Nat /\ now # 0
        BY <2>5, <4>1
      <4> QED
        BY <3>1, <4>2
    <3>2. CASE ~(was = 0 /\ ds # {})
      <4>1. now = was
        BY <2>4, <3>2
      <4> QED
        BY <2>2, <3>2, <4>1
    <3> QED
      BY <3>1, <3>2
  <2>8. PICK writers : writers = {n \in Events : k \in KeysOf(n) /\ AccountAt(n, k) = n}
    OBVIOUS
  <2>9. PICK row : row = AccountRows[k]
    OBVIOUS
  <2>10. row = IF writers = {} THEN db.accounts[k] ELSE now
    BY <2>3, <2>8, <2>9 DEF AccountRows
  <2>11. db.accounts[k] \in Nat /\ (db.accounts[k] > 0 <=> was > 0)
    BY <2>2 DEF IInv, RowsInv
  <2>12. was = 0 /\ ds # {} => writers # {}
    <3> SUFFICES ASSUME was = 0, ds # {} PROVE writers # {}
      OBVIOUS
    <3>1. now \in ds
      BY <2>6
    <3>2. now \in Events /\ k \in KeysOf(now) /\ now \in Nat
      BY <2>1, <2>5, <3>1 DEF Discoveries
    <3>3. AccountAt(now, k) = now
      BY <2>2, <2>3, <3>2 DEF AccountAt
    <3> QED
      BY <2>8, <3>2, <3>3
  <2>13. writers # {} => now > 0
    <3> SUFFICES ASSUME NEW n \in writers PROVE now > 0
      OBVIOUS
    <3>1. n \in Events /\ AccountAt(n, k) = n
      BY <2>8
    <3>2. n \in Nat \ {0}
      BY <3>1, FollowedAfter, ChainParts
    <3>3. AccountAt(n, k) = 0 \/ AccountAt(n, k) = now
      BY <2>3 DEF AccountAt
    <3> QED
      BY <3>1, <3>2, <3>3
  <2>14. row \in Nat /\ (row > 0 <=> now > 0)
    BY <2>7, <2>10, <2>11, <2>12, <2>13
  <2> QED
    BY <2>1, <2>2, <2>3, <2>7, <2>9, <2>14
<1>4. AccountsAfter \in [Keys -> Nat]
  <2>1. AccountsAfter = [k \in Keys |-> AccountsAfter[k]]
    BY DEF AccountsAfter
  <2> QED
    BY <1>3, <2>1
<1>5. ASSUME NEW k \in Keys
      PROVE  (\E h \in DOMAIN ChainLogs : Names(ChainLogs, h, k)) <=> accounts[k] > 0 \/ Discoveries(k) # {}
  <2>1. accounts[k] > 0 <=> \E h \in DOMAIN history : Names(ChainLogs, h, k)
    BY NamesAfter DEF IInv, StoresInv
  <2>2. Discoveries(k) \subseteq DOMAIN logs
    BY DEF Discoveries, Events
  <2>3. Discoveries(k) # {} <=> \E n \in DOMAIN logs : Names(ChainLogs, Len(history) + n, k)
    BY <2>2, NamesAfter
  <2> QED
    BY <2>1, <2>3, ChainParts
<1> QED
  BY <1>1, <1>3, <1>4, <1>5

LEMMA EndBlockStep ==
  ASSUME IInv, EndBlock, BrokerAssumption
  PROVE  IInv'
<1>1. ChainInv'
  BY EndBlockChain
<1>2. StoresInv'
  BY EndBlockPools, EndBlockAmms, EndBlockEvents, EndBlockAccounts DEF StoresInv
<1>3. RowsInv'
  BY EndBlockEvents, EndBlockAccounts DEF RowsInv
<1> QED
  BY <1>1, <1>2, <1>3 DEF IInv

LEMMA InitIInv ==
  ASSUME Init, BrokerAssumption
  PROVE  IInv
<1>1. history = <<>> /\ logs = <<>> /\ ChainLogs = <<>>
  BY DEF Init, ChainLogs
<1>2. ChainInv
  BY <1>1 DEF ChainInv
<1>3. Followed(history) = {} /\ DOMAIN history = {}
  BY <1>1 DEF Followed
<1>4. pools = {history[h].pool : h \in {g \in DOMAIN history : history[g].kind = "pool_created"}}
  BY <1>3 DEF Init
<1>7. counter = Cardinality(Followed(history))
  BY <1>3, FS_EmptySet DEF Init
<1>8. \A a \in Amms : amms[a] = Zero
  BY DEF Init
<1>9. accounts \in [Keys -> Nat] /\ \A k \in Keys : ~(accounts[k] > 0)
  BY DEF Init
<1>5. StoresInv
  BY <1>3, <1>4, <1>7, <1>8, <1>9 DEF StoresInv
<1>6. RowsInv
  BY <1>3 DEF Init, RowsInv
<1> QED
  BY <1>2, <1>5, <1>6 DEF IInv

LEMMA NextIInv ==
  ASSUME IInv, Next, BrokerAssumption
  PROVE  IInv'
<1>1. ASSUME NEW p \in Pools, NEW u \in Users, CreatePool(p, u) PROVE IInv'
  BY <1>1, CreatePoolStep
<1>2. ASSUME NEW p \in Pools, NEW a \in Amms, CreateAmm(p, a) PROVE IInv'
  BY <1>2, CreateAmmStep
<1>3. ASSUME NEW p \in Pools, NEW u \in Users \cup {Zero}, NEW v \in Users \cup {Zero}, PoolLog(p, u, v)
      PROVE  IInv'
  BY <1>3, PoolLogStep
<1>4. ASSUME NEW a \in Amms, NEW u \in Users \cup {Zero}, NEW v \in Users \cup {Zero}, AmmLog(a, u, v)
      PROVE  IInv'
  BY <1>4, AmmLogStep
<1>5. CASE EndBlock
  BY <1>5, EndBlockStep
<1> QED
  BY <1>1, <1>2, <1>3, <1>4, <1>5 DEF Next

LEMMA SameIInv ==
  IInv /\ UNCHANGED vars => IInv'
<1> SUFFICES ASSUME IInv, UNCHANGED vars PROVE IInv'
  OBVIOUS
<1>1. UNCHANGED <<logs, history, pools, amms, accounts, counter, db>>
  BY DEF vars, stores
<1>2. ChainInv'
  BY <1>1 DEF IInv, ChainInv, ChainLogs
<1>3. StoresInv'
  BY <1>1 DEF IInv, StoresInv
<1>4. RowsInv'
  BY <1>1 DEF IInv, RowsInv
<1> QED
  BY <1>2, <1>3, <1>4 DEF IInv

(***************************************************************************)
(* Whatever the block boundaries: the event rows are those of the logs     *)
(* that follow the creation of their emitter, numbered together from 1 in  *)
(* chain order, and the account rows are of the accounts that an accepted  *)
(* pool or AMM event names.                                                *)
(***************************************************************************)
THEOREM RowsAlwaysFollowCreations == BrokerSpec => []RowsFollowCreations
<1> USE BrokerAssumption
<1>1. BrokerInit => IInv
  BY InitIInv DEF BrokerInit
<1>2. IInv /\ [BrokerNext]_<<part, vars, creationVars>> => IInv'
  BY NextIInv, SameIInv DEF BrokerNext
<1> QED
  BY <1>1, <1>2, RowsAreThose, PTL DEF BrokerSpec

-----------------------------------------------------------------------------
(***************************************************************************)
(* The metadata of creations within a receipt.                             *)
(***************************************************************************)
Stands(c) == calls[c].fate = "stands"
Standing == {c \in DOMAIN calls : Stands(c)}
OfPool(n) == receipt[n].kind = "pool"

\* The factory's logs are of calls that stand, a pool's in the calls' order
\* and before its AMM's, and every call that stands has logged its pool.
ReceiptInv ==
    /\ calls \in Seq([fate : Creation!Fates, decodable : BOOLEAN])
    /\ receipt \in Seq([kind : {"pool", "amm", "other"}, call : Nat])
    /\ \A n \in DOMAIN receipt :
          IF receipt[n].kind = "other" THEN receipt[n].call = 0 ELSE receipt[n].call \in Standing
    /\ \A m, n \in DOMAIN receipt : OfPool(m) /\ OfPool(n) /\ m < n => receipt[m].call < receipt[n].call
    /\ \A c \in Standing : \E n \in DOMAIN receipt : OfPool(n) /\ receipt[n].call = c
    /\ \A n \in DOMAIN receipt : receipt[n].kind = "amm" =>
          \E m \in 1..n : OfPool(m) /\ receipt[m].call = receipt[n].call
    /\ \A m, n \in DOMAIN receipt :
          receipt[m].kind = "amm" /\ receipt[n].kind = "amm" /\ receipt[m].call = receipt[n].call => m = n

LEMMA ReceiptTypes ==
  ASSUME ReceiptInv, NEW n \in DOMAIN receipt
  PROVE  receipt[n].call \in Nat /\ receipt[n].kind \in {"pool", "amm", "other"}
<1>1. receipt[n] \in [kind : {"pool", "amm", "other"}, call : Nat]
  <2>1. PICK R : R = [kind : {"pool", "amm", "other"}, call : Nat]
    OBVIOUS
  <2>2. receipt \in Seq(R)
    BY <2>1 DEF ReceiptInv
  <2>3. receipt[n] \in R
    BY <2>2
  <2> QED
    BY <2>1, <2>3
<1> QED
  BY <1>1

\* A pool's place among the pools is that of its call among those that stand.
LEMMA PlaceOfCall ==
  ASSUME ReceiptInv, NEW n \in DOMAIN receipt, OfPool(n)
  PROVE  /\ Creation!Place(n) = Cardinality({c \in Standing : c <= receipt[n].call})
         /\ Creation!Place(n) \in Nat \ {0}
<1>1. n \in 1..Len(receipt) /\ Len(receipt) \in Nat /\ DOMAIN receipt = 1..Len(receipt)
  BY DEF ReceiptInv
<1>2. PICK S : S = {m \in 1..n : OfPool(m)}
  OBVIOUS
<1>3. IsFiniteSet(1..n)
  BY <1>1, FS_Interval
<1>4. IsFiniteSet(S) /\ n \in S /\ S \subseteq DOMAIN receipt
  <2>1. S \subseteq 1..n
    BY <1>2
  <2>2. IsFiniteSet(S)
    BY <1>3, <2>1, FS_Subset
  <2> QED
    BY <1>1, <1>2, <2>2
<1>5. PICK f : f = [m \in DOMAIN receipt |-> receipt[m].call]
  OBVIOUS
<1>6. PICK T : T = {f[m] : m \in S}
  OBVIOUS
<1>7. \A i, j \in S : f[i] = f[j] => i = j
  <2> SUFFICES ASSUME NEW i \in S, NEW j \in S, f[i] = f[j], i # j PROVE FALSE
    OBVIOUS
  <2>1. i \in DOMAIN receipt /\ j \in DOMAIN receipt /\ OfPool(i) /\ OfPool(j)
    BY <1>2, <1>4
  <2>2. receipt[i].call = receipt[j].call /\ receipt[i].call \in Nat
    BY <1>5, <2>1, ReceiptTypes
  <2>3. i < j \/ j < i
    BY <1>1, <2>1
  <2> QED
    BY <2>1, <2>2, <2>3 DEF ReceiptInv
<1>8. Cardinality(T) = Cardinality(S)
  BY <1>4, <1>6, <1>7, FiniteImage
<1>9. T = {c \in Standing : c <= receipt[n].call}
  <2>1. ASSUME NEW m \in S PROVE f[m] \in Standing /\ f[m] <= receipt[n].call
    <3>1. m \in DOMAIN receipt /\ OfPool(m) /\ m \in 1..n
      BY <1>2, <1>4
    <3>2. receipt[m].call \in Standing /\ receipt[m].call \in Nat /\ receipt[n].call \in Nat
      <4>1. receipt[m].call \in Standing
        BY <3>1 DEF ReceiptInv, OfPool
      <4> QED
        BY <3>1, <4>1, ReceiptTypes
    <3>3. m = n \/ m < n
      BY <1>1, <3>1
    <3>4. receipt[m].call <= receipt[n].call
      BY <3>1, <3>2, <3>3 DEF ReceiptInv
    <3> QED
      BY <1>5, <3>1, <3>2, <3>4
  <2>2. ASSUME NEW c \in Standing, c <= receipt[n].call PROVE \E m \in S : f[m] = c
    <3>1. PICK m \in DOMAIN receipt : OfPool(m) /\ receipt[m].call = c
      BY DEF ReceiptInv
    <3>2. receipt[m].call \in Nat /\ receipt[n].call \in Nat
      BY ReceiptTypes
    <3>3. ~(n < m)
      BY <2>2, <3>1, <3>2 DEF ReceiptInv
    <3>4. m \in S
      BY <1>1, <1>2, <3>1, <3>3
    <3> QED
      BY <1>5, <3>1, <3>4
  <2> QED
    BY <1>6, <2>1, <2>2
<1>10. Cardinality(S) \in Nat /\ Cardinality(S) # 0
  <2>1. S # {}
    BY <1>4
  <2> QED
    BY <1>4, <2>1, FS_CardinalityType, FS_EmptySet
<1>11. Creation!Place(n) = Cardinality(S)
  BY <1>2 DEF Creation!Place, OfPool, Creation!Cardinality, Cardinality
<1> QED
  BY <1>8, <1>9, <1>10, <1>11

\* What the map finds at a place: nothing, or the call of that rank among
\* those it can decode.
LEMMA MetaOfPlace ==
  ASSUME ReceiptInv, NEW place \in Nat \ {0}
  PROVE  /\ Creation!Metas \subseteq Standing /\ IsFiniteSet(Creation!Metas)
         /\ IF place > Cardinality(Creation!Metas) THEN Creation!MetaAt(place) = 0
            ELSE /\ Creation!MetaAt(place) \in Creation!Metas
                 /\ Cardinality({d \in Creation!Metas : d <= Creation!MetaAt(place)}) = place
         /\ \A c \in Creation!Metas :
               Cardinality({d \in Creation!Metas : d <= c}) = place => Creation!MetaAt(place) = c
<1>1. PICK M : M = Creation!Metas
  OBVIOUS
<1>2. M \subseteq Standing /\ Standing \subseteq DOMAIN calls
  BY <1>1 DEF Creation!Metas, Creation!Succeeded, Standing, Stands
<1>3. DOMAIN calls = 1..Len(calls) /\ Len(calls) \in Nat
  BY DEF ReceiptInv
<1>4. IsFiniteSet(M) /\ M \subseteq Nat
  <2>1. IsFiniteSet(1..Len(calls)) /\ M \subseteq 1..Len(calls)
    BY <1>2, <1>3, FS_Interval
  <2>2. IsFiniteSet(M)
    BY <2>1, FS_Subset
  <2> QED
    BY <1>3, <2>1, <2>2
<1>5. PICK below : below = [c \in M |-> {d \in M : d <= c}]
  OBVIOUS
<1>6. \A i \in M : below[i] \subseteq M /\ i \in below[i]
  BY <1>4, <1>5
<1>7. \A i, j \in M : \/ i = j
                      \/ below[i] \subseteq below[j] /\ j \notin below[i]
                      \/ below[j] \subseteq below[i] /\ i \notin below[j]
  <2> SUFFICES ASSUME NEW i \in M, NEW j \in M, i < j
               PROVE  below[i] \subseteq below[j] /\ j \notin below[i]
    BY <1>4
  <2>1. below[i] = {d \in M : d <= i} /\ below[j] = {d \in M : d <= j}
    BY <1>5
  <2>2. i \in Nat /\ j \in Nat /\ \A d \in M : d \in Nat
    BY <1>4
  <2>3. \A d \in M : d <= i => d <= j
    BY <2>2
  <2>4. ~(j <= i)
    BY <2>2
  <2> QED
    BY <2>1, <2>3, <2>4
<1>8. /\ Cardinality(M) \in Nat
      /\ \A i \in M : Cardinality(below[i]) \in 1..Cardinality(M)
      /\ \A i, j \in M : Cardinality(below[i]) = Cardinality(below[j]) => i = j
      /\ \A k \in 1..Cardinality(M) : \E i \in M : Cardinality(below[i]) = k
  BY <1>4, <1>6, <1>7, Ranking
<1>9. PICK x : x = Creation!MetaAt(place)
  OBVIOUS
<1>10. x = IF place > Cardinality(M) THEN 0
           ELSE CHOOSE c \in M : Cardinality({d \in M : d <= c}) = place
  BY <1>1, <1>9 DEF Creation!MetaAt, Creation!Cardinality, Cardinality
<1>11. ASSUME ~(place > Cardinality(M))
       PROVE  x \in M /\ Cardinality({d \in M : d <= x}) = place
  <2>1. place \in 1..Cardinality(M)
    BY <1>8, <1>11
  <2>2. \E c \in M : Cardinality({d \in M : d <= c}) = place
    BY <1>5, <1>8, <2>1
  <2> QED
    BY <1>10, <1>11, <2>2
<1>12. ASSUME NEW c \in M, Cardinality({d \in M : d <= c}) = place PROVE x = c
  <2>1. ~(place > Cardinality(M))
    BY <1>5, <1>8, <1>12
  <2>2. Cardinality(below[x]) = Cardinality(below[c]) /\ x \in M
    BY <1>5, <1>11, <1>12, <2>1
  <2> QED
    BY <1>8, <2>2
<1>13. place > Cardinality(M) => x = 0
  BY <1>10
<1> QED
  BY <1>1, <1>2, <1>4, <1>9, <1>11, <1>12, <1>13

\* A pool's own call, or, after a call that cannot be decoded, none or a
\* later one.
LEMMA MetaOfPool ==
  ASSUME ReceiptInv, NEW n \in DOMAIN receipt, OfPool(n)
  PROVE  LET x == Creation!MetaOf(n)
             own == receipt[n].call
         IN  /\ x # 0 => x \in Standing
             /\ \/ x = own
                \/ (\E c \in 1..own : Creation!Undecodable(c)) /\ (x = 0 \/ x > own)
<1>1. PICK place \in Nat \ {0} : place = Creation!Place(n)
  BY PlaceOfCall
<1>2. PICK own \in Nat : own = receipt[n].call
  BY ReceiptTypes
<1>3. PICK x : x = Creation!MetaAt(place)
  OBVIOUS
<1>4. Creation!MetaOf(n) = x
  BY <1>1, <1>3 DEF Creation!MetaOf
<1>5. PICK M : M = Creation!Metas
  OBVIOUS
<1>6. /\ M \subseteq Standing /\ IsFiniteSet(M)
      /\ place > Cardinality(M) => x = 0
      /\ ~(place > Cardinality(M)) => x \in M /\ Cardinality({d \in M : d <= x}) = place
      /\ \A c \in M : Cardinality({d \in M : d <= c}) = place => x = c
  BY <1>3, <1>5, MetaOfPlace
<1>7. DOMAIN calls = 1..Len(calls) /\ Len(calls) \in Nat
  BY DEF ReceiptInv
<1>8. Standing \subseteq 1..Len(calls)
  BY <1>7 DEF Standing
<1>9. own \in Standing
  BY <1>2 DEF ReceiptInv, OfPool
<1>10. PICK S : S = {c \in Standing : c <= own}
  OBVIOUS
<1>11. place = Cardinality(S)
  BY <1>1, <1>2, <1>10, PlaceOfCall
<1>12. IsFiniteSet(S)
  <2>1. S \subseteq 1..Len(calls)
    BY <1>8, <1>10
  <2>2. IsFiniteSet(1..Len(calls))
    BY <1>7, FS_Interval
  <2> QED
    BY <2>1, <2>2, FS_Subset
<1>13. PICK D : D = {d \in M : d <= own}
  OBVIOUS
<1>14. D \subseteq S
  BY <1>6, <1>10, <1>13
<1>15. \A c \in S : c \in 1..own
  BY <1>2, <1>8, <1>10
<1>16. CASE D = S
  <2>1. own \in M
    BY <1>2, <1>9, <1>10, <1>13, <1>16
  <2>2. Cardinality({d \in M : d <= own}) = place
    BY <1>11, <1>13, <1>16
  <2>3. x = own
    BY <1>6, <2>1, <2>2
  <2> QED
    BY <1>2, <1>4, <1>9, <2>3
<1>17. CASE D # S
  <2>1. PICK u \in S : u \notin D
    BY <1>14, <1>17
  <2>2. u \in Standing /\ u \notin M /\ u \in 1..own
    BY <1>10, <1>13, <1>15, <2>1
  <2>3. Creation!Undecodable(u)
    BY <1>5, <2>2 DEF Creation!Undecodable, Creation!Metas, Creation!Succeeded, Standing, Stands
  <2>4. IsFiniteSet(D) /\ Cardinality(D) < place
    <3>1. IsFiniteSet(D) /\ Cardinality(D) <= Cardinality(S) /\ Cardinality(D) # Cardinality(S)
      BY <1>12, <1>14, <1>17, FS_Subset
    <3>2. Cardinality(D) \in Nat /\ Cardinality(S) \in Nat
      BY <1>12, <3>1, FS_CardinalityType
    <3> QED
      BY <1>11, <3>1, <3>2
  <2>5. ASSUME x # 0 PROVE x \in Standing /\ x > own
    <3>1. x \in M /\ Cardinality({d \in M : d <= x}) = place
      BY <1>6, <2>5
    <3>2. x \in Standing /\ x \in Nat /\ M \subseteq Nat
      BY <1>6, <1>7, <1>8, <3>1
    <3>3. ASSUME ~(x > own) PROVE FALSE
      <4>1. PICK X : X = {d \in M : d <= x}
        OBVIOUS
      <4>2. X \subseteq D
        <5> SUFFICES ASSUME NEW d \in X PROVE d \in D
          OBVIOUS
        <5>1. d \in M /\ d <= x /\ d \in Nat
          BY <3>2, <4>1
        <5>2. d <= own
          BY <1>2, <3>2, <3>3, <5>1
        <5> QED
          BY <1>13, <5>1, <5>2
      <4>3. Cardinality(X) <= Cardinality(D) /\ Cardinality(X) = place
        BY <2>4, <3>1, <4>1, <4>2, FS_Subset
      <4>4. Cardinality(D) \in Nat
        BY <2>4, FS_CardinalityType
      <4> QED
        BY <2>4, <4>3, <4>4
    <3> QED
      BY <3>2, <3>3
  <2> QED
    BY <1>2, <1>4, <2>2, <2>3, <2>5
<1> QED
  BY <1>16, <1>17

\* No two pools share metadata.
LEMMA MetasDiffer ==
  ASSUME ReceiptInv, NEW m \in DOMAIN receipt, NEW n \in DOMAIN receipt, OfPool(m), OfPool(n),
         m # n, Creation!MetaOf(n) # 0
  PROVE  Creation!MetaOf(m) # Creation!MetaOf(n)
<1>1. PICK p \in Nat \ {0} : p = Creation!Place(m)
  BY PlaceOfCall
<1>2. PICK q \in Nat \ {0} : q = Creation!Place(n)
  BY PlaceOfCall
<1>3. p # q
  <2>1. m \in Nat /\ n \in Nat
    BY DEF ReceiptInv
  <2>2. PICK S : S = {i \in 1..m : OfPool(i)}
    OBVIOUS
  <2>3. PICK T : T = {i \in 1..n : OfPool(i)}
    OBVIOUS
  <2>4. Cardinality(S) = p /\ Cardinality(T) = q
    BY <1>1, <1>2, <2>2, <2>3 DEF Creation!Place, OfPool, Creation!Cardinality, Cardinality
  <2>5. IsFiniteSet(S) /\ IsFiniteSet(T)
    <3>1. IsFiniteSet(1..m) /\ IsFiniteSet(1..n)
      BY <2>1, FS_Interval
    <3>2. S \subseteq 1..m /\ T \subseteq 1..n
      BY <2>2, <2>3
    <3> QED
      BY <3>1, <3>2, FS_Subset
  <2>6. m < n => S \subseteq T /\ n \in T /\ n \notin S
    BY <2>1, <2>2, <2>3, DOMAIN receipt = 1..Len(receipt) DEF ReceiptInv
  <2>7. n < m => T \subseteq S /\ m \in S /\ m \notin T
    BY <2>1, <2>2, <2>3, DOMAIN receipt = 1..Len(receipt) DEF ReceiptInv
  <2>8. S # T /\ (S \subseteq T \/ T \subseteq S)
    BY <2>1, <2>6, <2>7
  <2> QED
    BY <2>4, <2>5, <2>8, FS_Subset
<1>4. PICK x : x = Creation!MetaAt(q)
  OBVIOUS
<1>5. x # 0
  BY <1>2, <1>4 DEF Creation!MetaOf
<1>6. Cardinality({d \in Creation!Metas : d <= x}) = q
  BY <1>4, <1>5, MetaOfPlace
<1>7. Creation!MetaAt(p) = x => Cardinality({d \in Creation!Metas : d <= x}) = p
  BY <1>5, MetaOfPlace
<1> QED
  BY <1>1, <1>2, <1>3, <1>4, <1>6, <1>7 DEF Creation!MetaOf

\* The map's rows.
DescribedInv ==
    \/ creation = <<>>
    \/ DOMAIN creation = DOMAIN receipt /\ CreationsDescribed

LEMMA PoolOfAmmLog ==
  ASSUME ReceiptInv, NEW n \in DOMAIN receipt, receipt[n].kind = "amm"
  PROVE  \E m \in DOMAIN receipt : /\ OfPool(m) /\ receipt[m].call = receipt[n].call
                                   /\ Creation!PriceSource(n) = Creation!MetaOf(m)
<1>1. PICK m : m = CHOOSE i \in 1..n : receipt[i].kind = "pool" /\ receipt[i].call = receipt[n].call
  OBVIOUS
<1>2. \E i \in 1..n : receipt[i].kind = "pool" /\ receipt[i].call = receipt[n].call
  BY DEF ReceiptInv, OfPool
<1>3. m \in 1..n /\ receipt[m].kind = "pool" /\ receipt[m].call = receipt[n].call
  BY <1>1, <1>2
<1>4. m \in DOMAIN receipt
  <2>1. n \in 1..Len(receipt) /\ Len(receipt) \in Nat /\ DOMAIN receipt = 1..Len(receipt)
    BY DEF ReceiptInv
  <2> QED
    BY <1>3, <2>1
<1>5. Creation!PriceSource(n) = Creation!MetaOf(m)
  BY <1>1 DEF Creation!PriceSource
<1> QED
  BY <1>3, <1>4, <1>5 DEF OfPool

\* What the map gives the n-th log.
Given(n) ==
    IF receipt[n].kind = "pool" THEN Creation!MetaOf(n)
    ELSE IF receipt[n].kind = "amm" THEN Creation!PriceSource(n) ELSE 0

\* It is the metadata that the pool of the log's call is given.
LEMMA GivenOfPool ==
  ASSUME ReceiptInv, NEW n \in DOMAIN receipt, receipt[n].kind # "other"
  PROVE  \E p \in DOMAIN receipt : /\ OfPool(p) /\ receipt[p].call = receipt[n].call
                                   /\ Given(n) = Creation!MetaOf(p)
<1>1. CASE receipt[n].kind = "pool"
  BY <1>1 DEF Given, OfPool
<1>2. CASE receipt[n].kind = "amm"
  BY <1>2, PoolOfAmmLog DEF Given
<1> QED
  BY <1>1, <1>2, ReceiptTypes

LEMMA GivenDescribes ==
  ASSUME ReceiptInv, NEW n \in DOMAIN receipt
  PROVE  /\ Given(n) # 0 => calls[Given(n)].fate = "stands"
         /\ \A m \in DOMAIN receipt :
               m # n /\ receipt[m].kind = receipt[n].kind /\ Given(n) # 0 => Given(m) # Given(n)
         /\ \/ Given(n) = receipt[n].call
            \/ /\ \E c \in 1..receipt[n].call : Creation!Undecodable(c)
               /\ Given(n) = 0 \/ Given(n) > receipt[n].call
<1>1. CASE receipt[n].kind = "other"
  BY <1>1 DEF Given, ReceiptInv
<1>2. CASE receipt[n].kind # "other"
  <2>1. PICK p \in DOMAIN receipt : /\ OfPool(p) /\ receipt[p].call = receipt[n].call
                                    /\ Given(n) = Creation!MetaOf(p)
    BY <1>2, GivenOfPool
  <2>2. Given(n) # 0 => Given(n) \in Standing
    BY <2>1, MetaOfPool
  <2>3. \/ Given(n) = receipt[n].call
        \/ /\ \E c \in 1..receipt[n].call : Creation!Undecodable(c)
           /\ Given(n) = 0 \/ Given(n) > receipt[n].call
    BY <2>1, MetaOfPool
  <2>4. ASSUME NEW m \in DOMAIN receipt, m # n, receipt[m].kind = receipt[n].kind, Given(n) # 0
        PROVE  Given(m) # Given(n)
    <3>1. PICK q \in DOMAIN receipt : /\ OfPool(q) /\ receipt[q].call = receipt[m].call
                                      /\ Given(m) = Creation!MetaOf(q)
      BY <1>2, <2>4, GivenOfPool
    <3>2. p # q
      <4>1. CASE receipt[n].kind = "amm"
        BY <2>1, <2>4, <3>1, <4>1 DEF ReceiptInv
      <4>2. CASE receipt[n].kind = "pool"
        <5>1. m < n \/ n < m
          <6>1. DOMAIN receipt = 1..Len(receipt)
            BY DEF ReceiptInv
          <6> QED
            BY <2>4, <6>1
        <5>2. receipt[m].call < receipt[n].call \/ receipt[n].call < receipt[m].call
          BY <2>4, <4>2, <5>1 DEF ReceiptInv, OfPool
        <5>3. receipt[m].call \in Nat /\ receipt[n].call \in Nat
          BY ReceiptTypes
        <5> QED
          BY <2>1, <3>1, <5>2, <5>3
      <4> QED
        BY <1>2, <4>1, <4>2, ReceiptTypes
    <3> QED
      BY <2>1, <2>4, <3>1, <3>2, MetasDiffer
  <2> QED
    BY <2>2, <2>3, <2>4 DEF Standing, Stands
<1> QED
  BY <1>1, <1>2

LEMMA MapCreationsStep ==
  ASSUME ReceiptInv, Creation!MapCreations
  PROVE  ReceiptInv' /\ DescribedInv'
<1>1. UNCHANGED <<calls, receipt>>
  BY DEF Creation!MapCreations
<1>2. ReceiptInv'
  BY <1>1 DEF ReceiptInv, Standing, Stands, OfPool
<1>3. DOMAIN creation' = DOMAIN receipt /\ \A n \in DOMAIN receipt : creation'[n] = Given(n)
  <2>1. creation' = [n \in DOMAIN receipt |->
          CASE receipt[n].kind = "pool"  -> Creation!MetaOf(n)
            [] receipt[n].kind = "amm"   -> Creation!PriceSource(n)
            [] receipt[n].kind = "other" -> 0]
    BY DEF Creation!MapCreations
  <2>2. ASSUME NEW n \in DOMAIN receipt PROVE creation'[n] = Given(n)
    BY <2>1, ReceiptTypes DEF Given
  <2> QED
    BY <2>1, <2>2
<1>4. \A c : Creation!Undecodable(c)' <=> Creation!Undecodable(c)
  BY <1>1 DEF Creation!Undecodable
<1>5. CreationsDescribed'
  BY <1>1, <1>3, <1>4, GivenDescribes DEF CreationsDescribed, Creation!CreationsDescribed
<1> QED
  BY <1>1, <1>2, <1>3, <1>5 DEF DescribedInv

LEMMA OtherLogStep ==
  ASSUME ReceiptInv, Creation!OtherLog
  PROVE  ReceiptInv' /\ DescribedInv'
<1>1. calls' = calls /\ creation' = <<>> /\ receipt' = Append(receipt, [kind |-> "other", call |-> 0])
  BY DEF Creation!OtherLog
<1>2. PICK r : r = receipt'
  OBVIOUS
<1>3. PICK l \in Nat : l = Len(receipt)
  BY DEF ReceiptInv
<1>4. /\ receipt' \in Seq([kind : {"pool", "amm", "other"}, call : Nat])
      /\ DOMAIN receipt = 1..l /\ DOMAIN r = 1..(l + 1)
      /\ \A n \in 1..l : r[n] = receipt[n]
      /\ r[l + 1] = [kind |-> "other", call |-> 0]
  <2>1. PICK R : R = [kind : {"pool", "amm", "other"}, call : Nat]
    OBVIOUS
  <2>2. receipt \in Seq(R) /\ [kind |-> "other", call |-> 0] \in R
    BY <2>1 DEF ReceiptInv
  <2> QED
    BY <1>1, <1>2, <1>3, <2>1, <2>2
<1>5. \A n \in DOMAIN r : n \in 1..l \/ n = l + 1
  BY <1>3, <1>4
<1>6. r[l + 1].kind = "other" /\ r[l + 1].call = 0
  BY <1>4
<1>7. Standing' = Standing
  BY <1>1 DEF Standing, Stands
<1>8. \A n \in DOMAIN r : IF r[n].kind = "other" THEN r[n].call = 0 ELSE r[n].call \in Standing
  <2>1. \A n \in DOMAIN receipt :
          IF receipt[n].kind = "other" THEN receipt[n].call = 0 ELSE receipt[n].call \in Standing
    BY DEF ReceiptInv
  <2> QED
    BY <1>4, <1>5, <1>6, <2>1
<1>9. \A m, n \in DOMAIN r : r[m].kind = "pool" /\ r[n].kind = "pool" /\ m < n => r[m].call < r[n].call
  <2>1. \A m, n \in DOMAIN receipt :
          receipt[m].kind = "pool" /\ receipt[n].kind = "pool" /\ m < n => receipt[m].call < receipt[n].call
    BY DEF ReceiptInv, OfPool
  <2>2. \A n \in DOMAIN r : r[n].kind = "pool" => n \in 1..l
    BY <1>5, <1>6
  <2> QED
    BY <1>4, <2>1, <2>2
<1>10. ASSUME NEW c \in Standing PROVE \E n \in DOMAIN r : r[n].kind = "pool" /\ r[n].call = c
  <2>1. PICK n \in DOMAIN receipt : receipt[n].kind = "pool" /\ receipt[n].call = c
    BY DEF ReceiptInv, OfPool
  <2>2. n \in 1..l /\ n \in DOMAIN r
    BY <1>3, <1>4, <2>1
  <2> QED
    BY <1>4, <2>1, <2>2
<1>11. \A n \in DOMAIN r : r[n].kind = "amm" => \E m \in 1..n : r[m].kind = "pool" /\ r[m].call = r[n].call
  <2> SUFFICES ASSUME NEW n \in DOMAIN r, r[n].kind = "amm"
               PROVE  \E m \in 1..n : r[m].kind = "pool" /\ r[m].call = r[n].call
    OBVIOUS
  <2>1. n \in 1..l
    BY <1>5, <1>6
  <2>2. PICK m \in 1..n : receipt[m].kind = "pool" /\ receipt[m].call = receipt[n].call
    BY <1>4, <2>1 DEF ReceiptInv, OfPool
  <2>3. m \in 1..l
    BY <1>3, <2>1, <2>2
  <2> QED
    BY <1>4, <2>1, <2>2, <2>3
<1>12. \A m, n \in DOMAIN r : r[m].kind = "amm" /\ r[n].kind = "amm" /\ r[m].call = r[n].call => m = n
  <2>1. \A m, n \in 1..l : r[m].kind = "amm" /\ r[n].kind = "amm" /\ r[m].call = r[n].call => m = n
    <3>1. \A m, n \in DOMAIN receipt :
            receipt[m].kind = "amm" /\ receipt[n].kind = "amm" /\ receipt[m].call = receipt[n].call => m = n
      BY DEF ReceiptInv
    <3> QED
      BY <1>4, <3>1
  <2>2. \A n \in DOMAIN r : r[n].kind = "amm" => n \in 1..l
    BY <1>5, <1>6
  <2> QED
    BY <2>1, <2>2
<1>13. ReceiptInv'
  BY <1>1, <1>2, <1>4, <1>7, <1>8, <1>9, <1>10, <1>11, <1>12 DEF ReceiptInv, OfPool
<1> QED
  BY <1>1, <1>13 DEF DescribedInv

LEMMA CreatePoolCallStep ==
  ASSUME ReceiptInv, NEW fate \in Creation!Fates, NEW decodable \in BOOLEAN, NEW amm \in BOOLEAN,
         Creation!CreatePool(fate, decodable, amm)
  PROVE  ReceiptInv' /\ DescribedInv'
<1>1. PICK k \in Nat : k = Len(calls) + 1
  BY DEF ReceiptInv
<1>2. PICK p : p = [kind |-> "pool", call |-> k]
  OBVIOUS
<1>3. PICK a : a = [kind |-> "amm", call |-> k]
  OBVIOUS
<1>4. /\ creation' = <<>>
      /\ calls' = Append(calls, [fate |-> fate, decodable |-> decodable])
      /\ receipt' = receipt \o (IF fate # "stands" THEN <<>> ELSE IF amm THEN <<p, a>> ELSE <<p>>)
  BY <1>1, <1>2, <1>3 DEF Creation!CreatePool
<1>5. PICK r : r = receipt'
  OBVIOUS
<1>6. PICK l \in Nat : l = Len(receipt)
  BY DEF ReceiptInv
<1>7. PICK e \in {0, 1, 2} : e = IF fate # "stands" THEN 0 ELSE IF amm THEN 2 ELSE 1
  OBVIOUS
<1>8. /\ receipt' \in Seq([kind : {"pool", "amm", "other"}, call : Nat])
      /\ DOMAIN receipt = 1..l /\ DOMAIN r = 1..(l + e)
      /\ \A n \in 1..l : r[n] = receipt[n]
      /\ e > 0 => r[l + 1] = p
      /\ e = 2 => r[l + 2] = a
  <2>1. PICK R : R = [kind : {"pool", "amm", "other"}, call : Nat]
    OBVIOUS
  <2>2. receipt \in Seq(R) /\ p \in R /\ a \in R
    BY <1>1, <1>2, <1>3, <2>1 DEF ReceiptInv
  <2>3. CASE fate # "stands"
    BY <1>4, <1>5, <1>6, <1>7, <2>1, <2>2, <2>3
  <2>4. CASE fate = "stands" /\ amm
    BY <1>4, <1>5, <1>6, <1>7, <2>1, <2>2, <2>4
  <2>5. CASE fate = "stands" /\ ~amm
    BY <1>4, <1>5, <1>6, <1>7, <2>1, <2>2, <2>5
  <2> QED
    BY <2>3, <2>4, <2>5
<1>9. /\ p.kind = "pool" /\ p.call = k /\ a.kind = "amm" /\ a.call = k
      /\ \A n \in DOMAIN r : n \in 1..l \/ (e > 0 /\ n = l + 1) \/ (e = 2 /\ n = l + 2)
  BY <1>2, <1>3, <1>6, <1>7, <1>8
<1>10. PICK old : old = Standing
  OBVIOUS
<1>11. /\ old \subseteq 1..(k - 1)
       /\ Standing' = IF e > 0 THEN old \cup {k} ELSE old
       /\ calls' \in Seq([fate : Creation!Fates, decodable : BOOLEAN])
  <2>1. PICK R : R = [fate : Creation!Fates, decodable : BOOLEAN]
    OBVIOUS
  <2>2. PICK call : call = [fate |-> fate, decodable |-> decodable]
    OBVIOUS
  <2>3. calls \in Seq(R) /\ call \in R /\ call.fate = fate
    BY <2>1, <2>2 DEF ReceiptInv
  <2>4. calls' \in Seq(R) /\ DOMAIN calls = 1..(k - 1) /\ DOMAIN calls' = 1..k
    BY <1>1, <1>4, <2>2, <2>3
  <2>5. calls'[k] = call /\ \A c \in 1..(k - 1) : calls'[c] = calls[c]
    BY <1>1, <1>4, <2>2, <2>3
  <2>6. \A c \in 1..k : c \in 1..(k - 1) \/ c = k
    BY <1>1
  <2>7. old = {c \in 1..(k - 1) : calls[c].fate = "stands"}
    BY <1>10, <2>4 DEF Standing, Stands
  <2>8. Standing' = {c \in 1..k : calls'[c].fate = "stands"}
    BY <2>4 DEF Standing, Stands
  <2>9. k \in 1..k /\ k \notin 1..(k - 1) /\ \A c \in 1..(k - 1) : c \in 1..k
    BY <1>1, <2>4
  <2>10. e > 0 <=> fate = "stands"
    BY <1>7
  <2> QED
    BY <2>1, <2>3, <2>4, <2>5, <2>6, <2>7, <2>8, <2>9, <2>10
<1>12. PICK new : new = Standing'
  OBVIOUS
<1>13. \A n \in 1..l : IF receipt[n].kind = "other" THEN receipt[n].call = 0 ELSE receipt[n].call \in 1..(k - 1)
  BY <1>8, <1>10, <1>11 DEF ReceiptInv
<1>14. \A n \in DOMAIN r : IF r[n].kind = "other" THEN r[n].call = 0 ELSE r[n].call \in new
  <2> SUFFICES ASSUME NEW n \in DOMAIN r
               PROVE  IF r[n].kind = "other" THEN r[n].call = 0 ELSE r[n].call \in new
    OBVIOUS
  <2>1. CASE n \in 1..l
    BY <1>8, <1>10, <1>11, <1>12, <2>1 DEF ReceiptInv
  <2>2. CASE e > 0 /\ n = l + 1
    BY <1>8, <1>9, <1>11, <1>12, <2>2
  <2>3. CASE e = 2 /\ n = l + 2
    BY <1>8, <1>9, <1>11, <1>12, <2>3
  <2> QED
    BY <1>9, <2>1, <2>2, <2>3
<1>15. \A m, n \in DOMAIN r : r[m].kind = "pool" /\ r[n].kind = "pool" /\ m < n => r[m].call < r[n].call
  <2> SUFFICES ASSUME NEW m \in DOMAIN r, NEW n \in DOMAIN r, r[m].kind = "pool", r[n].kind = "pool", m < n
               PROVE  r[m].call < r[n].call
    OBVIOUS
  <2>1. m \in 1..l
    BY <1>6, <1>7, <1>8, <1>9
  <2>2. CASE n \in 1..l
    BY <1>8, <2>1, <2>2 DEF ReceiptInv, OfPool
  <2>3. CASE e > 0 /\ n = l + 1
    <3>1. r[m].call \in 1..(k - 1) /\ r[n].call = k
      BY <1>8, <1>9, <1>13, <2>1, <2>3
    <3> QED
      BY <1>1, <3>1
  <2> QED
    BY <1>8, <1>9, <2>2, <2>3
<1>16. \A c \in new : \E n \in DOMAIN r : r[n].kind = "pool" /\ r[n].call = c
  <2>1. \A c \in old : \E n \in DOMAIN r : r[n].kind = "pool" /\ r[n].call = c
    <3> SUFFICES ASSUME NEW c \in old PROVE \E n \in DOMAIN r : r[n].kind = "pool" /\ r[n].call = c
      OBVIOUS
    <3>1. PICK n \in DOMAIN receipt : receipt[n].kind = "pool" /\ receipt[n].call = c
      BY <1>10 DEF ReceiptInv, OfPool
    <3>2. n \in 1..l /\ n \in DOMAIN r
      BY <1>6, <1>7, <1>8, <3>1
    <3> QED
      BY <1>8, <3>1, <3>2
  <2>2. e > 0 => l + 1 \in DOMAIN r /\ r[l + 1].kind = "pool" /\ r[l + 1].call = k
    BY <1>6, <1>7, <1>8, <1>9
  <2> QED
    BY <1>11, <1>12, <2>1, <2>2
<1>17. \A n \in DOMAIN r : r[n].kind = "amm" => \E m \in 1..n : r[m].kind = "pool" /\ r[m].call = r[n].call
  <2> SUFFICES ASSUME NEW n \in DOMAIN r, r[n].kind = "amm"
               PROVE  \E m \in 1..n : r[m].kind = "pool" /\ r[m].call = r[n].call
    OBVIOUS
  <2>1. CASE n \in 1..l
    <3>1. PICK m \in 1..n : receipt[m].kind = "pool" /\ receipt[m].call = receipt[n].call
      BY <1>8, <2>1 DEF ReceiptInv, OfPool
    <3>2. m \in 1..l
      BY <1>6, <2>1, <3>1
    <3> QED
      BY <1>8, <2>1, <3>1, <3>2
  <2>2. CASE e = 2 /\ n = l + 2
    <3>1. l + 1 \in 1..n /\ e > 0
      BY <1>6, <2>2
    <3> QED
      BY <1>8, <1>9, <2>2, <3>1
  <2> QED
    BY <1>8, <1>9, <2>1, <2>2
<1>18. \A m, n \in DOMAIN r : r[m].kind = "amm" /\ r[n].kind = "amm" /\ r[m].call = r[n].call => m = n
  <2>1. \A n \in DOMAIN r : r[n].kind = "amm" /\ n \notin 1..l => n = l + 2 /\ r[n].call = k
    BY <1>8, <1>9
  <2>2. \A n \in 1..l : r[n].kind = "amm" => r[n].call # k
    BY <1>1, <1>8, <1>13
  <2>3. \A m, n \in 1..l : r[m].kind = "amm" /\ r[n].kind = "amm" /\ r[m].call = r[n].call => m = n
    <3>1. \A m, n \in DOMAIN receipt :
            receipt[m].kind = "amm" /\ receipt[n].kind = "amm" /\ receipt[m].call = receipt[n].call => m = n
      BY DEF ReceiptInv
    <3> QED
      BY <1>8, <3>1
  <2> QED
    BY <2>1, <2>2, <2>3
<1>19. ReceiptInv'
  <2>1. receipt' \in Seq([kind : {"pool", "amm", "other"}, call : Nat])
    BY <1>8
  <2>2. calls' \in Seq([fate : Creation!Fates, decodable : BOOLEAN])
    BY <1>11
  <2> QED
    BY <1>5, <1>12, <1>14, <1>15, <1>16, <1>17, <1>18, <2>1, <2>2 DEF ReceiptInv, OfPool
<1> QED
  BY <1>4, <1>19 DEF DescribedInv

(***************************************************************************)
(* For every transaction: no creation gets the metadata of a call that did *)
(* not stand, no two share one, and each gets that of its own call up to   *)
(* the first call that cannot be decoded.                                  *)
(***************************************************************************)
THEOREM CreationsAlwaysDescribed == BrokerSpec => []CreationsDescribed
<1>1. BrokerInit => ReceiptInv /\ DescribedInv
  <2> SUFFICES ASSUME BrokerInit PROVE ReceiptInv /\ DescribedInv
    OBVIOUS
  <2>1. calls = <<>> /\ receipt = <<>> /\ creation = <<>>
    BY DEF BrokerInit, Creation!Init
  <2>2. Standing = {}
    BY <2>1 DEF Standing
  <2> QED
    BY <2>1, <2>2 DEF ReceiptInv, DescribedInv
<1>2. ReceiptInv /\ DescribedInv /\ [BrokerNext]_<<part, vars, creationVars>> => ReceiptInv' /\ DescribedInv'
  <2> SUFFICES ASSUME ReceiptInv, DescribedInv, [BrokerNext]_<<part, vars, creationVars>>
               PROVE  ReceiptInv' /\ DescribedInv'
    OBVIOUS
  <2>1. ASSUME UNCHANGED creationVars PROVE ReceiptInv' /\ DescribedInv'
    <3>1. UNCHANGED <<calls, receipt, creation>>
      BY <2>1 DEF creationVars
    <3>2. ReceiptInv'
      BY <3>1 DEF ReceiptInv, Standing, Stands, OfPool
    <3>3. CreationsDescribed' <=> CreationsDescribed
      BY <3>1 DEF CreationsDescribed, Creation!CreationsDescribed, Creation!Undecodable
    <3> QED
      BY <3>1, <3>2, <3>3 DEF DescribedInv
  <2>2. ASSUME Creation!Next PROVE ReceiptInv' /\ DescribedInv'
    BY <2>2, CreatePoolCallStep, OtherLogStep, MapCreationsStep DEF Creation!Next
  <2> QED
    BY <2>1, <2>2 DEF BrokerNext
<1>3. DescribedInv => CreationsDescribed
  <2>1. creation = <<>> => DOMAIN creation = {}
    OBVIOUS
  <2> QED
    BY <2>1 DEF DescribedInv, CreationsDescribed, Creation!CreationsDescribed
<1> QED
  BY <1>1, <1>2, <1>3, PTL DEF BrokerSpec
=============================================================================

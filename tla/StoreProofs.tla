----------------------------- MODULE StoreProofs ------------------------------
(***************************************************************************)
(* Proofs about the stores that number what the tables hold: the account   *)
(* stores of AccountRegistry, for every set of accounts and any number of  *)
(* blocks and logs, then the handoff of BackfillHandoff, whose indexes must *)
(* carry on where the tables stopped, on a chain of any length and for any *)
(* number of faults; the releases of PackageRelease, which must leave      *)
(* those stores and what was served as they are; and the first packages    *)
(* of FirstPackages, which those releases start from.                      *)
(***************************************************************************)
EXTENDS AccountRegistry, BackfillHandoff, PackageRelease, FirstPackages,
        FiniteSetTheorems, WellFoundedInduction, TLAPS

-----------------------------------------------------------------------------
(***************************************************************************)
(* The inductive invariant: the registrations and the rows so far are of   *)
(* earlier blocks, so that one of this block is later than what its store  *)
(* skips; and the writer's counts are the counters'.                       *)
(***************************************************************************)
Earlier(store) == \A a \in Accounts : store[a] < block
CountsAgree == db.users_count = userIndex /\ db.total_users = walnutIndex

RegistryInv ==
    /\ RegistryTypeOK
    /\ Earlier(pre) /\ Earlier(walnut) /\ Earlier(token) /\ Earlier(db.joined_at)
    /\ CountedTwiceOnlyBackwards
    /\ JoinedBeforeRegistered
    /\ CountsAgree
    /\ IndexesIdentify

-----------------------------------------------------------------------------
(***************************************************************************)
(* What a block's candidates are: their place in the block determines      *)
(* them, so that either order of them is total.                            *)
(***************************************************************************)
Priority(priority) == \E names \in SUBSET Sources : priority \in [names -> Nat]

\* The three rules' priorities are functions on the sources.
LEMMA Priorities == Priority(PrePriority) /\ Priority(WalnutPriority) /\ Priority(TokenPriority)
<1>1. PrePriority \in [DOMAIN PrePriority -> Nat] /\ DOMAIN PrePriority \subseteq Sources
  BY DEF PrePriority, Sources
<1>2. WalnutPriority \in [DOMAIN WalnutPriority -> Nat] /\ DOMAIN WalnutPriority \subseteq Sources
  BY DEF WalnutPriority, Sources
<1>3. TokenPriority \in [DOMAIN TokenPriority -> Nat] /\ DOMAIN TokenPriority \subseteq Sources
  BY DEF TokenPriority, Sources
<1> QED
  BY <1>1, <1>2, <1>3 DEF Priority

\* What a candidate is made of.
LEMMA CandidateFields ==
    ASSUME RegistryTypeOK, NEW priority, Priority(priority), NEW c \in Candidates(priority)
    PROVE  /\ c.ordinal \in Nat /\ c.ordinal \in 1..Len(logs) /\ c.position \in 1..2
           /\ c.rank \in Nat /\ c.account \in Accounts
           /\ c = [rank |-> priority[logs[c.ordinal].source], ordinal |-> c.ordinal,
                   position |-> c.position,
                   account |-> IF c.position = 1 THEN logs[c.ordinal].first
                                                 ELSE logs[c.ordinal].second]
<1>1. PICK n \in {m \in DOMAIN logs : logs[m].source \in DOMAIN priority}, i \in 1..2 :
          c = [rank |-> priority[logs[n].source], ordinal |-> n, position |-> i,
               account |-> IF i = 1 THEN logs[n].first ELSE logs[n].second]
  BY DEF Candidates
<1>2. n \in 1..Len(logs) /\ logs[n] \in Logs
  BY DEF RegistryTypeOK
<1>3. priority[logs[n].source] \in Nat
  BY DEF Priority
<1>4. logs[n].first \in Accounts /\ logs[n].second \in Accounts
  BY <1>2 DEF Logs
<1> QED
  BY <1>1, <1>2, <1>3, <1>4

\* The place of an account in a log tells the log and the position.
LEMMA PlaceIsUnique ==
    ASSUME NEW m \in Nat, NEW n \in Nat, NEW i \in 1..2, NEW j \in 1..2, 2 * m + i = 2 * n + j
    PROVE  m = n /\ i = j
<1>1. CASE i = 1
  BY <1>1
<1>2. CASE i = 2
  BY <1>2
<1> QED
  BY <1>1, <1>2

\* There is one candidate for each place.
LEMMA PlaceIsCandidate ==
    ASSUME RegistryTypeOK, NEW priority, Priority(priority),
           NEW c \in Candidates(priority), NEW d \in Candidates(priority),
           c.ordinal = d.ordinal, c.position = d.position
    PROVE  c = d
<1> DEFINE At(n, i) == [rank |-> priority[logs[n].source], ordinal |-> n, position |-> i,
                        account |-> IF i = 1 THEN logs[n].first ELSE logs[n].second]
<1>1. c = At(c.ordinal, c.position) /\ d = At(d.ordinal, d.position)
  BY CandidateFields
<1> HIDE DEF At
<1> QED
  BY <1>1

\* A block has finitely many candidates.
LEMMA CandidatesFinite ==
    ASSUME RegistryTypeOK, NEW priority, Priority(priority)
    PROVE  IsFiniteSet(Candidates(priority))
<1> DEFINE Key == [c \in Candidates(priority) |-> 2 * c.ordinal + c.position]
           Top == 2 * Len(logs) + 2
<1>1. Len(logs) \in Nat
  BY DEF RegistryTypeOK
<1>2. \A c \in Candidates(priority) : Key[c] \in 1..Top
  BY <1>1, CandidateFields
<1>3. ASSUME NEW c \in Candidates(priority), NEW d \in Candidates(priority), Key[c] = Key[d]
      PROVE  c = d
  <2>1. /\ c.ordinal \in Nat /\ d.ordinal \in Nat
        /\ c.position \in 1..2 /\ d.position \in 1..2
    BY <1>1, CandidateFields
  <2>2. 2 * c.ordinal + c.position = 2 * d.ordinal + d.position
    BY <1>3
  <2>3. c.ordinal = d.ordinal /\ c.position = d.position
    BY <2>1, <2>2, PlaceIsUnique
  <2> QED
    BY <2>3, PlaceIsCandidate
<1>4. Key \in Injection(Candidates(priority), 1..Top)
  BY <1>2, <1>3 DEF Injection, IsInjective
<1>5. IsFiniteSet(1..Top)
  BY <1>1, FS_Interval
<1> QED
  BY <1>4, <1>5, FS_Injection

\* Either order compares any two candidates.
LEMMA OrdersAreTotal ==
    ASSUME RegistryTypeOK, NEW priority, Priority(priority),
           NEW c \in Candidates(priority), NEW d \in Candidates(priority), c # d
    PROVE  /\ ByOrdinal(c, d) \/ ByOrdinal(d, c)
           /\ ByRank(c, d) \/ ByRank(d, c)
<1>1. /\ c.ordinal \in Nat /\ d.ordinal \in Nat /\ c.rank \in Nat /\ d.rank \in Nat
      /\ c.position \in 1..2 /\ d.position \in 1..2
  BY CandidateFields
<1>2. ~(c.ordinal = d.ordinal /\ c.position = d.position)
  BY PlaceIsCandidate
<1> QED
  BY <1>1, <1>2 DEF ByOrdinal, ByRank

\* Either order is irreflexive and transitive.
LEMMA OrdersAreStrict ==
    ASSUME RegistryTypeOK, NEW priority, Priority(priority),
           NEW c \in Candidates(priority), NEW d \in Candidates(priority),
           NEW e \in Candidates(priority)
    PROVE  /\ ~ByOrdinal(c, c) /\ ~ByRank(c, c)
           /\ ByOrdinal(c, d) /\ ByOrdinal(d, e) => ByOrdinal(c, e)
           /\ ByRank(c, d) /\ ByRank(d, e) => ByRank(c, e)
<1>1. \A x \in {c, d, e} : x.ordinal \in Nat /\ x.rank \in Nat /\ x.position \in 1..2
  BY CandidateFields
<1> QED
  BY <1>1 DEF ByOrdinal, ByRank

(***************************************************************************)
(* A store's deltas: each of a new account, and one of an account.         *)
(***************************************************************************)
LEMMA SelectedFacts ==
    ASSUME RegistryTypeOK, NEW priority, Priority(priority), NEW stored
    PROVE  /\ IsFiniteSet(Selected(priority, stored))
           /\ Selected(priority, stored) \subseteq Candidates(priority)
           /\ \A c \in Selected(priority, stored) : c.account \in Accounts \ stored
           /\ \A c, d \in Selected(priority, stored) : c.account = d.account => c = d
<1>1. Selected(priority, stored) \subseteq Candidates(priority)
  BY DEF Selected
<1>2. IsFiniteSet(Selected(priority, stored))
  BY <1>1, CandidatesFinite, FS_Subset
<1>3. \A c \in Selected(priority, stored) : c.account \in Accounts \ stored
  BY <1>1, CandidateFields DEF Selected
<1>4. ASSUME NEW c \in Selected(priority, stored), NEW d \in Selected(priority, stored),
             c.account = d.account
      PROVE  c = d
  <2>1. ~ByRank(c, d) /\ ~ByRank(d, c)
    BY <1>4 DEF Selected
  <2> QED
    BY <1>1, <2>1, OrdersAreTotal
<1> QED
  BY <1>1, <1>2, <1>3, <1>4

-----------------------------------------------------------------------------
(***************************************************************************)
(* Numbering.  "Later" gives each member of a finite set those that follow *)
(* it in a strict total order; no two are followed by the same number.     *)
(***************************************************************************)
LEMMA PlacesDiffer ==
    ASSUME NEW S, IsFiniteSet(S), NEW Later \in [S -> SUBSET S],
           \A c \in S : c \notin Later[c],
           \A c \in S : \A d \in Later[c] : Later[d] \subseteq Later[c],
           \A c, d \in S : c # d => d \in Later[c] \/ c \in Later[d]
    PROVE  /\ \A c \in S : Cardinality(Later[c]) \in Nat /\ Cardinality(Later[c]) < Cardinality(S)
           /\ \A c, d \in S : c # d => Cardinality(Later[c]) # Cardinality(Later[d])
<1>1. \A c \in S : IsFiniteSet(Later[c])
  BY FS_Subset
<1>2. ASSUME NEW T, IsFiniteSet(T), NEW U \in SUBSET T, NEW x \in T, x \notin U
      PROVE  Cardinality(U) \in Nat /\ Cardinality(U) < Cardinality(T)
  <2>1. IsFiniteSet(U) /\ Cardinality(U) <= Cardinality(T) /\ Cardinality(T) # Cardinality(U)
    BY <1>2, FS_Subset
  <2>2. Cardinality(U) \in Nat /\ Cardinality(T) \in Nat
    BY <1>2, <2>1, FS_CardinalityType
  <2> QED
    BY <2>1, <2>2
<1>3. \A c \in S : Cardinality(Later[c]) \in Nat /\ Cardinality(Later[c]) < Cardinality(S)
  BY <1>2
<1>4. \A c \in S : \A d \in Later[c] : Cardinality(Later[d]) < Cardinality(Later[c])
  <2> TAKE c \in S
  <2> TAKE d \in Later[c]
  <2>1. d \in S /\ d \notin Later[d] /\ Later[d] \in SUBSET Later[c]
    OBVIOUS
  <2> QED
    BY <1>1, <1>2, <2>1
<1> QED
  BY <1>3, <1>4

(***************************************************************************)
(* The rows that a store's deltas S number, up to last: a row's number     *)
(* tells its account among them, and the other rows keep theirs.           *)
(***************************************************************************)
Of(S) == {c.account : c \in S}

Numbers(S, last, index, new) ==
    /\ new \in [Accounts -> Nat]
    /\ \A a \in Of(S) : new[a] \in (last - Cardinality(S) + 1)..last
    /\ \A a, b \in Of(S) : a # b => new[a] # new[b]
    /\ \A a \in Accounts \ Of(S) : new[a] = index[a]

\* One delta of an account, and a finite number of them.
Deltas(S) ==
    /\ IsFiniteSet(S)
    /\ \A c \in S : c.account \in Accounts
    /\ \A c, d \in S : c.account = d.account => c = d

\* Numbering by place among the deltas gives every number once.
LEMMA NumbersByPlace ==
    ASSUME NEW S, Deltas(S), NEW Later \in [S -> SUBSET S],
           \A c \in S : c \notin Later[c],
           \A c \in S : \A d \in Later[c] : Later[d] \subseteq Later[c],
           \A c, d \in S : c # d => d \in Later[c] \/ c \in Later[d],
           NEW last \in Nat, Cardinality(S) <= last,
           NEW index \in [Accounts -> Nat], NEW new,
           DOMAIN new = Accounts, new = [a \in Accounts |-> new[a]],
           \A c \in S : new[c.account] = last - Cardinality(Later[c]),
           \A a \in Accounts \ Of(S) : new[a] = index[a]
    PROVE  Numbers(S, last, index, new)
<1>1. /\ \A c \in S : Cardinality(Later[c]) \in Nat /\ Cardinality(Later[c]) < Cardinality(S)
      /\ \A c, d \in S : c # d => Cardinality(Later[c]) # Cardinality(Later[d])
  BY PlacesDiffer DEF Deltas
<1>2. Cardinality(S) \in Nat
  BY FS_CardinalityType DEF Deltas
<1>3. \A c \in S : new[c.account] \in (last - Cardinality(S) + 1)..last /\ new[c.account] \in Nat
  BY <1>1, <1>2
<1>4. \A c, d \in S : c # d => new[c.account] # new[d.account]
  BY <1>1
<1>5. \A a \in Accounts : new[a] \in Nat
  BY <1>3 DEF Of
<1> QED
  BY <1>3, <1>4, <1>5 DEF Numbers, Of

\* So does numbering by ordinal,
LEMMA AssignedByOrdinal ==
    ASSUME RegistryTypeOK, NEW priority, Priority(priority), NEW stored, NEW S,
           S = Selected(priority, stored), NEW last \in Nat, Cardinality(S) <= last,
           NEW index \in [Accounts -> Nat]
    PROVE  Numbers(S, last, index, Assigned(LaterByOrdinal(S), last, index))
<1> DEFINE Later == LaterByOrdinal(S)
           new == Assigned(LaterByOrdinal(S), last, index)
           Own(a) == CHOOSE c \in S : c.account = a
<1>1. Deltas(S) /\ S \subseteq Candidates(priority)
  BY SelectedFacts DEF Deltas
<1>2. \A c \in S : c \notin Later[c]
  BY <1>1, OrdersAreStrict DEF LaterByOrdinal
<1>3. \A c \in S : \A d \in Later[c] : Later[d] \subseteq Later[c]
  BY <1>1, OrdersAreStrict DEF LaterByOrdinal
<1>4. \A c, d \in S : c # d => d \in Later[c] \/ c \in Later[d]
  BY <1>1, OrdersAreTotal DEF LaterByOrdinal
<1>5. new = [a \in Accounts |->
               IF \E c \in S : c.account = a
               THEN last - Cardinality(Later[Own(a)]) ELSE index[a]]
  BY DEF Assigned, LaterByOrdinal
<1>6. ASSUME NEW c \in S
      PROVE  new[c.account] = last - Cardinality(Later[c])
  <2>1. c.account \in Accounts /\ Own(c.account) = c
    BY <1>1 DEF Deltas
  <2> QED
    BY <1>5, <2>1
<1>7. \A a \in Accounts \ Of(S) : new[a] = index[a]
  BY <1>5 DEF Of
<1>8. Later \in [S -> SUBSET S]
  BY DEF LaterByOrdinal
<1>9. DOMAIN new = Accounts /\ new = [a \in Accounts |-> new[a]]
  BY <1>5
<1> HIDE DEF Later, new
<1> QED
  BY <1>1, <1>2, <1>3, <1>4, <1>6, <1>7, <1>8, <1>9, NumbersByPlace DEF new

\* and so does numbering by rank.
LEMMA AssignedByRank ==
    ASSUME RegistryTypeOK, NEW priority, Priority(priority), NEW stored, NEW S,
           S = Selected(priority, stored), NEW last \in Nat, Cardinality(S) <= last,
           NEW index \in [Accounts -> Nat]
    PROVE  Numbers(S, last, index, Assigned(LaterByRank(S), last, index))
<1> DEFINE Later == LaterByRank(S)
           new == Assigned(LaterByRank(S), last, index)
           Own(a) == CHOOSE c \in S : c.account = a
<1>1. Deltas(S) /\ S \subseteq Candidates(priority)
  BY SelectedFacts DEF Deltas
<1>2. \A c \in S : c \notin Later[c]
  BY <1>1, OrdersAreStrict DEF LaterByRank
<1>3. \A c \in S : \A d \in Later[c] : Later[d] \subseteq Later[c]
  BY <1>1, OrdersAreStrict DEF LaterByRank
<1>4. \A c, d \in S : c # d => d \in Later[c] \/ c \in Later[d]
  BY <1>1, OrdersAreTotal DEF LaterByRank
<1>5. new = [a \in Accounts |->
               IF \E c \in S : c.account = a
               THEN last - Cardinality(Later[Own(a)]) ELSE index[a]]
  BY DEF Assigned, LaterByRank
<1>6. ASSUME NEW c \in S
      PROVE  new[c.account] = last - Cardinality(Later[c])
  <2>1. c.account \in Accounts /\ Own(c.account) = c
    BY <1>1 DEF Deltas
  <2> QED
    BY <1>5, <2>1
<1>7. \A a \in Accounts \ Of(S) : new[a] = index[a]
  BY <1>5 DEF Of
<1>8. Later \in [S -> SUBSET S]
  BY DEF LaterByRank
<1>9. DOMAIN new = Accounts /\ new = [a \in Accounts |-> new[a]]
  BY <1>5
<1> HIDE DEF Later, new
<1> QED
  BY <1>1, <1>2, <1>3, <1>4, <1>6, <1>7, <1>8, <1>9, NumbersByPlace DEF new

(***************************************************************************)
(* A store that registers deltas of accounts it does not know knows so     *)
(* many accounts more, and holds the block's number for them.              *)
(***************************************************************************)
LEMMA RegisteredFacts ==
    ASSUME RegistryTypeOK, NEW store \in [Accounts -> Nat], NEW S, Deltas(S),
           Of(S) \cap Known(store) = {}, NEW new, new = Registered(store, S)
    PROVE  /\ new \in [Accounts -> Nat]
           /\ \A a \in Of(S) : new[a] = block
           /\ \A a \in Accounts \ Of(S) : new[a] = store[a]
           /\ Known(new) = Known(store) \cup Of(S)
           /\ Cardinality(Known(new)) = Cardinality(Known(store)) + Cardinality(S)
<1>1. new = [a \in Accounts |-> IF a \in Of(S) THEN block ELSE store[a]]
  BY DEF Registered, Of
<1>2. block \in Nat /\ block > 0
  BY DEF RegistryTypeOK
<1>3. Of(S) \subseteq Accounts
  BY DEF Of, Deltas
<1>4. /\ new \in [Accounts -> Nat]
      /\ \A a \in Of(S) : new[a] = block
      /\ \A a \in Accounts \ Of(S) : new[a] = store[a]
  BY <1>1, <1>2, <1>3
<1>5. Known(new) = Known(store) \cup Of(S)
  BY <1>2, <1>3, <1>4 DEF Known
<1>6. IsFiniteSet(Of(S)) /\ Cardinality(Of(S)) = Cardinality(S)
  <2> DEFINE f == [c \in S |-> c.account]
  <2>1. f \in Surjection(S, Of(S))
    BY DEF Surjection, Of
  <2>2. f \in Injection(S, Of(S))
    BY DEF Injection, IsInjective, Of, Deltas
  <2> HIDE DEF f
  <2> QED
    BY <2>1, <2>2, FS_Surjection DEF Deltas
<1>7. IsFiniteSet(Known(store))
  BY RegistryAssumption, FS_Subset DEF Known
<1>8. Cardinality(Known(store)) \in Nat /\ Cardinality(S) \in Nat /\ Cardinality({}) = 0
  BY <1>7, FS_CardinalityType, FS_EmptySet DEF Deltas
<1>9. Known(store) \cap Of(S) = {}
  OBVIOUS
<1>10. Cardinality(Known(store) \cup Of(S))
         = Cardinality(Known(store)) + Cardinality(Of(S)) - Cardinality(Known(store) \cap Of(S))
  BY <1>6, <1>7, FS_Union
<1>11. Cardinality(Known(store) \cap Of(S)) = 0
  BY <1>8, <1>9
<1>12. Cardinality(Known(new)) = Cardinality(Known(store)) + Cardinality(S)
  BY <1>5, <1>6, <1>8, <1>10, <1>11
<1> QED
  BY <1>4, <1>5, <1>12

(***************************************************************************)
(* The index of an additive row of this block, and that it gives only to   *)
(* an account that no row of an earlier block mentions.                    *)
(***************************************************************************)
LEMMA AdditivelyFacts ==
    ASSUME RegistryTypeOK
    PROVE  /\ Additively \in [Accounts -> Nat]
           /\ \A a \in Accounts : \/ Additively[a] = db.entity_index[a]
                                  \/ db.joined_at[a] = 0 /\ Additively[a] > 1000000
<1>1. ASSUME NEW a \in Accounts, AdditiveLogs(a) # {}
      PROVE  Min(AdditiveLogs(a)) \in Nat \ {0}
  <2>1. AdditiveLogs(a) \subseteq Nat \ {0}
    BY DEF AdditiveLogs, RegistryTypeOK
  <2>2. PICK x \in AdditiveLogs(a) : \A y \in AdditiveLogs(a) : ~(<<y, x>> \in OpToRel(<, Nat))
    BY <1>1, <2>1, WFMin, NatLessThanWellFounded
  <2>3. \A y \in AdditiveLogs(a) : <<y, x>> \in Nat \X Nat
    BY <2>1
  <2>4. \A y \in AdditiveLogs(a) : ~(y < x)
    BY <2>2, <2>3, Zenon DEF OpToRel
  <2>5. \A y \in AdditiveLogs(a) : x <= y
    BY <2>1, <2>4
  <2> QED
    BY <2>1, <2>5 DEF Min
<1>2. ASSUME NEW n \in Nat \ {0}
      PROVE  AdditiveIndex(n) \in Nat /\ AdditiveIndex(n) > 1000000
  BY DEF AdditiveIndex, RegistryTypeOK
<1>3. \A a \in Accounts : db.entity_index[a] \in Nat
  BY DEF RegistryTypeOK
<1> QED
  BY <1>1, <1>2, <1>3 DEF Additively

-----------------------------------------------------------------------------
(***************************************************************************)
(* The end of a block, store by store.                                     *)
(***************************************************************************)
NewPre == Selected(PrePriority, Known(pre))
Pre1 == Registered(pre, NewPre)
NewWalnut == Selected(WalnutPriority, Known(Pre1) \cup Known(walnut))
Walnut1 == Registered(walnut, NewWalnut)
NewToken == Selected(TokenPriority, KnownToToken(Pre1, Walnut1))

NewRows(after_additive, after_pre, after_token, after_all) ==
    LET users == userIndex + Cardinality(NewPre) + Cardinality(NewToken)
    IN  /\ after_additive = Additively
        /\ Numbers(NewPre, users - Cardinality(NewToken), after_additive, after_pre)
        /\ Numbers(NewToken, users, after_pre, after_token)
        /\ Numbers(NewWalnut, walnutIndex + Cardinality(NewWalnut), after_token, after_all)

\* The new accounts of each rule, which the rules before it did not know.
LEMMA NewDeltas ==
    ASSUME RegistryTypeOK
    PROVE  /\ Deltas(NewPre) /\ Deltas(NewWalnut) /\ Deltas(NewToken)
           /\ Of(NewPre) \cap Known(pre) = {}
           /\ Of(NewWalnut) \cap (Known(Pre1) \cup Known(walnut)) = {}
           /\ Of(NewToken) \cap (Known(Pre1) \cup Known(Walnut1) \cup Known(token)) = {}
<1>1. ASSUME NEW priority, Priority(priority), NEW stored
      PROVE  Deltas(Selected(priority, stored)) /\ Of(Selected(priority, stored)) \cap stored = {}
  BY <1>1, SelectedFacts DEF Deltas, Of
<1>2. Deltas(NewPre) /\ Of(NewPre) \cap Known(pre) = {}
  BY <1>1, Priorities DEF NewPre
<1>3. Deltas(NewWalnut) /\ Of(NewWalnut) \cap (Known(Pre1) \cup Known(walnut)) = {}
  BY <1>1, Priorities DEF NewWalnut
<1>4. Deltas(NewToken)
      /\ Of(NewToken) \cap (Known(Pre1) \cup Known(Walnut1) \cup Known(token)) = {}
  BY <1>1, Priorities DEF NewToken, KnownToToken
<1> QED
  BY <1>2, <1>3, <1>4

\* What the end of a block does, in terms of the new accounts.
LEMMA EndBlockFacts ==
    ASSUME EndBlock
    PROVE  /\ pre' = Pre1 /\ walnut' = Walnut1 /\ token' = Registered(token, NewToken)
           /\ userIndex' = userIndex + Cardinality(NewPre) + Cardinality(NewToken)
           /\ walnutIndex' = walnutIndex + Cardinality(NewWalnut)
           /\ db' = [joined_at |-> JoinedAt(Of(NewPre \cup NewWalnut \cup NewToken)),
                     entity_index |->
                       Assigned(LaterByRank(NewWalnut), walnutIndex',
                           Assigned(LaterByOrdinal(NewToken), userIndex',
                               Assigned(LaterByOrdinal(NewPre), userIndex' - Cardinality(NewToken),
                                        Additively))),
                     users_count |-> db.users_count + Cardinality(NewPre) + Cardinality(NewToken),
                     total_users |-> db.total_users + Cardinality(NewWalnut)]
           /\ logs' = <<>> /\ block' = block + 1
BY DEF EndBlock, NewPre, Pre1, NewWalnut, Walnut1, NewToken, Of

\* The rows after a block, numbered three times in turn.
LEMMA EndBlockRows ==
    ASSUME RegistryTypeOK, EndBlock
    PROVE  \E i, j, k : NewRows(i, j, k, db'.entity_index)
<1> DEFINE P == Cardinality(NewPre)
           T == Cardinality(NewToken)
           W == Cardinality(NewWalnut)
           users == userIndex + P + T
           i0 == Additively
           i1 == Assigned(LaterByOrdinal(NewPre), users - T, i0)
           i2 == Assigned(LaterByOrdinal(NewToken), users, i1)
           i3 == Assigned(LaterByRank(NewWalnut), walnutIndex + W, i2)
<1>1. /\ P \in Nat /\ T \in Nat /\ W \in Nat
      /\ userIndex \in Nat /\ walnutIndex \in Nat
  BY NewDeltas, FS_CardinalityType DEF Deltas, RegistryTypeOK
<1>2. /\ users - T \in Nat /\ P <= users - T /\ users \in Nat /\ T <= users
      /\ walnutIndex + W \in Nat /\ W <= walnutIndex + W
  BY <1>1
<1>3. i0 \in [Accounts -> Nat]
  BY AdditivelyFacts
<1>4. Numbers(NewPre, users - T, i0, i1)
  <2> HIDE DEF i0, users
  <2> QED
    BY <1>2, <1>3, AssignedByOrdinal, Priorities DEF NewPre
<1>5. i1 \in [Accounts -> Nat]
  BY <1>4 DEF Numbers
<1>6. Numbers(NewToken, users, i1, i2)
  <2> HIDE DEF i1, users
  <2> QED
    BY <1>2, <1>5, AssignedByOrdinal, Priorities DEF NewToken
<1>7. i2 \in [Accounts -> Nat]
  BY <1>6 DEF Numbers
<1>8. Numbers(NewWalnut, walnutIndex + W, i2, i3)
  <2> HIDE DEF i2
  <2> QED
    BY <1>2, <1>7, AssignedByRank, Priorities DEF NewWalnut
<1>9. db'.entity_index = i3
  BY EndBlockFacts
<1> HIDE DEF i0, i1, i2, i3
<1>10. NewRows(i0, i1, i2, i3)
  BY <1>4, <1>6, <1>8 DEF NewRows, i0
<1> QED
  BY <1>9, <1>10

\* The stores after a block.
LEMMA EndBlockStores ==
    ASSUME RegistryTypeOK, EndBlock
    PROVE  /\ pre' \in [Accounts -> Nat] /\ walnut' \in [Accounts -> Nat]
           /\ token' \in [Accounts -> Nat]
           /\ \A a \in Accounts :
                /\ pre'[a] = IF a \in Of(NewPre) THEN block ELSE pre[a]
                /\ walnut'[a] = IF a \in Of(NewWalnut) THEN block ELSE walnut[a]
                /\ token'[a] = IF a \in Of(NewToken) THEN block ELSE token[a]
           /\ Known(pre') = Known(pre) \cup Of(NewPre)
           /\ Known(walnut') = Known(walnut) \cup Of(NewWalnut)
           /\ Known(token') = Known(token) \cup Of(NewToken)
           /\ Cardinality(Known(pre')) = Cardinality(Known(pre)) + Cardinality(NewPre)
           /\ Cardinality(Known(walnut')) = Cardinality(Known(walnut)) + Cardinality(NewWalnut)
           /\ Cardinality(Known(token')) = Cardinality(Known(token)) + Cardinality(NewToken)
           /\ Of(NewPre) \cap Known(pre) = {}
           /\ Of(NewWalnut) \cap (Known(pre') \cup Known(walnut)) = {}
           /\ Of(NewToken) \cap (Known(pre') \cup Known(walnut') \cup Known(token)) = {}
           /\ Of(NewPre) \subseteq Accounts /\ Of(NewWalnut) \subseteq Accounts
           /\ Of(NewToken) \subseteq Accounts
<1>1. pre' = Pre1 /\ walnut' = Walnut1 /\ token' = Registered(token, NewToken)
  BY EndBlockFacts
<1>2. /\ Of(NewPre) \cap Known(pre) = {}
      /\ Of(NewWalnut) \cap (Known(pre') \cup Known(walnut)) = {}
      /\ Of(NewToken) \cap (Known(pre') \cup Known(walnut') \cup Known(token)) = {}
  BY <1>1, NewDeltas
<1>3. /\ pre' \in [Accounts -> Nat]
      /\ \A a \in Accounts : pre'[a] = IF a \in Of(NewPre) THEN block ELSE pre[a]
      /\ Known(pre') = Known(pre) \cup Of(NewPre)
      /\ Cardinality(Known(pre')) = Cardinality(Known(pre)) + Cardinality(NewPre)
  <2>1. pre \in [Accounts -> Nat] /\ Deltas(NewPre) /\ pre' = Registered(pre, NewPre)
    BY <1>1, NewDeltas DEF RegistryTypeOK, Pre1
  <2> QED
    BY <1>2, <2>1, RegisteredFacts
<1>4. /\ walnut' \in [Accounts -> Nat]
      /\ \A a \in Accounts : walnut'[a] = IF a \in Of(NewWalnut) THEN block ELSE walnut[a]
      /\ Known(walnut') = Known(walnut) \cup Of(NewWalnut)
      /\ Cardinality(Known(walnut')) = Cardinality(Known(walnut)) + Cardinality(NewWalnut)
  <2>1. walnut \in [Accounts -> Nat] /\ Deltas(NewWalnut) /\ walnut' = Registered(walnut, NewWalnut)
    BY <1>1, NewDeltas DEF RegistryTypeOK, Walnut1
  <2>2. Of(NewWalnut) \cap Known(walnut) = {}
    BY <1>2
  <2> QED
    BY <2>1, <2>2, RegisteredFacts
<1>5. /\ token' \in [Accounts -> Nat]
      /\ \A a \in Accounts : token'[a] = IF a \in Of(NewToken) THEN block ELSE token[a]
      /\ Known(token') = Known(token) \cup Of(NewToken)
      /\ Cardinality(Known(token')) = Cardinality(Known(token)) + Cardinality(NewToken)
  <2>1. token \in [Accounts -> Nat] /\ Deltas(NewToken) /\ token' = Registered(token, NewToken)
    BY <1>1, NewDeltas DEF RegistryTypeOK
  <2>2. Of(NewToken) \cap Known(token) = {}
    BY <1>2
  <2> QED
    BY <2>1, <2>2, RegisteredFacts
<1>6. Of(NewPre) \subseteq Accounts /\ Of(NewWalnut) \subseteq Accounts
      /\ Of(NewToken) \subseteq Accounts
  BY NewDeltas DEF Deltas, Of
<1> QED
  BY <1>2, <1>3, <1>4, <1>5, <1>6, Zenon

\* An account that a store knows has joined, so that its row keeps its index
\* until a store registers it again.
LEMMA KnownHaveJoined ==
    ASSUME RegistryInv, NEW a \in Known(pre) \cup Known(walnut) \cup Known(token)
    PROVE  a \in Accounts /\ db.joined_at[a] > 0
<1>1. PICK t \in {pre[a], walnut[a], token[a]} : a \in Accounts /\ t > 0
  BY DEF Known
<1>2. t \in {pre[a], walnut[a], token[a]} \ {0}
  BY <1>1
<1>3. db.joined_at[a] \in 1..t
  BY <1>1, <1>2 DEF RegistryInv, JoinedBeforeRegistered
<1>4. t \in Nat
  BY <1>1 DEF RegistryInv, RegistryTypeOK
<1> QED
  BY <1>1, <1>3, <1>4

\* A row of an account that is not new keeps its index.
LEMMA IndexIsKept ==
    ASSUME RegistryInv, EndBlock, NEW a \in Known(pre) \cup Known(walnut) \cup Known(token),
           a \notin Of(NewPre) \cup Of(NewWalnut) \cup Of(NewToken)
    PROVE  db'.entity_index[a] = db.entity_index[a]
<1>1. PICK i, j, k : NewRows(i, j, k, db'.entity_index)
  BY EndBlockRows DEF RegistryInv
<1>2. a \in Accounts /\ db.joined_at[a] > 0
  BY KnownHaveJoined
<1>3. Additively[a] = db.entity_index[a]
  BY <1>2, AdditivelyFacts DEF RegistryInv
<1> QED
  BY <1>1, <1>2, <1>3 DEF NewRows, Numbers

\* The end of a block keeps the types.
LEMMA EndBlockTypeOK ==
    ASSUME RegistryInv, EndBlock
    PROVE  RegistryTypeOK'
<1> DEFINE P == Cardinality(NewPre)
           T == Cardinality(NewToken)
           W == Cardinality(NewWalnut)
           joinedNow == JoinedAt(Of(NewPre \cup NewWalnut \cup NewToken))
           index == Assigned(LaterByRank(NewWalnut), walnutIndex',
                        Assigned(LaterByOrdinal(NewToken), userIndex',
                            Assigned(LaterByOrdinal(NewPre), userIndex' - T, Additively)))
<1>1. P \in Nat /\ T \in Nat /\ W \in Nat
  BY NewDeltas, FS_CardinalityType DEF Deltas, RegistryInv
<1>2. PICK i, j, k : NewRows(i, j, k, db'.entity_index)
  BY EndBlockRows DEF RegistryInv
<1>3. index \in [Accounts -> Nat]
  <2>1. db'.entity_index = index
    BY EndBlockFacts
  <2>2. db'.entity_index \in [Accounts -> Nat]
    BY <1>2 DEF NewRows, Numbers
  <2> QED
    BY <2>1, <2>2
<1>4. joinedNow \in [Accounts -> Nat]
  BY DEF JoinedAt, RegistryInv, RegistryTypeOK
<1>5. /\ userIndex' = userIndex + P + T /\ walnutIndex' = walnutIndex + W
      /\ logs' = <<>> /\ block' = block + 1
  BY EndBlockFacts
<1>6. db' = [joined_at |-> joinedNow, entity_index |-> index,
             users_count |-> db.users_count + P + T, total_users |-> db.total_users + W]
  BY EndBlockFacts
<1>7. userIndex \in Nat /\ walnutIndex \in Nat /\ block \in Nat \ {0}
      /\ db.users_count \in Nat /\ db.total_users \in Nat
  BY DEF RegistryInv, RegistryTypeOK
<1> HIDE DEF P, T, W, joinedNow, index
<1>8. db.users_count + P + T \in Nat /\ db.total_users + W \in Nat
  BY <1>1, <1>7
<1>9. db' \in [joined_at : [Accounts -> Nat], entity_index : [Accounts -> Nat],
               users_count : Nat, total_users : Nat]
  BY <1>3, <1>4, <1>6, <1>8
<1>10. logs' \in Seq(Logs)
  BY <1>5
<1>11. block' \in Nat \ {0} /\ userIndex' \in Nat /\ walnutIndex' \in Nat
  BY <1>1, <1>5, <1>7
<1>12. pre' \in [Accounts -> Nat] /\ walnut' \in [Accounts -> Nat] /\ token' \in [Accounts -> Nat]
  BY EndBlockStores DEF RegistryInv
<1> QED
  BY <1>9, <1>10, <1>11, <1>12 DEF RegistryTypeOK

\* An account is counted twice only in the order the module tells.
LEMMA EndBlockBackwards ==
    ASSUME RegistryInv, EndBlock
    PROVE  CountedTwiceOnlyBackwards' /\ Earlier(pre)' /\ Earlier(walnut)' /\ Earlier(token)'
<1>1. block \in Nat \ {0} /\ block' = block + 1
  BY EndBlockFacts DEF RegistryInv, RegistryTypeOK
<1>2. ASSUME NEW a \in Accounts
      PROVE  /\ pre'[a] > 0 /\ token'[a] > 0 => token'[a] < pre'[a]
             /\ pre'[a] > 0 /\ walnut'[a] > 0 => walnut'[a] < pre'[a]
             /\ walnut'[a] > 0 /\ token'[a] > 0 => token'[a] < walnut'[a]
             /\ pre'[a] < block' /\ walnut'[a] < block' /\ token'[a] < block'
  <2>1. /\ pre[a] \in Nat /\ walnut[a] \in Nat /\ token[a] \in Nat
        /\ pre[a] < block /\ walnut[a] < block /\ token[a] < block
        /\ pre[a] > 0 /\ token[a] > 0 => token[a] < pre[a]
        /\ pre[a] > 0 /\ walnut[a] > 0 => walnut[a] < pre[a]
        /\ walnut[a] > 0 /\ token[a] > 0 => token[a] < walnut[a]
    BY DEF RegistryInv, RegistryTypeOK, Earlier, CountedTwiceOnlyBackwards
  <2>2. pre'[a] = pre[a] \/ pre'[a] = block
    BY EndBlockStores DEF RegistryInv
  <2>3. walnut'[a] = walnut[a] \/ (walnut'[a] = block /\ ~(pre'[a] > 0))
    BY EndBlockStores DEF Known, RegistryInv
  <2>4. token'[a] = token[a] \/ (token'[a] = block /\ ~(pre'[a] > 0) /\ ~(walnut'[a] > 0))
    BY EndBlockStores DEF Known, RegistryInv
  <2> QED
    BY <1>1, <2>1, <2>2, <2>3, <2>4
<1> QED
  BY <1>2 DEF CountedTwiceOnlyBackwards, Earlier

\* No account is registered before it joined.
LEMMA EndBlockJoined ==
    ASSUME RegistryInv, EndBlock
    PROVE  JoinedBeforeRegistered' /\ Earlier(db.joined_at)'
<1> DEFINE new == Of(NewPre \cup NewWalnut \cup NewToken)
<1>1. block \in Nat \ {0} /\ block' = block + 1 /\ db'.joined_at = JoinedAt(new)
  BY EndBlockFacts DEF RegistryInv, RegistryTypeOK
<1> HIDE DEF new
<1>2. ASSUME NEW a \in Accounts
      PROVE  /\ db.joined_at[a] \in Nat /\ db.joined_at[a] < block
             /\ \/ db'.joined_at[a] = db.joined_at[a]
                \/ db.joined_at[a] = 0 /\ db'.joined_at[a] = block
             /\ a \in new => db'.joined_at[a] > 0
  <2>1. db.joined_at[a] \in Nat /\ db.joined_at[a] < block
    BY DEF RegistryInv, RegistryTypeOK, Earlier
  <2>2. db'.joined_at[a] = IF a \in Mentioned \cup new /\ db.joined_at[a] = 0
                           THEN block ELSE db.joined_at[a]
    BY <1>1 DEF JoinedAt
  <2>3. block \in Nat /\ block > 0
    BY <1>1
  <2> QED
    BY <2>1, <2>2, <2>3
<1>3. Of(NewPre) \subseteq new /\ Of(NewWalnut) \subseteq new /\ Of(NewToken) \subseteq new
  BY DEF Of, new
<1>4. ASSUME NEW a \in Accounts, NEW s, NEW t, NEW S, t # 0, S \subseteq new,
             t = IF a \in S THEN block ELSE s,
             s # 0 => db.joined_at[a] \in 1..s, s \in Nat
      PROVE  db'.joined_at[a] \in 1..t
  <2>1. CASE a \in S
    BY <1>1, <1>2, <1>4, <2>1
  <2>2. CASE a \notin S
    BY <1>1, <1>2, <1>4, <2>2
  <2> QED
    BY <2>1, <2>2
<1>5. ASSUME NEW a \in Accounts
      PROVE  \A t \in {pre'[a], walnut'[a], token'[a]} \ {0} : db'.joined_at[a] \in 1..t
  <2>1. /\ pre[a] \in Nat /\ walnut[a] \in Nat /\ token[a] \in Nat
        /\ pre[a] # 0 => db.joined_at[a] \in 1..pre[a]
        /\ walnut[a] # 0 => db.joined_at[a] \in 1..walnut[a]
        /\ token[a] # 0 => db.joined_at[a] \in 1..token[a]
    BY DEF RegistryInv, RegistryTypeOK, JoinedBeforeRegistered
  <2>2. /\ pre'[a] = IF a \in Of(NewPre) THEN block ELSE pre[a]
        /\ walnut'[a] = IF a \in Of(NewWalnut) THEN block ELSE walnut[a]
        /\ token'[a] = IF a \in Of(NewToken) THEN block ELSE token[a]
    BY EndBlockStores DEF RegistryInv
  <2>3. pre'[a] # 0 => db'.joined_at[a] \in 1..pre'[a]
    BY <1>3, <1>4, <2>1, <2>2
  <2>4. walnut'[a] # 0 => db'.joined_at[a] \in 1..walnut'[a]
    BY <1>3, <1>4, <2>1, <2>2
  <2>5. token'[a] # 0 => db'.joined_at[a] \in 1..token'[a]
    BY <1>3, <1>4, <2>1, <2>2
  <2> QED
    BY <2>3, <2>4, <2>5
<1>6. \A a \in Accounts : db'.joined_at[a] < block'
  BY <1>1, <1>2
<1> QED
  BY <1>5, <1>6 DEF JoinedBeforeRegistered, Earlier

(***************************************************************************)
(* The three sets of new rows take disjoint accounts, the users' numbers   *)
(* follow those of the earlier users, and the Walnut ones those of theirs. *)
(***************************************************************************)
LEMMA EndBlockIndexes ==
    ASSUME RegistryInv, EndBlock
    PROVE  IndexesIdentify' /\ CountsAgree'
<1> DEFINE P == Cardinality(NewPre)
           T == Cardinality(NewToken)
           W == Cardinality(NewWalnut)
           index == db'.entity_index
<1>1. /\ P \in Nat /\ T \in Nat /\ W \in Nat
      /\ userIndex \in Nat /\ walnutIndex \in Nat
  BY NewDeltas, FS_CardinalityType DEF Deltas, RegistryInv, RegistryTypeOK
<1>2. /\ db.users_count = userIndex /\ db.total_users = walnutIndex
      /\ db'.users_count = userIndex + P + T /\ db'.total_users = walnutIndex + W
      /\ userIndex' = userIndex + P + T /\ walnutIndex' = walnutIndex + W
  BY EndBlockFacts DEF RegistryInv, CountsAgree
<1>3. PICK i, j, k : NewRows(i, j, k, index)
  BY EndBlockRows DEF RegistryInv
<1>4. /\ Of(NewPre) \cap Of(NewWalnut) = {} /\ Of(NewPre) \cap Of(NewToken) = {}
      /\ Of(NewWalnut) \cap Of(NewToken) = {}
      /\ Of(NewPre) \subseteq Accounts /\ Of(NewWalnut) \subseteq Accounts
      /\ Of(NewToken) \subseteq Accounts
  BY EndBlockStores DEF RegistryInv
<1>5. /\ \A a \in Of(NewPre) : index[a] \in (userIndex + 1)..(userIndex + P)
      /\ \A a, b \in Of(NewPre) : a # b => index[a] # index[b]
  <2>1. (userIndex + P + T) - T = userIndex + P /\ (userIndex + P) - P + 1 = userIndex + 1
    BY <1>1
  <2>2. \A a \in Of(NewPre) : j[a] \in (userIndex + 1)..(userIndex + P)
    BY <1>3, <2>1 DEF NewRows, Numbers
  <2>3. \A a, b \in Of(NewPre) : a # b => j[a] # j[b]
    BY <1>3 DEF NewRows, Numbers
  <2>4. \A a \in Of(NewPre) : index[a] = j[a]
    BY <1>3, <1>4 DEF NewRows, Numbers
  <2> QED
    BY <2>2, <2>3, <2>4
<1>6. /\ \A a \in Of(NewToken) : index[a] \in (userIndex + P + 1)..(userIndex + P + T)
      /\ \A a, b \in Of(NewToken) : a # b => index[a] # index[b]
  <2>1. (userIndex + P + T) - T + 1 = userIndex + P + 1
    BY <1>1
  <2>2. \A a \in Of(NewToken) : k[a] \in (userIndex + P + 1)..(userIndex + P + T)
    BY <1>3, <2>1 DEF NewRows, Numbers
  <2>3. \A a, b \in Of(NewToken) : a # b => k[a] # k[b]
    BY <1>3 DEF NewRows, Numbers
  <2>4. \A a \in Of(NewToken) : index[a] = k[a]
    BY <1>3, <1>4 DEF NewRows, Numbers
  <2> QED
    BY <2>2, <2>3, <2>4
<1>7. /\ \A a \in Of(NewWalnut) : index[a] \in (walnutIndex + 1)..(walnutIndex + W)
      /\ \A a, b \in Of(NewWalnut) : a # b => index[a] # index[b]
  <2>1. (walnutIndex + W) - W + 1 = walnutIndex + 1
    BY <1>1
  <2> QED
    BY <1>3, <2>1 DEF NewRows, Numbers
<1>8. \A a \in Accounts \ (Of(NewPre) \cup Of(NewWalnut) \cup Of(NewToken)) :
         index[a] = Additively[a]
  BY <1>3 DEF NewRows, Numbers
<1>9. \A a \in Known(pre) \cup Known(walnut) \cup Known(token) :
         a \notin Of(NewPre) \cup Of(NewWalnut) \cup Of(NewToken)
           => index[a] = db.entity_index[a]
  BY IndexIsKept
<1>10. /\ Known(pre') = Known(pre) \cup Of(NewPre)
       /\ Known(walnut') = Known(walnut) \cup Of(NewWalnut)
       /\ Known(token') = Known(token) \cup Of(NewToken)
       /\ Of(NewPre) \cap Known(pre) = {}
       /\ Of(NewWalnut) \cap (Known(pre') \cup Known(walnut)) = {}
       /\ Of(NewToken) \cap (Known(pre') \cup Known(walnut') \cup Known(token)) = {}
       /\ Known(pre) \subseteq Accounts /\ Known(walnut) \subseteq Accounts
       /\ Known(token) \subseteq Accounts
  BY EndBlockStores DEF RegistryInv, Known
<1>11. UserRows' = Known(pre') \cup (Known(token') \ Known(walnut'))
       /\ WalnutRows' = Known(walnut') \ Known(pre')
  BY DEF UserRows, WalnutRows, Known
<1>12. /\ \A a \in UserRows : db.entity_index[a] \in 1..userIndex
       /\ \A a \in WalnutRows : db.entity_index[a] \in 1..walnutIndex
       /\ \A a, b \in UserRows : a # b => db.entity_index[a] # db.entity_index[b]
       /\ \A a, b \in WalnutRows : a # b => db.entity_index[a] # db.entity_index[b]
       /\ \A a \in Accounts \ (UserRows \cup WalnutRows) :
             db.entity_index[a] = 0 \/ db.entity_index[a] > 1000000
  BY <1>2 DEF RegistryInv, IndexesIdentify
<1>13. \A a \in UserRows' : \/ a \in Of(NewPre) \/ a \in Of(NewToken)
                            \/ a \in UserRows /\ index[a] = db.entity_index[a]
  BY <1>9, <1>10, <1>11 DEF UserRows
<1>14. \A a \in WalnutRows' : \/ a \in Of(NewWalnut)
                              \/ a \in WalnutRows /\ index[a] = db.entity_index[a]
  BY <1>9, <1>10, <1>11 DEF WalnutRows
<1>15. \A a \in Accounts \ (UserRows' \cup WalnutRows') :
         /\ a \notin Of(NewPre) \cup Of(NewWalnut) \cup Of(NewToken)
         /\ a \in Accounts \ (UserRows \cup WalnutRows)
  BY <1>10, <1>11 DEF UserRows, WalnutRows
<1>16. db'.users_count = Cardinality(Known(pre')) + Cardinality(Known(token'))
       /\ db'.total_users = Cardinality(Known(walnut'))
  <2>1. /\ Cardinality(Known(pre')) = Cardinality(Known(pre)) + P
        /\ Cardinality(Known(walnut')) = Cardinality(Known(walnut)) + W
        /\ Cardinality(Known(token')) = Cardinality(Known(token)) + T
    BY EndBlockStores DEF RegistryInv
  <2>2. /\ userIndex = Cardinality(Known(pre)) + Cardinality(Known(token))
        /\ walnutIndex = Cardinality(Known(walnut))
    BY <1>2 DEF RegistryInv, IndexesIdentify
  <2>3. /\ Cardinality(Known(pre)) \in Nat /\ Cardinality(Known(token)) \in Nat
        /\ Cardinality(Known(walnut)) \in Nat
    <3>1. IsFiniteSet(Known(pre)) /\ IsFiniteSet(Known(token)) /\ IsFiniteSet(Known(walnut))
      BY RegistryAssumption, FS_Subset DEF Known
    <3> QED
      BY <3>1, FS_CardinalityType
  <2> QED
    BY <1>1, <1>2, <2>1, <2>2, <2>3
<1> HIDE DEF P, T, W, index
<1>17. /\ \A a \in UserRows' : index[a] \in 1..(userIndex + P + T)
       /\ \A a \in WalnutRows' : index[a] \in 1..(walnutIndex + W)
  BY <1>1, <1>5, <1>6, <1>7, <1>12, <1>13, <1>14
<1>18. ASSUME NEW a \in UserRows', NEW b \in UserRows', a # b
       PROVE  index[a] # index[b]
  <2>1. CASE a \in Of(NewPre)
    BY <1>1, <1>5, <1>6, <1>12, <1>13, <1>18, <2>1
  <2>2. CASE a \in Of(NewToken)
    BY <1>1, <1>5, <1>6, <1>12, <1>13, <1>18, <2>2
  <2>3. CASE a \in UserRows /\ index[a] = db.entity_index[a]
    BY <1>1, <1>5, <1>6, <1>12, <1>13, <1>18, <2>3
  <2> QED
    BY <1>13, <2>1, <2>2, <2>3
<1>19. ASSUME NEW a \in WalnutRows', NEW b \in WalnutRows', a # b
       PROVE  index[a] # index[b]
  BY <1>1, <1>7, <1>12, <1>14, <1>19
<1>20. ASSUME NEW a \in Accounts \ (UserRows' \cup WalnutRows')
       PROVE  index[a] = 0 \/ index[a] > 1000000
  <2>1. index[a] = Additively[a] /\ (db.entity_index[a] = 0 \/ db.entity_index[a] > 1000000)
    BY <1>8, <1>12, <1>15
  <2> QED
    BY <2>1, AdditivelyFacts DEF RegistryInv
<1> QED
  BY <1>2, <1>16, <1>17, <1>18, <1>19, <1>20 DEF IndexesIdentify, CountsAgree, index

-----------------------------------------------------------------------------
\* The invariant holds at first.
LEMMA InitRegistryInv == RegistryInit => RegistryInv
<1> SUFFICES ASSUME RegistryInit PROVE RegistryInv
  OBVIOUS
<1>1. \A a \in Accounts : None[a] = 0
  BY DEF None
<1>2. Known(pre) = {} /\ Known(walnut) = {} /\ Known(token) = {}
  BY <1>1 DEF RegistryInit, Known
<1>3. RegistryTypeOK
  BY DEF RegistryInit, RegistryTypeOK, None
<1>4. Earlier(pre) /\ Earlier(walnut) /\ Earlier(token) /\ Earlier(db.joined_at)
  BY <1>1 DEF RegistryInit, Earlier
<1>5. CountedTwiceOnlyBackwards /\ JoinedBeforeRegistered
  BY <1>1 DEF RegistryInit, CountedTwiceOnlyBackwards, JoinedBeforeRegistered
<1>6. CountsAgree /\ IndexesIdentify
  BY <1>1, <1>2, FS_EmptySet DEF RegistryInit, CountsAgree, IndexesIdentify, UserRows, WalnutRows
<1> QED
  BY <1>3, <1>4, <1>5, <1>6 DEF RegistryInv

\* The invariant is inductive.
LEMMA NextRegistryInv == RegistryInv /\ [RegistryNext]_registryVars => RegistryInv'
<1> SUFFICES ASSUME RegistryInv, [RegistryNext]_registryVars PROVE RegistryInv'
  OBVIOUS
<1>1. ASSUME UNCHANGED <<block, pre, walnut, token, userIndex, walnutIndex, db>>,
             logs' \in Seq(Logs)
      PROVE  RegistryInv'
  <2>1. RegistryTypeOK'
    BY <1>1 DEF RegistryInv, RegistryTypeOK
  <2>2. Earlier(pre)' /\ Earlier(walnut)' /\ Earlier(token)' /\ Earlier(db.joined_at)'
    BY <1>1 DEF RegistryInv, Earlier
  <2>3. CountedTwiceOnlyBackwards' /\ JoinedBeforeRegistered' /\ CountsAgree'
    BY <1>1 DEF RegistryInv, CountedTwiceOnlyBackwards, JoinedBeforeRegistered, CountsAgree
  <2>4. UserRows' = UserRows /\ WalnutRows' = WalnutRows
        /\ Known(pre)' = Known(pre) /\ Known(walnut)' = Known(walnut)
        /\ Known(token)' = Known(token)
    BY <1>1 DEF UserRows, WalnutRows, Known
  <2>5. IndexesIdentify'
    BY <1>1, <2>4 DEF RegistryInv, IndexesIdentify
  <2> QED
    BY <2>1, <2>2, <2>3, <2>5 DEF RegistryInv
<1>2. ASSUME NEW s \in Sources, NEW a \in Accounts, NEW b \in Accounts, AddLog(s, a, b)
      PROVE  RegistryInv'
  <2>1. logs' \in Seq(Logs)
    BY <1>2 DEF AddLog, Logs, RegistryInv, RegistryTypeOK
  <2> QED
    BY <1>1, <1>2, <2>1 DEF AddLog, stores
<1>3. CASE EndBlock
  BY <1>3, EndBlockTypeOK, EndBlockBackwards, EndBlockJoined, EndBlockIndexes DEF RegistryInv
<1>4. CASE UNCHANGED registryVars
  BY <1>1, <1>4 DEF registryVars, stores, RegistryInv, RegistryTypeOK
<1> QED
  BY <1>2, <1>3, <1>4 DEF RegistryNext

\* The invariant holds of every reachable state of the registry.
THEOREM RegistryInvariance == RegistrySpec => []RegistryInv
BY InitRegistryInv, NextRegistryInv, PTL DEF RegistrySpec

(***************************************************************************)
(* What the stores, the counters and the rows hold is of its type.         *)
(***************************************************************************)
THEOREM RegistryTypeCorrect == RegistrySpec => []RegistryTypeOK
<1>1. RegistryInv => RegistryTypeOK
  BY DEF RegistryInv
<1> QED
  BY <1>1, RegistryInvariance, PTL

(***************************************************************************)
(* For every set of accounts: an account is counted again only by a store  *)
(* that skips what the other one knows, in a strictly later block.         *)
(***************************************************************************)
THEOREM OnlyBackwards == RegistrySpec => []CountedTwiceOnlyBackwards
<1>1. RegistryInv => CountedTwiceOnlyBackwards
  BY DEF RegistryInv
<1> QED
  BY <1>1, RegistryInvariance, PTL

(***************************************************************************)
(* Every registration finds or makes a row that says its account joined.   *)
(***************************************************************************)
THEOREM JoinedFirst == RegistrySpec => []JoinedBeforeRegistered
<1>1. RegistryInv => JoinedBeforeRegistered
  BY DEF RegistryInv
<1> QED
  BY <1>1, RegistryInvariance, PTL

(***************************************************************************)
(* The user indexes identify the users and stay below their count, and so  *)
(* do the Walnut ones, in blocks of any length with any mix of events.     *)
(***************************************************************************)
THEOREM IndexesAreIdentities == RegistrySpec => []IndexesIdentify
<1>1. RegistryInv => IndexesIdentify
  BY DEF RegistryInv
<1> QED
  BY <1>1, RegistryInvariance, PTL

(***************************************************************************)
(* No step changes the index of an account of the pre-Walnut store.        *)
(***************************************************************************)
THEOREM PreIndexesAreFinal == RegistrySpec => PreIndexIsFinal
<1>1. ASSUME RegistryInv, [RegistryNext]_registryVars
      PROVE  [\A a \in Known(pre) : db'.entity_index[a] = db.entity_index[a]]_registryVars
  <2>1. CASE UNCHANGED db
    BY <2>1
  <2>2. CASE EndBlock
    <3>1. \A a \in Known(pre) : a \notin Of(NewPre) \cup Of(NewWalnut) \cup Of(NewToken)
      <4>1. /\ Known(pre') = Known(pre) \cup Of(NewPre)
            /\ Of(NewPre) \cap Known(pre) = {}
            /\ Of(NewWalnut) \cap (Known(pre') \cup Known(walnut)) = {}
            /\ Of(NewToken) \cap (Known(pre') \cup Known(walnut') \cup Known(token)) = {}
        BY <1>1, <2>2, EndBlockStores DEF RegistryInv
      <4> QED
        BY <4>1
    <3>2. \A a \in Known(pre) : db'.entity_index[a] = db.entity_index[a]
      BY <1>1, <2>2, <3>1, IndexIsKept
    <3> QED
      BY <3>2
  <2> QED
    BY <1>1, <2>1, <2>2 DEF RegistryNext, AddLog, registryVars
<1> QED
  BY <1>1, RegistryInvariance, PTL DEF RegistrySpec, PreIndexIsFinal

-----------------------------------------------------------------------------
\* What HandoffAssumption says of the constants the proofs depend on.
Parameters == Horizon \in Nat /\ FirstNew \in Nat \ {0}

-----------------------------------------------------------------------------
(***************************************************************************)
(* The inductive invariant.  A sink that runs has brought its domains up   *)
(* to where it would resume, and up to its position if it has one: nothing *)
(* of them lies between the two.  Where the procedure stands tells up to   *)
(* where the other domains are, and the backup is one of these states.     *)
(***************************************************************************)
Phases == {"separate", "unified", "stopped", "backfilled", "continued"}
Databases == [taken : BOOLEAN, applied : [Domains -> Seq(Blocks)], cursors : [Streams -> Nat]]

TypeOK ==
    /\ output \in [Domains -> SUBSET Blocks]
    /\ applied \in [Domains -> Seq(Blocks)]
    /\ cursors \in [Streams -> Nat]
    /\ position \in [Streams -> Nat \cup {Down}]
    /\ phase \in Phases
    /\ joined \in Nat /\ boundary \in Nat
    /\ backup \in Databases

\* The domain has just its changes up to block n.
UpTo(feed, d, n) == ToSet(feed[d]) = {c \in output[d] : c <= n}

NewStartsAt == \A b \in output["new"] : b >= FirstNew

RunningFed ==
    \A s \in Running : \A d \in DomainsOf[s] :
        /\ UpTo(applied, d, Resume(s))
        /\ position[s] # Down => position[s] >= Resume(s) /\ UpTo(applied, d, position[s])

OthersDown == \A s \in Streams \ Running : position[s] = Down

Unused(table, s) == table[s] = 0

BeforeStop ==
    phase \in {"separate", "unified"} =>
        /\ applied["new"] = <<>>
        /\ Unused(cursors, "backfill") /\ Unused(cursors, "continuation")
        /\ phase = "separate" => Unused(cursors, "unified") /\ ~backup.taken

WhileStopped ==
    phase \in {"stopped", "backfilled"} =>
        /\ Unused(cursors, "continuation")
        /\ boundary = cursors["unified"] /\ boundary # 0
        /\ UpTo(applied, "legacy", boundary) /\ UpTo(applied, "basket", boundary)
        /\ cursors["backfill"] <= boundary
        /\ position["backfill"] <= boundary \/ position["backfill"] < FirstNew
        /\ phase = "backfilled" => UpTo(applied, "new", boundary)

Continued ==
    phase = "continued" =>
        \/ Unused(cursors, "continuation")
        \/ boundary <= cursors["continuation"]

BackupFits ==
    backup.taken =>
        /\ \A d \in Domains : IsPrefix(backup.applied[d], applied[d])
        /\ backup.applied["new"] = <<>>
        /\ Unused(backup.cursors, "backfill") /\ Unused(backup.cursors, "continuation")
        /\ \A d \in {"legacy", "basket"} :
              UpTo(backup.applied, d,
                   IF backup.cursors["unified"] = 0 THEN joined ELSE backup.cursors["unified"])

BackupTaken == phase \in {"stopped", "backfilled", "continued"} => backup.taken

IInv ==
    /\ TypeOK /\ NewStartsAt
    /\ RunningFed /\ OthersDown
    /\ BeforeStop /\ WhileStopped /\ Continued
    /\ BackupFits /\ BackupTaken

-----------------------------------------------------------------------------
(***************************************************************************)
(* Sequences.                                                              *)
(***************************************************************************)
LEMMA PrefixOfItself ==
    ASSUME NEW S, NEW s \in Seq(S)
    PROVE  IsPrefix(s, s) /\ IsPrefix(<<>>, s)
BY DEF IsPrefix

\* A prefix of a sequence is one of the longer sequence too.
LEMMA PrefixOfAppend ==
    ASSUME NEW S, NEW s \in Seq(S), NEW t \in Seq(S), NEW x \in S, IsPrefix(s, t)
    PROVE  IsPrefix(s, Append(t, x))
<1>1. Len(s) <= Len(t) /\ SubSeq(s, 1, Len(s)) = SubSeq(t, 1, Len(s))
  BY DEF IsPrefix
<1>2. SubSeq(Append(t, x), 1, Len(s)) = SubSeq(t, 1, Len(s))
  BY <1>1
<1>3. Len(s) <= Len(Append(t, x))
  BY <1>1
<1> QED
  BY <1>1, <1>2, <1>3 DEF IsPrefix

\* An appended element joins the set of the elements.
LEMMA SetOfAppend ==
    ASSUME NEW S, NEW s \in Seq(S), NEW x \in S
    PROVE  ToSet(Append(s, x)) = ToSet(s) \cup {x}
<1>1. DOMAIN Append(s, x) = 1..(Len(s) + 1) /\ DOMAIN s = 1..Len(s) /\ Len(s) \in Nat
  OBVIOUS
<1>2. \A i \in 1..Len(s) : Append(s, x)[i] = s[i]
  OBVIOUS
<1>3. Append(s, x)[Len(s) + 1] = x
  OBVIOUS
<1> QED
  BY <1>1, <1>2, <1>3 DEF ToSet

\* A least element is the minimum.
LEMMA MinIs ==
    ASSUME NEW S \in SUBSET Nat, NEW m \in S, \A n \in S : m <= n
    PROVE  Min(S) = m
<1>1. ASSUME NEW x \in S, \A y \in S : x <= y
      PROVE  x = m
  <2>1. x <= m /\ m <= x /\ x \in Nat /\ m \in Nat
    BY <1>1
  <2> QED
    BY <2>1
<1>2. \E x \in S : \A y \in S : x <= y
  OBVIOUS
<1> QED
  BY <1>1, <1>2 DEF Min

\* The empty sequence has no elements.
LEMMA SetOfEmpty == ToSet(<<>>) = {}
BY DEF ToSet

-----------------------------------------------------------------------------
\* The invariant holds at first.
LEMMA InitIInv == Init => IInv
<1> SUFFICES ASSUME Init PROVE IInv
  OBVIOUS
<1>1. TypeOK
  BY DEF Init, TypeOK, Phases, Databases, Down, Streams, Domains
<1>2. NewStartsAt
  BY DEF Init, NewStartsAt
<1>3. \A d \in Domains : UpTo(applied, d, 0)
  BY SetOfEmpty DEF Init, UpTo, Blocks
<1>4. \A s \in Running : s \in {"legacy", "basket"}
  BY DEF Init, Running, RunningIn
<1>5. \A s \in {"legacy", "basket"} : Resume(s) = 0 /\ DomainsOf[s] \subseteq Domains
  BY DEF Init, Resume, FirstOf, DomainsOf, Domains, Streams
<1>6. \A s \in Streams : position[s] = Down
  BY DEF Init
<1>7. RunningFed /\ OthersDown
  BY <1>3, <1>4, <1>5, <1>6 DEF RunningFed, OthersDown, Streams
<1>8. BeforeStop /\ WhileStopped /\ Continued /\ BackupFits /\ BackupTaken
  BY DEF Init, BeforeStop, WhileStopped, Continued, BackupFits, BackupTaken, Unused,
         Streams, Domains
<1> QED
  BY <1>1, <1>2, <1>7, <1>8 DEF IInv

-----------------------------------------------------------------------------
(***************************************************************************)
(* The streams that run at a time fill different domains.                  *)
(***************************************************************************)
LEMMA RunningStreams ==
    ASSUME phase \in Phases
    PROVE  /\ Running \subseteq Streams
           /\ \A s \in Running : DomainsOf[s] \subseteq Domains /\ DomainsOf[s] # {}
           /\ \A s, t \in Running : s # t => DomainsOf[s] \cap DomainsOf[t] = {}
           /\ phase = "separate" => Running = {"legacy", "basket"}
           /\ phase = "unified" => Running = {"unified"}
           /\ phase = "stopped" => Running = {"backfill"}
           /\ phase = "backfilled" => Running = {}
           /\ phase = "continued" => Running = {"continuation"}
<1>1. /\ phase = "separate" => Running = {"legacy", "basket"}
      /\ phase = "unified" => Running = {"unified"}
      /\ phase = "stopped" => Running = {"backfill"}
      /\ phase = "backfilled" => Running = {}
      /\ phase = "continued" => Running = {"continuation"}
  BY DEF Running, RunningIn
<1>2. /\ DomainsOf["legacy"] = {"legacy"} /\ DomainsOf["basket"] = {"basket"}
      /\ DomainsOf["unified"] = {"legacy", "basket"} /\ DomainsOf["backfill"] = {"new"}
      /\ DomainsOf["continuation"] = Domains
  BY DEF DomainsOf
<1>3. Running \subseteq Streams
  BY <1>1 DEF Phases, Streams
<1>4. \A s \in Running : DomainsOf[s] \subseteq Domains /\ DomainsOf[s] # {}
  BY <1>1, <1>2 DEF Phases, Domains
<1>5. \A s, t \in Running : s # t => DomainsOf[s] \cap DomainsOf[t] = {}
  BY <1>1, <1>2 DEF Phases
<1> QED
  BY <1>1, <1>3, <1>4, <1>5

\* Where a stream resumes depends on its cursor and the recorded boundaries.
LEMMA ResumeIs ==
    ASSUME TypeOK
    PROVE  /\ Resume("legacy") = cursors["legacy"] /\ Resume("basket") = cursors["basket"]
           /\ Resume("unified") = IF cursors["unified"] = 0 THEN joined ELSE cursors["unified"]
           /\ Resume("backfill") = IF cursors["backfill"] = 0 THEN FirstNew - 1
                                                             ELSE cursors["backfill"]
           /\ Resume("continuation") = IF cursors["continuation"] = 0 THEN boundary
                                                             ELSE cursors["continuation"]
<1>1. /\ FirstOf["legacy"] = 1 /\ FirstOf["basket"] = 1 /\ FirstOf["unified"] = joined + 1
      /\ FirstOf["backfill"] = FirstNew /\ FirstOf["continuation"] = boundary + 1
  BY DEF FirstOf
<1>2. (joined + 1) - 1 = joined /\ (boundary + 1) - 1 = boundary /\ 1 - 1 = 0
  BY DEF TypeOK
<1>3. \A s \in Streams : Resume(s) = IF cursors[s] = 0 THEN FirstOf[s] - 1 ELSE cursors[s]
  BY DEF Resume
<1> QED
  BY <1>1, <1>2, <1>3 DEF Streams

\* A stream resumes at a block number.
LEMMA ResumeType ==
    ASSUME Parameters, TypeOK, NEW s \in Streams
    PROVE  Resume(s) \in Nat
BY ResumeIs DEF Parameters, TypeOK, Streams

-----------------------------------------------------------------------------
(***************************************************************************)
(* A block that a sink processes: it comes next in each domain that it has *)
(* changes of, and brings the sink's domains up to it.                     *)
(***************************************************************************)
Ahead(s) == position[s] + 1
Touched(s) == {d \in DomainsOf[s] : Ahead(s) \in output[d]}

\* The block that a stream processes is the first of those left to its domains.
LEMMA ProcessFacts ==
    ASSUME Parameters, IInv, NEW s \in Streams, Process(s)
    PROVE  /\ s \in Running /\ position[s] \in Nat
           /\ Ahead(s) \in Nat \ {0} /\ Ahead(s) <= LastOf(s)
           /\ Touched(s) \in SUBSET Domains
           /\ \A d \in Touched(s) : /\ Feeds!Left(d) # {} /\ Ahead(s) = Min(Feeds!Left(d))
                                    /\ Ahead(s) \in Blocks
           /\ applied' = [d \in Domains |-> IF d \in Touched(s) THEN Append(applied[d], Ahead(s))
                                            ELSE applied[d]]
           /\ \A d \in DomainsOf[s] : UpTo(applied', d, Ahead(s))
           /\ position'[s] = Ahead(s)
           /\ \A t \in Streams \ {s} : position'[t] = position[t]
           /\ cursors'[s] = IF Touched(s) = {} THEN cursors[s] ELSE Ahead(s)
           /\ \A t \in Streams \ {s} : cursors'[t] = cursors[t]
           /\ UNCHANGED <<chain, phase, joined, boundary, known, backup, faults>>
           /\ applied' \in [Domains -> Seq(Blocks)]
           /\ cursors' \in [Streams -> Nat]
           /\ position' \in [Streams -> Nat \cup {Down}]
<1> DEFINE b == Ahead(s)
           D == Touched(s)
<1>0. b = position[s] + 1 /\ D = {d \in DomainsOf[s] : b \in output[d]}
  BY DEF Ahead, Touched
<1>1. /\ s \in Running /\ position[s] # Down /\ b <= LastOf(s)
      /\ position' = [position EXCEPT ![s] = b]
      /\ cursors' = IF D = {} THEN cursors ELSE [cursors EXCEPT ![s] = b]
      /\ applied' = [d \in Domains |-> IF d \in D THEN Append(applied[d], b) ELSE applied[d]]
      /\ UNCHANGED <<chain, phase, joined, boundary, known, backup, faults>>
  BY DEF Process, Ahead, Touched
<1> HIDE DEF b, D
<1>2. position[s] \in Nat /\ b \in Nat \ {0}
  BY <1>0, <1>1 DEF IInv, TypeOK, Down
<1>3. D \in SUBSET Domains /\ DomainsOf[s] \subseteq Domains
  BY <1>0, <1>1, RunningStreams DEF IInv, TypeOK
<1>4. \A d \in DomainsOf[s] : ToSet(applied[d]) = {c \in output[d] : c <= position[s]}
  BY <1>1 DEF IInv, RunningFed, UpTo
<1>5. \A d \in Domains : output[d] \subseteq Blocks /\ Blocks \subseteq Nat /\ applied[d] \in Seq(Blocks)
  BY DEF IInv, TypeOK, Blocks, Parameters
<1>6. ASSUME NEW d \in D
      PROVE  Feeds!Left(d) # {} /\ b = Min(Feeds!Left(d)) /\ b \in Blocks
  <2>1. Feeds!Left(d) = output[d] \ ToSet(applied[d])
    BY DEF Feeds!Left, Feeds!ToSet, ToSet
  <2>2. b \in Feeds!Left(d) /\ \A c \in Feeds!Left(d) : c \in Nat /\ b <= c
    BY <1>0, <1>2, <1>3, <1>4, <1>5, <2>1
  <2>3. Min(Feeds!Left(d)) = b
    BY <2>2, MinIs
  <2> QED
    BY <1>3, <1>5, <2>1, <2>2, <2>3
<1>7. applied' \in [Domains -> Seq(Blocks)]
  BY <1>1, <1>5, <1>6
<1>8. ASSUME NEW d \in DomainsOf[s]
      PROVE  UpTo(applied', d, b)
  <2>1. CASE d \in D
    <3>1. ToSet(applied'[d]) = ToSet(applied[d]) \cup {b}
      BY <1>1, <1>3, <1>5, <1>6, <2>1, SetOfAppend
    <3>2. {c \in output[d] : c <= b} = {c \in output[d] : c <= position[s]} \cup {b}
      BY <1>0, <1>2, <1>3, <1>5, <2>1
    <3>3. UNCHANGED output
      BY <1>1 DEF chain
    <3> QED
      BY <1>4, <3>1, <3>2, <3>3 DEF UpTo
  <2>2. CASE d \notin D
    <3>1. applied'[d] = applied[d] /\ b \notin output[d]
      BY <1>0, <1>1, <1>3, <2>2
    <3>2. {c \in output[d] : c <= b} = {c \in output[d] : c <= position[s]}
      BY <1>0, <1>2, <1>3, <1>5, <3>1
    <3>3. UNCHANGED output
      BY <1>1 DEF chain
    <3> QED
      BY <1>4, <3>1, <3>2, <3>3 DEF UpTo
  <2> QED
    BY <2>1, <2>2
<1>9. /\ position'[s] = b /\ \A t \in Streams \ {s} : position'[t] = position[t]
      /\ position' \in [Streams -> Nat \cup {Down}]
  BY <1>1, <1>2 DEF IInv, TypeOK
<1>10. /\ cursors'[s] = IF D = {} THEN cursors[s] ELSE b
       /\ \A t \in Streams \ {s} : cursors'[t] = cursors[t]
       /\ cursors' \in [Streams -> Nat]
  BY <1>1, <1>2 DEF IInv, TypeOK
<1> QED
  BY <1>1, <1>2, <1>3, <1>6, <1>7, <1>8, <1>9, <1>10 DEF b, D

\* Processing a block keeps the invariant.
LEMMA ProcessStep ==
    ASSUME Parameters, IInv, NEW s \in Streams, Process(s)
    PROVE  IInv'
<1> DEFINE b == Ahead(s)
           D == Touched(s)
<1>0. b = position[s] + 1 /\ D = {d \in DomainsOf[s] : b \in output[d]}
  BY DEF Ahead, Touched
<1>1. /\ s \in Running /\ position[s] \in Nat /\ b \in Nat \ {0} /\ b <= LastOf(s)
      /\ D \in SUBSET Domains
      /\ \A d \in D : b \in Blocks
      /\ applied' = [d \in Domains |-> IF d \in D THEN Append(applied[d], b) ELSE applied[d]]
      /\ \A d \in DomainsOf[s] : UpTo(applied', d, b)
      /\ position'[s] = b
      /\ \A t \in Streams \ {s} : position'[t] = position[t]
      /\ cursors'[s] = IF D = {} THEN cursors[s] ELSE b
      /\ \A t \in Streams \ {s} : cursors'[t] = cursors[t]
      /\ UNCHANGED <<chain, phase, joined, boundary, known, backup, faults>>
      /\ applied' \in [Domains -> Seq(Blocks)]
      /\ cursors' \in [Streams -> Nat]
      /\ position' \in [Streams -> Nat \cup {Down}]
  BY ProcessFacts
<1> HIDE DEF b, D
<1>2. \A d \in Domains \ DomainsOf[s] : applied'[d] = applied[d]
  BY <1>0, <1>1
<1>3. D = {} => \A d \in Domains : applied'[d] = applied[d]
  BY <1>1
<1>4. \A d \in Domains : \/ applied'[d] = applied[d]
                         \/ b \in Blocks /\ applied'[d] = Append(applied[d], b)
  BY <1>1
<1>5. phase \in Phases /\ UNCHANGED <<output, phase, joined, boundary, backup>>
  BY <1>1 DEF IInv, TypeOK, chain
<1>6. TypeOK'
  BY <1>1, <1>5 DEF IInv, TypeOK
<1>7. NewStartsAt'
  BY <1>5 DEF IInv, NewStartsAt
<1>8. Running' = Running
  BY <1>5 DEF Running
<1>9. \A t \in Streams \ {s} : Resume(t)' = Resume(t)
  BY <1>1, <1>5 DEF Resume, FirstOf
<1>10. Resume(s)' = IF D = {} THEN Resume(s) ELSE b
  BY <1>1, <1>5 DEF Resume, FirstOf
<1>11. Resume(s) \in Nat /\ Resume(s) <= b
  <2>1. PICK d \in DomainsOf[s] : TRUE
    BY <1>1, <1>5, RunningStreams
  <2>2. position[s] >= Resume(s)
    BY <1>1, <2>1 DEF IInv, RunningFed, Down
  <2>3. Resume(s) \in Nat
    BY ResumeType DEF IInv
  <2> QED
    BY <1>0, <1>1, <2>2, <2>3
<1>12. RunningFed'
  <2> SUFFICES ASSUME NEW t \in Running, NEW d \in DomainsOf[t]
               PROVE  /\ UpTo(applied', d, Resume(t)')
                      /\ position'[t] # Down =>
                            position'[t] >= Resume(t)' /\ UpTo(applied', d, position'[t])
    BY <1>5, <1>8 DEF RunningFed, UpTo
  <2>1. t \in Streams /\ d \in Domains
    BY <1>5, RunningStreams
  <2>2. CASE t = s
    <3>1. UpTo(applied', d, b) /\ position'[t] = b /\ b >= Resume(t)'
      BY <1>1, <1>10, <1>11, <2>2
    <3>2. CASE D = {}
      <4>1. UpTo(applied, d, Resume(s)) /\ applied'[d] = applied[d]
        BY <1>3, <2>1, <2>2, <3>2 DEF IInv, RunningFed
      <4> QED
        BY <1>10, <2>2, <3>1, <3>2, <4>1, <1>5 DEF UpTo
    <3>3. CASE D # {}
      BY <1>10, <2>2, <3>1, <3>3
    <3> QED
      BY <3>2, <3>3
  <2>3. CASE t # s
    <3>1. applied'[d] = applied[d] /\ Resume(t)' = Resume(t) /\ position'[t] = position[t]
      BY <1>1, <1>2, <1>5, <1>9, <2>1, <2>3, RunningStreams
    <3> QED
      BY <3>1, <1>5 DEF IInv, RunningFed, UpTo
  <2> QED
    BY <2>2, <2>3
<1>13. OthersDown'
  BY <1>1, <1>8 DEF IInv, OthersDown
<1>14. BeforeStop'
  <2> SUFFICES ASSUME phase \in {"separate", "unified"}
               PROVE  /\ applied'["new"] = applied["new"]
                      /\ cursors'["backfill"] = cursors["backfill"]
                      /\ cursors'["continuation"] = cursors["continuation"]
                      /\ phase = "separate" => cursors'["unified"] = cursors["unified"]
    BY <1>5 DEF IInv, BeforeStop, Unused
  <2>1. s \in {"legacy", "basket", "unified"} /\ (phase = "separate" => s # "unified")
    BY <1>1, <1>5, RunningStreams
  <2>2. "new" \in Domains \ DomainsOf[s]
    BY <2>1 DEF Domains, DomainsOf
  <2> QED
    BY <1>1, <1>2, <2>1, <2>2 DEF Streams
<1>15. WhileStopped'
  <2> SUFFICES ASSUME phase \in {"stopped", "backfilled"} PROVE WhileStopped'
    BY <1>5 DEF WhileStopped
  <2>1. phase = "stopped" /\ s = "backfill"
    BY <1>1, <1>5, RunningStreams
  <2>2. applied'["legacy"] = applied["legacy"] /\ applied'["basket"] = applied["basket"]
    BY <1>2, <2>1 DEF DomainsOf, Domains
  <2>3. /\ cursors'["continuation"] = cursors["continuation"]
        /\ cursors'["unified"] = cursors["unified"]
        /\ cursors'["backfill"] = cursors["backfill"] \/ cursors'["backfill"] = b
        /\ position'["backfill"] = b /\ b <= boundary
    BY <1>1, <2>1 DEF Streams, LastOf
  <2> QED
    BY <1>5, <2>1, <2>2, <2>3 DEF IInv, WhileStopped, Unused, UpTo
<1>16. Continued'
  <2> SUFFICES ASSUME phase = "continued" PROVE Continued'
    BY <1>5 DEF Continued
  <2>1. s = "continuation"
    BY <1>1, <1>5, RunningStreams
  <2>2. boundary <= Resume("continuation") /\ boundary \in Nat
    BY ResumeIs DEF IInv, TypeOK, Continued, Unused
  <2> QED
    BY <1>1, <1>5, <1>11, <2>1, <2>2 DEF IInv, Continued, Unused
<1>17. BackupFits'
  <2> SUFFICES ASSUME backup.taken PROVE \A d \in Domains : IsPrefix(backup.applied[d], applied'[d])
    BY <1>5 DEF IInv, BackupFits, UpTo, Unused
  <2> TAKE d \in Domains
  <2>1. IsPrefix(backup.applied[d], applied[d])
    BY DEF IInv, BackupFits
  <2>2. backup.applied[d] \in Seq(Blocks) /\ applied[d] \in Seq(Blocks)
    BY DEF IInv, TypeOK, Databases
  <2> QED
    BY <1>4, <2>1, <2>2, PrefixOfAppend
<1>18. BackupTaken'
  BY <1>5 DEF IInv, BackupTaken
<1> QED
  BY <1>6, <1>7, <1>12, <1>13, <1>14, <1>15, <1>16, <1>17, <1>18 DEF IInv

-----------------------------------------------------------------------------
(***************************************************************************)
(* The steps that apply nothing.                                           *)
(***************************************************************************)
LEMMA StartStep ==
    ASSUME Parameters, IInv, NEW s \in Streams, Start(s)
    PROVE  IInv'
<1>1. /\ s \in Running /\ position[s] = Down
      /\ UNCHANGED <<output, applied, cursors, phase, joined, boundary, backup>>
  BY DEF Start, chain
<1>2. /\ position' \in [Streams -> Nat \cup {Down}] /\ position'[s] = Resume(s)
      /\ \A t \in Streams \ {s} : position'[t] = position[t]
  BY ResumeType DEF Start, IInv, TypeOK
<1>3. Running' = Running /\ \A t \in Streams : Resume(t)' = Resume(t)
  BY <1>1 DEF Running, Resume, FirstOf
<1>4. TypeOK' /\ NewStartsAt'
  BY <1>1, <1>2 DEF IInv, TypeOK, NewStartsAt
<1>5. Resume(s) \in Nat /\ phase \in Phases /\ Running \subseteq Streams
  BY ResumeType, RunningStreams DEF IInv, TypeOK
<1>6. RunningFed'
  <2> SUFFICES ASSUME NEW t \in Running, NEW d \in DomainsOf[t]
               PROVE  /\ UpTo(applied, d, Resume(t))
                      /\ position'[t] # Down =>
                            position'[t] >= Resume(t) /\ UpTo(applied, d, position'[t])
    BY <1>1, <1>3, <1>5 DEF RunningFed, UpTo
  <2>1. CASE t = s
    BY <1>2, <1>5, <2>1 DEF IInv, RunningFed
  <2>2. CASE t # s
    BY <1>2, <1>5, <2>2 DEF IInv, RunningFed
  <2> QED
    BY <2>1, <2>2
<1>7. OthersDown'
  BY <1>1, <1>2, <1>3 DEF IInv, OthersDown
<1>8. BeforeStop' /\ Continued' /\ BackupFits' /\ BackupTaken'
  BY <1>1 DEF IInv, BeforeStop, Continued, BackupFits, BackupTaken, Unused, UpTo
<1>9. WhileStopped'
  <2> SUFFICES ASSUME phase \in {"stopped", "backfilled"}
               PROVE  position'["backfill"] <= boundary \/ position'["backfill"] < FirstNew
    BY <1>1 DEF IInv, WhileStopped, Unused, UpTo
  <2>1. position["backfill"] <= boundary \/ position["backfill"] < FirstNew
    BY DEF IInv, WhileStopped
  <2>2. Resume("backfill") <= boundary \/ Resume("backfill") < FirstNew
    BY ResumeIs DEF IInv, WhileStopped, Parameters
  <2> QED
    BY <1>2, <2>1, <2>2 DEF Streams
<1> QED
  BY <1>4, <1>6, <1>7, <1>8, <1>9 DEF IInv

\* A crash keeps the invariant.
LEMMA CrashStep ==
    ASSUME Parameters, IInv, NEW s \in Streams, Crash(s)
    PROVE  IInv'
<1>1. UNCHANGED <<output, applied, cursors, phase, joined, boundary, backup>>
  BY DEF Crash, chain
<1>2. /\ position' \in [Streams -> Nat \cup {Down}] /\ position'[s] = Down
      /\ \A t \in Streams \ {s} : position'[t] = position[t]
  BY DEF Crash, IInv, TypeOK
<1>3. Running' = Running /\ \A t \in Streams : Resume(t)' = Resume(t)
  BY <1>1 DEF Running, Resume, FirstOf
<1>4. TypeOK' /\ NewStartsAt'
  BY <1>1, <1>2 DEF IInv, TypeOK, NewStartsAt
<1>5. Running \subseteq Streams
  BY RunningStreams DEF IInv, TypeOK
<1>6. RunningFed'
  <2> SUFFICES ASSUME NEW t \in Running, NEW d \in DomainsOf[t]
               PROVE  /\ UpTo(applied, d, Resume(t))
                      /\ position'[t] # Down =>
                            position'[t] >= Resume(t) /\ UpTo(applied, d, position'[t])
    BY <1>1, <1>3, <1>5 DEF RunningFed, UpTo
  <2> QED
    BY <1>2, <1>5 DEF IInv, RunningFed
<1>7. OthersDown'
  BY <1>1, <1>2, <1>3 DEF IInv, OthersDown
<1>8. BeforeStop' /\ Continued' /\ BackupFits' /\ BackupTaken'
  BY <1>1 DEF IInv, BeforeStop, Continued, BackupFits, BackupTaken, Unused, UpTo
<1>9. WhileStopped'
  <2> SUFFICES ASSUME phase \in {"stopped", "backfilled"}
               PROVE  position'["backfill"] <= boundary \/ position'["backfill"] < FirstNew
    BY <1>1 DEF IInv, WhileStopped, Unused, UpTo
  <2>1. position["backfill"] <= boundary \/ position["backfill"] < FirstNew
    BY DEF IInv, WhileStopped
  <2>2. Down < FirstNew
    BY DEF Down, Parameters
  <2> QED
    BY <1>2, <2>1, <2>2 DEF Streams
<1> QED
  BY <1>4, <1>6, <1>7, <1>8, <1>9 DEF IInv

-----------------------------------------------------------------------------
(***************************************************************************)
(* The operator's steps: each leaves the sinks stopped, and the domains up *)
(* to where the next sinks start.                                          *)
(***************************************************************************)
\* Before its first block the new domain has nothing to apply.
LEMMA NewIsEmpty ==
    ASSUME Parameters, IInv
    PROVE  UpTo([applied EXCEPT !["new"] = <<>>], "new", FirstNew - 1)
<1>1. {c \in output["new"] : c <= FirstNew - 1} = {}
  BY DEF IInv, TypeOK, NewStartsAt, Parameters, Blocks, Domains
<1>2. [applied EXCEPT !["new"] = <<>>]["new"] = <<>>
  BY DEF IInv, TypeOK, Domains
<1> QED
  BY <1>1, <1>2, SetOfEmpty DEF UpTo

\* Unifying the streams keeps the invariant.
LEMMA UnifyStep ==
    ASSUME Parameters, IInv, Unify
    PROVE  IInv'
<1>1. /\ phase = "separate" /\ cursors["legacy"] = cursors["basket"]
      /\ phase' = "unified" /\ joined' = cursors["legacy"] /\ position' = Stopped
      /\ UNCHANGED <<output, applied, cursors, boundary, backup>>
  BY DEF Unify, Aligned, chain
<1>2. TypeOK' /\ NewStartsAt'
  BY <1>1 DEF IInv, TypeOK, NewStartsAt, Stopped, Phases, Streams
<1>3. UpTo(applied, "legacy", cursors["legacy"]) /\ UpTo(applied, "basket", cursors["legacy"])
  <2>1. /\ "legacy" \in Running /\ "legacy" \in DomainsOf["legacy"]
        /\ "basket" \in Running /\ "basket" \in DomainsOf["basket"]
    BY <1>1 DEF Running, RunningIn, DomainsOf
  <2>2. Resume("legacy") = cursors["legacy"] /\ Resume("basket") = cursors["basket"]
    BY ResumeIs DEF IInv
  <2> QED
    BY <1>1, <2>1, <2>2 DEF IInv, RunningFed
<1>4. cursors["unified"] = 0 /\ cursors["backfill"] = 0 /\ cursors["continuation"] = 0
      /\ applied["new"] = <<>> /\ ~backup.taken
  BY <1>1 DEF IInv, BeforeStop, Unused
<1>5. Running' = {"unified"} /\ DomainsOf["unified"] = {"legacy", "basket"}
  BY <1>1 DEF Running, RunningIn, DomainsOf
<1>6. Resume("unified")' = cursors["legacy"]
  <2>1. Resume("unified")' = (joined' + 1) - 1
    BY <1>1, <1>4 DEF Resume, FirstOf
  <2> QED
    BY <1>1, <1>2, <2>1 DEF TypeOK
<1>7. RunningFed' /\ OthersDown'
  BY <1>1, <1>2, <1>3, <1>5, <1>6 DEF RunningFed, OthersDown, UpTo, Stopped, Streams
<1>8. BeforeStop' /\ WhileStopped' /\ Continued' /\ BackupFits' /\ BackupTaken'
  BY <1>1, <1>4 DEF BeforeStop, WhileStopped, Continued, BackupFits, BackupTaken, Unused
<1> QED
  BY <1>2, <1>7, <1>8 DEF IInv

\* In the phase "unified" the two domains are where the sink resumes.
LEMMA UnifiedFed ==
    ASSUME IInv, phase = "unified"
    PROVE  /\ \A d \in {"legacy", "basket"} : UpTo(applied, d, Resume("unified"))
           /\ Resume("unified") = IF cursors["unified"] = 0 THEN joined ELSE cursors["unified"]
           /\ cursors["backfill"] = 0 /\ cursors["continuation"] = 0 /\ applied["new"] = <<>>
<1>1. Running = {"unified"} /\ DomainsOf["unified"] = {"legacy", "basket"}
  BY DEF Running, RunningIn, DomainsOf
<1> QED
  BY <1>1, ResumeIs DEF IInv, RunningFed, BeforeStop, Unused

\* The backup keeps the invariant.
LEMMA BackUpStep ==
    ASSUME Parameters, IInv, BackUp
    PROVE  IInv'
<1>1. /\ phase = "unified"
      /\ backup' = [taken |-> TRUE, applied |-> applied, cursors |-> cursors]
      /\ UNCHANGED <<output, applied, cursors, position, phase, joined, boundary>>
  BY DEF BackUp, chain
<1>2. TypeOK' /\ NewStartsAt'
  BY <1>1 DEF IInv, TypeOK, NewStartsAt, Databases
<1>3. Running' = Running /\ \A t \in Streams : Resume(t)' = Resume(t)
  BY <1>1 DEF Running, Resume, FirstOf
<1>4. Running \subseteq Streams
  BY RunningStreams DEF IInv, TypeOK
<1>5. RunningFed' /\ OthersDown'
  BY <1>1, <1>3, <1>4 DEF IInv, RunningFed, OthersDown, UpTo
<1>6. BeforeStop' /\ WhileStopped' /\ Continued' /\ BackupTaken'
  BY <1>1 DEF IInv, BeforeStop, WhileStopped, Continued, BackupTaken, Unused
<1>7. BackupFits'
  <2>1. \A d \in Domains : IsPrefix(applied[d], applied[d])
    BY PrefixOfItself DEF IInv, TypeOK
  <2>2. /\ \A d \in {"legacy", "basket"} : UpTo(applied, d, Resume("unified"))
        /\ Resume("unified") = IF cursors["unified"] = 0 THEN joined ELSE cursors["unified"]
        /\ cursors["backfill"] = 0 /\ cursors["continuation"] = 0 /\ applied["new"] = <<>>
    BY <1>1, UnifiedFed
  <2>3. backup'.applied = applied /\ backup'.cursors = cursors
    BY <1>1
  <2> QED
    BY <1>1, <2>1, <2>2, <2>3 DEF BackupFits, Unused, UpTo
<1> QED
  BY <1>2, <1>5, <1>6, <1>7 DEF IInv

\* Stopping production keeps the invariant.
LEMMA StopProductionStep ==
    ASSUME Parameters, IInv, StopProduction
    PROVE  IInv'
<1>1. /\ phase = "unified" /\ backup.taken /\ cursors["unified"] # 0
      /\ phase' = "stopped" /\ boundary' = cursors["unified"] /\ position' = Stopped
      /\ UNCHANGED <<output, applied, cursors, joined, backup>>
  BY DEF StopProduction, chain
<1>2. TypeOK' /\ NewStartsAt'
  BY <1>1 DEF IInv, TypeOK, NewStartsAt, Stopped, Phases, Streams
<1>3. /\ UpTo(applied, "legacy", cursors["unified"]) /\ UpTo(applied, "basket", cursors["unified"])
      /\ cursors["backfill"] = 0 /\ cursors["continuation"] = 0 /\ applied["new"] = <<>>
  BY <1>1, UnifiedFed
<1>4. UpTo(applied, "new", FirstNew - 1)
  <2>1. [applied EXCEPT !["new"] = <<>>]["new"] = <<>>
    BY DEF IInv, TypeOK, Domains
  <2> QED
    BY <1>3, <2>1, NewIsEmpty DEF UpTo
<1>5. Running' = {"backfill"} /\ DomainsOf["backfill"] = {"new"}
  BY <1>1 DEF Running, RunningIn, DomainsOf
<1>6. Resume("backfill")' = FirstNew - 1
  BY <1>1, <1>3 DEF Resume, FirstOf
<1>7. RunningFed' /\ OthersDown'
  BY <1>1, <1>4, <1>5, <1>6 DEF RunningFed, OthersDown, UpTo, Stopped, Streams
<1>8. position'["backfill"] < FirstNew /\ cursors["backfill"] <= cursors["unified"]
  BY <1>1, <1>3 DEF Stopped, Down, Parameters, Streams, IInv, TypeOK
<1>9. BeforeStop' /\ WhileStopped' /\ Continued' /\ BackupTaken'
  BY <1>1, <1>3, <1>8 DEF BeforeStop, WhileStopped, Continued, BackupTaken, Unused, UpTo
<1>10. BackupFits'
  BY <1>1 DEF IInv, BackupFits, Unused, UpTo
<1> QED
  BY <1>2, <1>7, <1>9, <1>10 DEF IInv

\* The end of the backfill keeps the invariant.
LEMMA FinishBackfillStep ==
    ASSUME Parameters, IInv, FinishBackfill
    PROVE  IInv'
<1>1. /\ phase = "stopped" /\ position["backfill"] >= boundary
      /\ phase' = "backfilled" /\ position' = Stopped
      /\ UNCHANGED <<output, applied, cursors, joined, boundary, backup>>
  BY DEF FinishBackfill, BackfillDone, chain
<1>2. TypeOK' /\ NewStartsAt'
  BY <1>1 DEF IInv, TypeOK, NewStartsAt, Stopped, Phases, Streams
<1>3. UpTo(applied, "new", boundary)
  <2>1. "backfill" \in Running /\ "new" \in DomainsOf["backfill"]
    BY <1>1 DEF Running, RunningIn, DomainsOf
  <2>2. boundary \in Nat /\ position["backfill"] \in Nat /\ position["backfill"] # Down
    BY <1>1 DEF IInv, TypeOK, Down, Streams
  <2>3. UpTo(applied, "new", position["backfill"])
    BY <2>1, <2>2 DEF IInv, RunningFed
  <2>4. position["backfill"] = boundary \/ position["backfill"] < FirstNew
    BY <1>1, <2>2 DEF IInv, WhileStopped
  <2>5. output["new"] \subseteq Nat /\ \A c \in output["new"] : c >= FirstNew
    BY DEF IInv, TypeOK, NewStartsAt, Blocks, Domains, Parameters
  <2>6. {c \in output["new"] : c <= boundary} = {c \in output["new"] : c <= position["backfill"]}
    BY <1>1, <2>2, <2>4, <2>5 DEF Parameters
  <2> QED
    BY <2>3, <2>6 DEF UpTo
<1>4. Running' = {}
  BY <1>1 DEF Running, RunningIn
<1>5. RunningFed' /\ OthersDown'
  BY <1>1, <1>4 DEF RunningFed, OthersDown, Stopped
<1>6. position'["backfill"] < FirstNew
  BY <1>1 DEF Stopped, Down, Parameters, Streams
<1>7. BeforeStop' /\ WhileStopped' /\ Continued' /\ BackupTaken'
  BY <1>1, <1>3, <1>6 DEF IInv, BeforeStop, WhileStopped, Continued, BackupTaken, Unused, UpTo
<1>8. BackupFits'
  BY <1>1 DEF IInv, BackupFits, Unused, UpTo
<1> QED
  BY <1>2, <1>5, <1>7, <1>8 DEF IInv

\* Both ways to continue start after the boundary.
LEMMA ContinuedFed ==
    ASSUME Parameters, IInv, phase = "backfilled", phase' = "continued",
           UNCHANGED <<output, applied, joined, boundary, position, backup>>,
           cursors' \in [Streams -> Nat], cursors'["continuation"] \in {0, boundary}
    PROVE  IInv'
<1>1. TypeOK' /\ NewStartsAt'
  BY DEF IInv, TypeOK, NewStartsAt, Phases
<1>2. \A d \in Domains : UpTo(applied, d, boundary)
  BY DEF IInv, WhileStopped, Domains
<1>3. Running' = {"continuation"} /\ DomainsOf["continuation"] = Domains /\ Running = {}
  BY DEF Running, RunningIn, DomainsOf
<1>4. Resume("continuation")' = boundary
  <2>1. Resume("continuation")' = IF cursors'["continuation"] = 0 THEN (boundary' + 1) - 1
                                  ELSE cursors'["continuation"]
    BY DEF Resume, FirstOf
  <2> QED
    BY <2>1, <1>1 DEF TypeOK
<1>5. \A s \in Streams : position'[s] = Down
  BY <1>3 DEF IInv, OthersDown
<1>6. RunningFed' /\ OthersDown'
  BY <1>2, <1>3, <1>4, <1>5 DEF RunningFed, OthersDown, UpTo, Streams
<1>7. BeforeStop' /\ WhileStopped' /\ Continued' /\ BackupTaken'
  BY DEF IInv, TypeOK, BeforeStop, WhileStopped, Continued, BackupTaken, Unused
<1>8. BackupFits'
  BY DEF IInv, BackupFits, Unused, UpTo
<1> QED
  BY <1>1, <1>6, <1>7, <1>8 DEF IInv

\* Starting the continuation keeps the invariant, with or without reset stores.
LEMMA ContinueSteps ==
    ASSUME Parameters, IInv, Continue \/ ContinueReset
    PROVE  IInv'
<1>1. /\ phase = "backfilled" /\ phase' = "continued"
      /\ UNCHANGED <<output, applied, joined, boundary, position, backup>>
      /\ cursors' = cursors \/ cursors' = [cursors EXCEPT !["continuation"] = cursors["unified"]]
  BY DEF Continue, ContinueReset, chain
<1>2. cursors["continuation"] = 0 /\ cursors["unified"] = boundary
  BY <1>1 DEF IInv, WhileStopped, Unused
<1>3. cursors' \in [Streams -> Nat] /\ cursors'["continuation"] \in {0, boundary}
  BY <1>1, <1>2 DEF IInv, TypeOK, Streams
<1> QED
  BY <1>1, <1>3, ContinuedFed

\* A replay keeps the invariant.
LEMMA ReplayStep ==
    ASSUME Parameters, IInv, Replay
    PROVE  IInv'
<1>1. /\ phase \in {"stopped", "backfilled"}
      /\ phase' = "stopped" /\ position' = Stopped
      /\ applied' = [applied EXCEPT !["new"] = <<>>]
      /\ cursors' = [cursors EXCEPT !["backfill"] = 0]
      /\ UNCHANGED <<output, joined, boundary, backup>>
  BY DEF Replay, Cleaned, chain
<1>2. TypeOK' /\ NewStartsAt'
  <2>1. <<>> \in Seq(Blocks)
    OBVIOUS
  <2>2. applied' \in [Domains -> Seq(Blocks)]
    BY <1>1, <2>1 DEF IInv, TypeOK
  <2>3. cursors' \in [Streams -> Nat] /\ position' \in [Streams -> Nat \cup {Down}]
    BY <1>1 DEF IInv, TypeOK, Stopped
  <2>4. phase' \in Phases
    BY <1>1 DEF Phases
  <2> QED
    BY <1>1, <2>2, <2>3, <2>4 DEF IInv, TypeOK, NewStartsAt
<1>3. /\ applied'["legacy"] = applied["legacy"] /\ applied'["basket"] = applied["basket"]
      /\ applied'["new"] = <<>>
      /\ cursors'["backfill"] = 0 /\ cursors'["unified"] = cursors["unified"]
      /\ cursors'["continuation"] = cursors["continuation"]
  BY <1>1 DEF IInv, TypeOK, Domains, Streams
<1>4. UpTo(applied', "new", FirstNew - 1)
  BY <1>1, NewIsEmpty DEF UpTo
<1>5. Running' = {"backfill"} /\ DomainsOf["backfill"] = {"new"}
  BY <1>1 DEF Running, RunningIn, DomainsOf
<1>6. Resume("backfill")' = FirstNew - 1
  BY <1>1, <1>3 DEF Resume, FirstOf
<1>7. RunningFed' /\ OthersDown'
  BY <1>1, <1>4, <1>5, <1>6 DEF RunningFed, OthersDown, UpTo, Stopped, Streams
<1>8. position'["backfill"] < FirstNew
  BY <1>1 DEF Stopped, Down, Parameters, Streams
<1>9. BeforeStop' /\ Continued' /\ BackupTaken'
  BY <1>1 DEF IInv, BeforeStop, Continued, BackupTaken
<1>10. WhileStopped'
  BY <1>1, <1>3, <1>8 DEF IInv, TypeOK, WhileStopped, Unused, UpTo
<1>11. BackupFits'
  <2> SUFFICES ASSUME backup.taken, NEW d \in Domains PROVE IsPrefix(backup.applied[d], applied'[d])
    BY <1>1 DEF IInv, BackupFits, Unused, UpTo
  <2>1. IsPrefix(backup.applied[d], applied[d]) /\ backup.applied["new"] = <<>>
    BY DEF IInv, BackupFits
  <2>2. CASE d = "new"
    <3>1. <<>> \in Seq(Blocks)
      OBVIOUS
    <3>2. IsPrefix(<<>>, <<>>)
      BY <3>1, PrefixOfItself
    <3> QED
      BY <1>3, <2>1, <2>2, <3>2
  <2>3. CASE d # "new"
    BY <1>1, <2>1, <2>3 DEF IInv, TypeOK
  <2> QED
    BY <2>2, <2>3
<1> QED
  BY <1>2, <1>7, <1>9, <1>10, <1>11 DEF IInv

\* Restoring the backup keeps the invariant.
LEMMA RestoreBackupStep ==
    ASSUME Parameters, IInv, RestoreBackup
    PROVE  IInv'
<1>1. /\ phase \in {"stopped", "backfilled", "continued"}
      /\ phase' = "unified" /\ position' = Stopped
      /\ applied' = backup.applied /\ cursors' = backup.cursors
      /\ UNCHANGED <<output, joined, boundary, backup>>
  BY DEF RestoreBackup, RestoredPhase, chain
<1>2. TypeOK' /\ NewStartsAt'
  BY <1>1 DEF IInv, TypeOK, NewStartsAt, Stopped, Phases, Streams, Databases
<1>3. /\ backup.taken /\ backup.applied["new"] = <<>>
      /\ backup.cursors["backfill"] = 0 /\ backup.cursors["continuation"] = 0
      /\ \A d \in {"legacy", "basket"} :
            UpTo(backup.applied, d,
                 IF backup.cursors["unified"] = 0 THEN joined ELSE backup.cursors["unified"])
  BY <1>1 DEF IInv, BackupTaken, BackupFits, Unused
<1>4. Running' = {"unified"} /\ DomainsOf["unified"] = {"legacy", "basket"}
  BY <1>1 DEF Running, RunningIn, DomainsOf
<1>5. Resume("unified")'
        = IF backup.cursors["unified"] = 0 THEN joined ELSE backup.cursors["unified"]
  <2>1. Resume("unified")' = IF cursors'["unified"] = 0 THEN (joined' + 1) - 1
                             ELSE cursors'["unified"]
    BY DEF Resume, FirstOf
  <2>2. (joined' + 1) - 1 = joined
    BY <1>1 DEF IInv, TypeOK
  <2> QED
    BY <1>1, <2>1, <2>2
<1>6. RunningFed' /\ OthersDown'
  BY <1>1, <1>3, <1>4, <1>5 DEF RunningFed, OthersDown, UpTo, Stopped, Streams
<1>7. BeforeStop' /\ WhileStopped' /\ Continued' /\ BackupTaken'
  BY <1>1, <1>3 DEF BeforeStop, WhileStopped, Continued, BackupTaken, Unused
<1>8. BackupFits'
  <2>1. \A d \in Domains : IsPrefix(backup.applied[d], backup.applied[d])
    BY PrefixOfItself DEF IInv, TypeOK, Databases
  <2> QED
    BY <1>1, <1>3, <2>1 DEF BackupFits, Unused, UpTo
<1> QED
  BY <1>2, <1>6, <1>7, <1>8 DEF IInv

\* The invariant is inductive.
LEMMA NextIInv == Parameters /\ IInv /\ [Next]_vars => IInv'
<1> SUFFICES ASSUME Parameters, IInv, [Next]_vars PROVE IInv'
  OBVIOUS
<1>1. ASSUME NEW s \in Streams, Start(s) \/ Process(s) \/ Crash(s)
      PROVE  IInv'
  BY <1>1, StartStep, ProcessStep, CrashStep
<1>2. CASE Operate
  BY <1>2, UnifyStep, BackUpStep, StopProductionStep, FinishBackfillStep, ContinueSteps,
     ReplayStep, RestoreBackupStep DEF Operate
<1>3. CASE UNCHANGED vars
  <2>1. UNCHANGED <<output, applied, cursors, position, phase, joined, boundary, backup>>
    BY <1>3 DEF vars, chain
  <2>2. TypeOK' /\ NewStartsAt'
    BY <2>1 DEF IInv, TypeOK, NewStartsAt
  <2>3. Running' = Running /\ \A t \in Streams : Resume(t)' = Resume(t)
    BY <2>1 DEF Running, Resume, FirstOf
  <2>4. Running \subseteq Streams
    BY RunningStreams DEF IInv, TypeOK
  <2>5. RunningFed' /\ OthersDown'
    BY <2>1, <2>3, <2>4 DEF IInv, RunningFed, OthersDown, UpTo
  <2>6. BeforeStop' /\ WhileStopped' /\ Continued' /\ BackupFits' /\ BackupTaken'
    BY <2>1 DEF IInv, BeforeStop, WhileStopped, Continued, BackupFits, BackupTaken, Unused, UpTo
  <2> QED
    BY <2>2, <2>5, <2>6 DEF IInv
<1> QED
  BY <1>1, <1>2, <1>3 DEF Next

-----------------------------------------------------------------------------
(***************************************************************************)
(* Every step is one of the abstract feed: a processed block is the next   *)
(* one of the domains it has changes of, and a replay or a restored backup *)
(* takes domains back.                                                     *)
(***************************************************************************)
LEMMA StepFeeds ==
    Parameters /\ IInv /\ [Next]_vars => [Feeds!Next]_<<output, applied>>
<1> SUFFICES ASSUME Parameters, IInv, [Next]_vars
             PROVE  Feeds!Next \/ UNCHANGED <<output, applied>>
  OBVIOUS
<1>1. ASSUME NEW s \in Streams, Process(s)
      PROVE  Feeds!Next
  <2>1. /\ Touched(s) \in SUBSET Domains
        /\ \A d \in Touched(s) : Feeds!Left(d) # {} /\ Ahead(s) = Min(Feeds!Left(d))
        /\ applied' = [d \in Domains |-> IF d \in Touched(s) THEN Append(applied[d], Ahead(s))
                                         ELSE applied[d]]
        /\ UNCHANGED chain
    BY <1>1, ProcessFacts
  <2>2. applied' = [d \in Domains |->
                      IF d \in Touched(s) THEN Append(applied[d], Min(Feeds!Left(d)))
                      ELSE applied[d]]
    BY <2>1
  <2>3. Feeds!Feed(Touched(s))
    BY <2>1, <2>2 DEF Feeds!Feed, Feeds!Min, Min, chain
  <2> QED
    BY <2>1, <2>3 DEF Feeds!Next
<1>2. ASSUME UNCHANGED output, \A d \in Domains : IsPrefix(applied'[d], applied[d])
      PROVE  Feeds!Next
  BY <1>2 DEF Feeds!Next, Feeds!Rewind, Feeds!IsPrefix, IsPrefix
<1>3. CASE Replay
  <2>1. applied' = [applied EXCEPT !["new"] = <<>>] /\ UNCHANGED output
    BY <1>3 DEF Replay, Cleaned, chain
  <2>2. \A d \in Domains : applied'[d] = <<>> \/ applied'[d] = applied[d]
    BY <2>1 DEF IInv, TypeOK
  <2>3. \A d \in Domains : IsPrefix(applied'[d], applied[d])
    BY <2>2, PrefixOfItself DEF IInv, TypeOK
  <2> QED
    BY <1>2, <2>1, <2>3
<1>4. CASE RestoreBackup
  <2>1. applied' = backup.applied /\ UNCHANGED output /\ backup.taken
    BY <1>4 DEF RestoreBackup, chain, IInv, BackupTaken
  <2> QED
    BY <1>2, <2>1 DEF IInv, BackupFits
<1>5. ASSUME NEW s \in Streams, Start(s) \/ Crash(s)
      PROVE  UNCHANGED <<output, applied>>
  BY <1>5 DEF Start, Crash, chain
<1>6. CASE Unify \/ BackUp \/ StopProduction \/ FinishBackfill \/ Continue \/ ContinueReset
  BY <1>6 DEF Unify, BackUp, StopProduction, FinishBackfill, Continue, ContinueReset, chain
<1>7. CASE UNCHANGED vars
  BY <1>7 DEF vars, chain
<1> QED
  BY <1>1, <1>3, <1>4, <1>5, <1>6, <1>7 DEF Next, Operate

\* The initial states are those of the ordered feed.
LEMMA InitFeeds == Init => Feeds!Init
BY DEF Init, Feeds!Init

\* The invariant holds of every reachable state of the handoff.
THEOREM Invariance == Spec => []IInv
<1>0. Parameters
  BY HandoffAssumption DEF Parameters
<1>1. Init => IInv
  BY <1>0, InitIInv
<1>2. IInv /\ [Next]_vars => IInv'
  BY <1>0, NextIInv
<1> QED
  BY <1>1, <1>2, PTL DEF Spec

(***************************************************************************)
(* For every chain and any number of faults: the sinks and the operator    *)
(* together implement a feed in which every block's changes are applied    *)
(* once and in order, and recoveries only take it back.                    *)
(***************************************************************************)
THEOREM Implements == Spec => FeedsInOrder
<1>0. Parameters
  BY HandoffAssumption DEF Parameters
<1>1. IInv /\ [Next]_vars => [Feeds!Next]_<<output, applied>>
  BY <1>0, StepFeeds
<1>2. Spec => []IInv
  BY Invariance
<1> QED
  BY <1>1, <1>2, InitFeeds, PTL DEF Spec, FeedsInOrder, Feeds!Spec

-----------------------------------------------------------------------------
(***************************************************************************)
(* Pools and indexes.  A row's index is its number among the domain's      *)
(* blocks that the stores have been built from; the rows before those have *)
(* one that the reset made of the block's number.                          *)
(***************************************************************************)
Rows == ToSet(applied["new"])

IndexOf(b) == IF b < known THEN b * 1000000 ELSE IndexAt(known, b)

Numbered ==
    /\ known \in Nat /\ indexes \in [Blocks -> Nat]
    /\ phase # "continued" => known = FirstNew
    /\ phase = "continued" => known = FirstNew \/ known = boundary + 1
    /\ phase = "continued" => \A b \in Rows \cap pools : known <= b
    /\ \A b \in Rows : indexes[b] = IndexOf(b)

\* The new domain has not as many blocks as a block's number has millionths.
FewerThanRebased == Horizon < 1000000 * FirstNew

\* The rows are those of blocks after the first new one.
LEMMA RowsAreBlocks ==
    ASSUME Parameters, IInv
    PROVE  /\ Rows \subseteq Blocks /\ Blocks \subseteq Nat
           /\ \A b \in Rows : b \in output["new"] /\ b >= FirstNew
<1>1. applied["new"] \in Seq(Blocks)
  BY DEF IInv, TypeOK, Domains
<1>2. Rows \subseteq Blocks
  BY <1>1 DEF Rows, ToSet
<1>3. Blocks \subseteq Nat
  BY DEF Blocks, Parameters
<1>4. Rows \subseteq output["new"]
  <2>1. CASE phase \in {"separate", "unified"}
    BY <2>1, SetOfEmpty DEF IInv, BeforeStop, Rows
  <2>2. CASE phase = "stopped"
    <3>1. "backfill" \in Running /\ "new" \in DomainsOf["backfill"]
      BY <2>2 DEF Running, RunningIn, DomainsOf
    <3> QED
      BY <3>1 DEF IInv, RunningFed, UpTo, Rows
  <2>3. CASE phase = "backfilled"
    BY <2>3 DEF IInv, WhileStopped, UpTo, Rows
  <2>4. CASE phase = "continued"
    <3>1. "continuation" \in Running /\ "new" \in DomainsOf["continuation"]
      BY <2>4 DEF Running, RunningIn, DomainsOf, Domains
    <3> QED
      BY <3>1 DEF IInv, RunningFed, UpTo, Rows
  <2> QED
    BY <2>1, <2>2, <2>3, <2>4 DEF IInv, TypeOK, Phases
<1> QED
  BY <1>2, <1>3, <1>4 DEF IInv, NewStartsAt

\* The count of blocks up to one grows from block to block within the horizon.
LEMMA IndexAtFacts ==
    ASSUME Parameters, IInv, NEW from \in Nat, NEW b \in output["new"], from <= b
    PROVE  /\ IndexAt(from, b) \in Nat \ {0} /\ IndexAt(from, b) <= Horizon
           /\ \A c \in output["new"] : b < c => IndexAt(from, b) < IndexAt(from, c)
<1> DEFINE Members(c) == {x \in output["new"] : from <= x /\ x <= c}
<1>1. output["new"] \subseteq 1..Horizon /\ Horizon \in Nat
  <2>1. Blocks = 1..Horizon
    BY DEF Blocks
  <2>2. output["new"] \in SUBSET Blocks
    BY DEF IInv, TypeOK, Domains
  <2> QED
    BY <2>1, <2>2 DEF Parameters
<1>2. IsFiniteSet(1..Horizon) /\ Cardinality(1..Horizon) = Horizon
  BY <1>1, FS_Interval
<1>3. \A c : /\ IsFiniteSet(Members(c)) /\ Cardinality(Members(c)) \in Nat
             /\ Cardinality(Members(c)) <= Horizon
  <2> TAKE c
  <2>1. Members(c) \in SUBSET (1..Horizon)
    BY <1>1
  <2> HIDE DEF Members
  <2> QED
    BY <1>2, <2>1, FS_Subset, FS_CardinalityType
<1>4. Cardinality(Members(b)) # 0
  <2>1. b \in Members(b)
    BY <1>1
  <2> HIDE DEF Members
  <2> QED
    BY <1>3, <2>1, FS_EmptySet
<1>5. ASSUME NEW c \in output["new"], b < c
      PROVE  Cardinality(Members(b)) < Cardinality(Members(c))
  <2>1. Members(b) \in SUBSET Members(c) /\ c \in Members(c) /\ c \notin Members(b)
    BY <1>1, <1>5
  <2> HIDE DEF Members
  <2>2. /\ Cardinality(Members(b)) <= Cardinality(Members(c))
        /\ Cardinality(Members(c)) # Cardinality(Members(b))
    BY <1>3, <2>1, FS_Subset
  <2> QED
    BY <1>3, <2>2
<1> QED
  BY <1>3, <1>4, <1>5 DEF IndexAt

\* The numbering holds at first.
LEMMA InitNumbered == Parameters /\ Init => Numbered
BY SetOfEmpty DEF Init, Numbered, Parameters, Rows, Domains, Blocks

\* Processing a block gives its row the next number of the stores.
LEMMA ProcessNumbered ==
    ASSUME Parameters, IInv, Numbered, NEW s \in Streams, Process(s)
    PROVE  Numbered'
<1> DEFINE b == Ahead(s)
<1>1. /\ s \in Running /\ position[s] \in Nat /\ b \in Nat
      /\ applied' = [d \in Domains |-> IF d \in Touched(s) THEN Append(applied[d], b)
                                       ELSE applied[d]]
      /\ \A d \in Touched(s) : b \in Blocks
      /\ UNCHANGED <<chain, phase, boundary, known>>
      /\ Touched(s) \in SUBSET Domains
  BY ProcessFacts
<1>2. /\ indexes' = IF "new" \in Touched(s) THEN [indexes EXCEPT ![b] = IndexAt(known, b)]
                    ELSE indexes
      /\ b = position[s] + 1
  BY DEF Process, Touched, Ahead
<1>3. UNCHANGED <<output, pools>>
  BY <1>1 DEF chain
<1> HIDE DEF b
<1>4. \A c : IndexOf(c)' = IndexOf(c)
  BY <1>1, <1>3 DEF IndexOf, IndexAt
<1>5. applied["new"] \in Seq(Blocks) /\ "new" \in Domains
  BY DEF IInv, TypeOK, Domains
<1>6. CASE "new" \notin Touched(s)
  <2>1. Rows' = Rows /\ indexes' = indexes
    BY <1>1, <1>2, <1>5, <1>6 DEF Rows
  <2> QED
    BY <1>1, <1>3, <1>4, <2>1 DEF Numbered
<1>7. CASE "new" \in Touched(s)
  <2>1. Rows' = Rows \cup {b} /\ b \in Blocks
    BY <1>1, <1>5, <1>7, SetOfAppend DEF Rows
  <2>2. b \in output["new"] /\ b >= FirstNew /\ "new" \in DomainsOf[s]
    BY <1>2, <1>7 DEF Touched, Ahead, b, IInv, NewStartsAt
  <2>3. b >= known
    <3>1. CASE phase = "continued"
      <4>1. s = "continuation"
        BY <1>1, <3>1, RunningStreams DEF IInv, TypeOK
      <4>2. position[s] >= Resume(s)
        BY <1>1, <2>2 DEF IInv, RunningFed, Down
      <4>3. Resume("continuation") >= boundary /\ boundary \in Nat /\ Resume("continuation") \in Nat
        BY <3>1, ResumeIs DEF IInv, TypeOK, Continued, Unused, Streams
      <4> QED
        BY <1>1, <1>2, <2>2, <3>1, <4>1, <4>2, <4>3 DEF Numbered
    <3>2. CASE phase # "continued"
      BY <2>2, <3>2 DEF Numbered
    <3> QED
      BY <3>1, <3>2
  <2>4. known \in Nat
    BY DEF Numbered
  <2>5. b \notin Rows
    <3>1. Rows = {c \in output["new"] : c <= position[s]}
      BY <1>1, <2>2 DEF IInv, RunningFed, UpTo, Down, Rows
    <3> QED
      BY <1>1, <1>2, <3>1
  <2>6. IndexAt(known, b) \in Nat /\ IndexOf(b) = IndexAt(known, b)
    BY <1>1, <2>2, <2>3, <2>4, IndexAtFacts DEF IndexOf
  <2>7. indexes' \in [Blocks -> Nat] /\ indexes'[b] = IndexAt(known, b)
        /\ \A c \in Blocks \ {b} : indexes'[c] = indexes[c]
    BY <1>2, <1>7, <2>1, <2>6 DEF Numbered
  <2>8. \A c \in Rows' : indexes'[c] = IndexOf(c)'
    BY <1>4, <2>1, <2>5, <2>6, <2>7, RowsAreBlocks DEF Numbered
  <2>9. phase = "continued" => \A c \in Rows' \cap pools : known <= c
    BY <2>1, <2>3 DEF Numbered
  <2> QED
    BY <1>1, <1>3, <2>4, <2>7, <2>8, <2>9 DEF Numbered
<1> QED
  BY <1>6, <1>7

\* A reset of the stores renumbers the rows by block and counts anew after the boundary.
LEMMA ContinueResetNumbered ==
    ASSUME Parameters, IInv, Numbered, ContinueReset
    PROVE  Numbered'
<1>1. /\ phase = "backfilled" /\ phase' = "continued" /\ known' = boundary + 1
      /\ ResetIsSafe /\ indexes' = [b \in Blocks |-> Rebased(b)]
      /\ UNCHANGED <<output, pools, applied, boundary>>
  BY DEF ContinueReset, chain
<1>2. known = FirstNew /\ boundary \in Nat /\ FirstNew \in Nat
  BY <1>1 DEF Numbered, IInv, TypeOK, Parameters
<1>3. Rows' = Rows /\ Rows \cap pools = {}
  BY <1>1 DEF Rows, ResetIsSafe
<1>4. ASSUME NEW b \in Rows
      PROVE  b <= boundary /\ indexes'[b] = b * 1000000
  <2>1. b \in output["new"] /\ b >= FirstNew /\ b \in Blocks /\ b \in Nat
    BY RowsAreBlocks
  <2>2. b <= boundary
    BY <1>1 DEF IInv, WhileStopped, UpTo, Rows
  <2>3. indexes[b] = IndexAt(FirstNew, b)
    BY <1>2, <2>1 DEF Numbered, IndexOf
  <2>4. indexes[b] # 0
    BY <1>2, <2>1, <2>3, IndexAtFacts
  <2> QED
    BY <1>1, <2>1, <2>2, <2>4 DEF Rebased
<1>5. indexes' \in [Blocks -> Nat]
  BY <1>1, RowsAreBlocks DEF Rebased
<1>6. ASSUME NEW b \in Rows
      PROVE  IndexOf(b)' = b * 1000000
  <2>1. b \in Nat /\ b <= boundary
    BY <1>4, RowsAreBlocks
  <2>2. b < known'
    BY <1>1, <1>2, <2>1
  <2> QED
    BY <2>2, SMT DEF IndexOf
<1> QED
  BY <1>1, <1>2, <1>3, <1>4, <1>5, <1>6 DEF Numbered

\* The numbering is inductive.
LEMMA NextNumbered == Parameters /\ IInv /\ Numbered /\ [Next]_vars => Numbered'
<1> SUFFICES ASSUME Parameters, IInv, Numbered, [Next]_vars PROVE Numbered'
  OBVIOUS
<1>1. ASSUME UNCHANGED <<output, pools, applied, indexes, known>>,
             phase' # "continued" => phase # "continued",
             phase' = "continued" => UNCHANGED boundary
      PROVE  Numbered'
  <2>1. Rows' = Rows /\ \A b : IndexOf(b)' = IndexOf(b)
    BY <1>1 DEF Rows, IndexOf, IndexAt
  <2>2. known = FirstNew => \A b \in Rows : known <= b
    BY RowsAreBlocks
  <2> QED
    BY <1>1, <2>1, <2>2 DEF Numbered
<1>2. ASSUME applied'["new"] = <<>>, known' = FirstNew, phase' # "continued",
             indexes' = [b \in Blocks |-> 0]
      PROVE  Numbered'
  <2>1. Rows' = {}
    BY <1>2, SetOfEmpty DEF Rows
  <2> QED
    BY <1>2, <2>1 DEF Numbered, Parameters
<1>3. ASSUME NEW s \in Streams, Start(s) \/ Crash(s)
      PROVE  Numbered'
  BY <1>1, <1>3 DEF Start, Crash, chain
<1>4. ASSUME NEW s \in Streams, Process(s)
      PROVE  Numbered'
  BY <1>4, ProcessNumbered
<1>5. CASE Unify \/ BackUp \/ StopProduction \/ FinishBackfill \/ Continue
  BY <1>1, <1>5 DEF Unify, BackUp, StopProduction, FinishBackfill, Continue, chain
<1>6. CASE ContinueReset
  BY <1>6, ContinueResetNumbered
<1>7. CASE Replay
  <2>1. /\ phase \in {"stopped", "backfilled"} /\ phase' = "stopped" /\ known' = known
        /\ applied' = [applied EXCEPT !["new"] = <<>>] /\ indexes' = [b \in Blocks |-> 0]
    BY <1>7 DEF Replay, Cleaned
  <2>2. applied'["new"] = <<>>
    BY <2>1 DEF IInv, TypeOK, Domains
  <2> QED
    BY <1>2, <2>1, <2>2 DEF Numbered
<1>8. CASE RestoreBackup
  <2>1. /\ phase \in {"stopped", "backfilled", "continued"} /\ phase' = "unified"
        /\ known' = FirstNew /\ applied' = backup.applied /\ indexes' = [b \in Blocks |-> 0]
    BY <1>8 DEF RestoreBackup, RestoredPhase
  <2>2. backup.applied["new"] = <<>>
    BY <2>1 DEF IInv, BackupTaken, BackupFits
  <2> QED
    BY <1>2, <2>1, <2>2
<1>9. CASE UNCHANGED vars
  BY <1>1, <1>9 DEF vars, chain
<1> QED
  BY <1>3, <1>4, <1>5, <1>6, <1>7, <1>8, <1>9 DEF Next, Operate

\* Rows numbered so share no index, and the stores know the pools that have rows.
LEMMA NumberedFits ==
    ASSUME Parameters, FewerThanRebased, IInv, Numbered
    PROVE  StoresFitTables
<1>1. /\ Rows \subseteq Blocks /\ Blocks \subseteq Nat /\ known \in Nat
      /\ \A b \in Rows : b \in output["new"] /\ b >= FirstNew /\ indexes[b] = IndexOf(b)
  BY RowsAreBlocks DEF Numbered
<1>2. ASSUME NEW b \in Rows, NEW c \in Rows, b < c
      PROVE  indexes[b] # indexes[c]
  <2>1. b \in Nat /\ c \in Nat /\ indexes[b] = IndexOf(b) /\ indexes[c] = IndexOf(c)
    BY <1>1
  <2>2. CASE c < known
    <3>1. b < known
      BY <1>1, <1>2, <2>1, <2>2
    <3>2. indexes[b] = b * 1000000 /\ indexes[c] = c * 1000000
      BY <2>1, <2>2, <3>1, SMT DEF IndexOf
    <3> QED
      BY <1>2, <2>1, <3>2, SMT
  <2>3. CASE known <= b
    BY <1>1, <1>2, <2>1, <2>3, IndexAtFacts DEF IndexOf
  <2>4. CASE b < known /\ known <= c
    <3>1. indexes[b] = b * 1000000 /\ indexes[c] = IndexAt(known, c)
      BY <1>1, <2>1, <2>4 DEF IndexOf
    <3>2. IndexAt(known, c) \in Nat /\ IndexAt(known, c) <= Horizon
      BY <1>1, <2>4, IndexAtFacts
    <3>3. b >= FirstNew
      BY <1>1
    <3> QED
      BY <2>1, <3>1, <3>2, <3>3 DEF Parameters, FewerThanRebased
  <2> QED
    BY <1>1, <2>1, <2>2, <2>3, <2>4
<1>3. ASSUME NEW b \in Rows, NEW c \in Rows, indexes[b] = indexes[c]
      PROVE  b = c
  <2>1. b \in Nat /\ c \in Nat
    BY <1>1
  <2> QED
    BY <1>2, <1>3, <2>1
<1>4. phase = "continued" => \A b \in Rows \cap pools : known <= b
  BY DEF Numbered
<1> QED
  BY <1>3, <1>4 DEF StoresFitTables, Rows

(***************************************************************************)
(* For every chain with fewer blocks than a million times FirstNew, the    *)
(* first rebased index, and any number of faults: a continuation knows the *)
(* pools whose rows are in the tables, and no two rows have one index,     *)
(* whether or not the stores were reset at the boundary.                   *)
(***************************************************************************)
THEOREM StoresAlwaysFit ==
    ASSUME FewerThanRebased
    PROVE  Spec => []StoresFitTables
<1>0. Parameters
  BY HandoffAssumption DEF Parameters
<1>1. Init => Numbered
  BY <1>0, InitNumbered
<1>2. IInv /\ Numbered /\ [Next]_vars => Numbered'
  BY <1>0, NextNumbered
<1>3. Spec => []IInv
  BY Invariance
<1>4. IInv /\ Numbered => StoresFitTables
  BY <1>0, FewerThanRebased, NumberedFits
<1> QED
  BY <1>1, <1>2, <1>3, <1>4, PTL DEF Spec

-----------------------------------------------------------------------------
(***************************************************************************)
(* The releases.  Every package is well-formed; its sink has begun and     *)
(* reads all that was served; and as long as an unbound domain is not out, *)
(* production still has the sink it started with.                          *)
(***************************************************************************)
UnboundIsFirst ==
    \A k \in Kinds \ Binding : Final[k] \notin Names(package) =>
        \E p \in Production : package.sink = p.sink

PackageInv ==
    /\ IsPackage(package)
    /\ cursor \in Nat /\ cursor >= 1
    /\ UnboundIsFirst
    /\ SwitchIsSeamless

\* The indexes of the binaries that a package's modules use.
LEMMA UsedFacts ==
    ASSUME NEW p, IsPackage(p)
    PROVE  /\ IsFiniteSet(UsedBinaries(p)) /\ UsedBinaries(p) \subseteq DOMAIN p.binaries
           /\ DOMAIN p.binaries = 1..Len(p.binaries) /\ Len(p.binaries) \in Nat
           /\ Cardinality(UsedBinaries(p)) \in Nat
<1>1. DOMAIN p.binaries = 1..Len(p.binaries) /\ Len(p.binaries) \in Nat
  BY DEF IsPackage
<1>2. UsedBinaries(p) \subseteq DOMAIN p.binaries
  BY DEF UsedBinaries, IsPackage
<1>3. IsFiniteSet(1..Len(p.binaries))
  BY <1>1, FS_Interval
<1>4. IsFiniteSet(UsedBinaries(p))
  BY <1>1, <1>2, <1>3, FS_Subset
<1> QED
  BY <1>1, <1>2, <1>4, FS_CardinalityType

\* Every number of a finite set has a place of its own.
LEMMA PlacesAreOwn ==
    ASSUME NEW S, S \subseteq Nat, IsFiniteSet(S), NEW i \in S
    PROVE  /\ Place(S, i) \in 1..Cardinality(S)
           /\ \A j \in S : Place(S, j) = Place(S, i) => j = i
<1> DEFINE NotAfter(j) == {l \in S : l <= j}
<1>1. ASSUME NEW j \in S
      PROVE  IsFiniteSet(NotAfter(j)) /\ Cardinality(NotAfter(j)) <= Cardinality(S)
  BY FS_Subset
<1>2. ASSUME NEW j \in S, NEW l \in S, l < j
      PROVE  Cardinality(NotAfter(l)) < Cardinality(NotAfter(j))
  <2>a. j \in Nat /\ l \in Nat
    OBVIOUS
  <2>1. NotAfter(l) \subseteq NotAfter(j) /\ j \in NotAfter(j) /\ j \notin NotAfter(l)
    <3>1. ASSUME NEW x \in NotAfter(l) PROVE x \in NotAfter(j)
      <4>1. x \in S /\ x \in Nat /\ x <= l
        OBVIOUS
      <4> QED
        BY <1>2, <2>a, <4>1
    <3>2. j \in NotAfter(j)
      BY <2>a
    <3>3. ~ (j <= l)
      BY <1>2, <2>a
    <3> QED
      BY <3>1, <3>2, <3>3
  <2>2. NotAfter(l) # NotAfter(j)
    BY <2>1
  <2>3. /\ Cardinality(NotAfter(l)) <= Cardinality(NotAfter(j))
        /\ Cardinality(NotAfter(l)) # Cardinality(NotAfter(j))
    BY <1>1, <2>1, <2>2, FS_Subset
  <2>4. Cardinality(NotAfter(l)) \in Nat /\ Cardinality(NotAfter(j)) \in Nat
    BY <1>1, FS_CardinalityType
  <2> QED
    BY <2>3, <2>4
<1>3. \A j \in S : Cardinality(NotAfter(j)) \in Nat
  BY <1>1, FS_CardinalityType
<1>4. i \in NotAfter(i)
  OBVIOUS
<1>5. Cardinality(NotAfter(i)) # 0
  BY <1>1, <1>4, FS_EmptySet
<1>6. \A j \in S : Place(S, j) = Cardinality(NotAfter(j))
  BY DEF Place
<1>7. Cardinality(S) \in Nat
  BY FS_CardinalityType
<1> HIDE DEF NotAfter
<1>8. \A j \in S : Cardinality(NotAfter(j)) = Cardinality(NotAfter(i)) => j = i
  <2> TAKE j \in S
  <2>1. i \in Nat /\ j \in Nat
    OBVIOUS
  <2>2. i < j => Cardinality(NotAfter(i)) < Cardinality(NotAfter(j))
    BY <1>2
  <2>3. j < i => Cardinality(NotAfter(j)) < Cardinality(NotAfter(i))
    BY <1>2
  <2> QED
    BY <1>3, <2>1, <2>2, <2>3
<1>9. Place(S, i) \in 1..Cardinality(S)
  BY <1>1, <1>3, <1>5, <1>6, <1>7
<1> QED
  BY <1>6, <1>8, <1>9

\* The collected binaries are found at their places.
LEMMA CollectedFacts ==
    ASSUME NEW p, NEW S, S \subseteq Nat, IsFiniteSet(S)
    PROVE  /\ Cardinality(S) \in Nat /\ Len(Collected(p, S)) = Cardinality(S)
           /\ Collected(p, S) \in Seq(Range(Collected(p, S)))
           /\ \A i \in S : /\ Place(S, i) \in 1..Cardinality(S)
                           /\ Collected(p, S)[Place(S, i)] = p.binaries[i]
<1> DEFINE At(b) == CHOOSE j \in S : Place(S, j) = b
<1>1. Cardinality(S) \in Nat
  BY FS_CardinalityType
<1>2. PICK N \in Nat : N = Cardinality(S)
  BY <1>1
<1>3. Collected(p, S) = [b \in 1..N |-> p.binaries[At(b)]]
  BY <1>2 DEF Collected
<1>4. \A i \in S : Place(S, i) \in 1..N /\ At(Place(S, i)) = i
  BY <1>2, PlacesAreOwn
<1> HIDE DEF At
<1>5. \A i \in S : Collected(p, S)[Place(S, i)] = p.binaries[i]
  BY <1>3, <1>4
<1>6. Collected(p, S) \in Seq(Range(Collected(p, S))) /\ Len(Collected(p, S)) = N
  BY <1>3 DEF Range
<1> QED
  BY <1>2, <1>4, <1>5, <1>6

\* A sequence behind another one.
LEMMA Behind ==
    ASSUME NEW s, NEW u, s \in Seq(Range(s)), u \in Seq(Range(u))
    PROVE  /\ s \o u \in Seq(Range(s \o u)) /\ Len(s \o u) = Len(s) + Len(u)
           /\ Len(s) \in Nat /\ Len(u) \in Nat
           /\ DOMAIN s = 1..Len(s) /\ DOMAIN (s \o u) = 1..(Len(s) + Len(u))
           /\ \A i \in 1..Len(s) : (s \o u)[i] = s[i]
           /\ \A i \in 1..Len(u) : (s \o u)[Len(s) + i] = u[i]
<1> DEFINE X == Range(s) \cup Range(u)
<1>1. s \in Seq(X) /\ u \in Seq(X)
  OBVIOUS
<1> HIDE DEF X
<1>2. /\ s \o u \in Seq(X) /\ Len(s \o u) = Len(s) + Len(u)
      /\ Len(s) \in Nat /\ Len(u) \in Nat
      /\ DOMAIN s = 1..Len(s) /\ DOMAIN (s \o u) = 1..(Len(s) + Len(u))
  BY <1>1
<1>3. \A i \in 1..Len(s) : (s \o u)[i] = s[i]
  BY <1>1
<1>4. \A i \in 1..Len(u) : (s \o u)[Len(s) + i] = u[i]
  BY <1>1, <1>2
<1>5. \A v \in Seq(X) : v \in Seq(Range(v))
  BY DEF Range
<1>6. s \o u \in Seq(Range(s \o u))
  BY <1>2, <1>5
<1> QED
  BY <1>2, <1>3, <1>4, <1>6

\* A copied module finds its binary's content, and the template's theirs.
LEMMA AllBinariesFacts ==
    ASSUME NEW p, NEW t, IsPackage(p), IsPackage(t)
    PROVE  /\ DOMAIN t.binaries \subseteq DOMAIN AllBinaries(p, t)
           /\ AllBinaries(p, t) \in Seq(Range(AllBinaries(p, t)))
           /\ \A i \in UsedBinaries(p) :
                /\ Remapped(p, t, i) \in DOMAIN AllBinaries(p, t)
                /\ AllBinaries(p, t)[Remapped(p, t, i)] = p.binaries[i]
<1>1. IsFiniteSet(UsedBinaries(p)) /\ UsedBinaries(p) \subseteq Nat
  BY UsedFacts
<1>2. PICK S : S = UsedBinaries(p)
  OBVIOUS
<1>3. PICK own : own = Collected(p, S)
  OBVIOUS
<1>4. /\ Len(own) \in Nat /\ own \in Seq(Range(own))
      /\ \A i \in S : Place(S, i) \in 1..Len(own) /\ own[Place(S, i)] = p.binaries[i]
  BY <1>1, <1>2, <1>3, CollectedFacts
<1>5. PICK s : s = t.binaries
  OBVIOUS
<1>6. s \in Seq(Range(s))
  BY <1>5 DEF IsPackage
<1>7. /\ s \o own \in Seq(Range(s \o own)) /\ Len(s) \in Nat
      /\ DOMAIN s = 1..Len(s) /\ DOMAIN (s \o own) = 1..(Len(s) + Len(own))
      /\ \A i \in 1..Len(own) : (s \o own)[Len(s) + i] = own[i]
  BY <1>4, <1>6, Behind
<1>8. AllBinaries(p, t) = s \o own
  BY <1>2, <1>3, <1>5 DEF AllBinaries
<1>9. \A i : Remapped(p, t, i) = Len(s) + Place(S, i)
  BY <1>2, <1>5 DEF Remapped
<1>10. \A i \in S : /\ Len(s) + Place(S, i) \in 1..(Len(s) + Len(own))
                    /\ (s \o own)[Len(s) + Place(S, i)] = p.binaries[i]
  BY <1>4, <1>7
<1>11. 1..Len(s) \subseteq 1..(Len(s) + Len(own))
  BY <1>4, <1>7
<1> QED
  BY <1>2, <1>5, <1>7, <1>8, <1>9, <1>10, <1>11

\* What a module reads, it reads with all that they read.
LEMMA ReadByFacts ==
    ASSUME NEW p, NEW n \in Names(p)
    PROVE  /\ n \in ReadBy(p, n) /\ ReadBy(p, n) \subseteq Names(p)
           /\ \A m \in ReadBy(p, n) : Range(p.modules[m].inputs) \cap Names(p) \subseteq ReadBy(p, n)
           /\ \A S \in SUBSET Names(p) :
                n \in S /\ (\A m \in S : Range(p.modules[m].inputs) \cap Names(p) \subseteq S)
                    => ReadBy(p, n) \subseteq S
<1> DEFINE Closed == {S \in SUBSET Names(p) :
                        n \in S /\ \A m \in S : Range(p.modules[m].inputs) \cap Names(p) \subseteq S}
<1>1. ReadBy(p, n) = {m \in Names(p) : \A S \in Closed : m \in S}
  BY DEF ReadBy
<1>2. ASSUME NEW m \in ReadBy(p, n), NEW i \in Range(p.modules[m].inputs) \cap Names(p)
      PROVE  i \in ReadBy(p, n)
  <2>1. ASSUME NEW S \in Closed PROVE i \in S
    <3>1. m \in S
      BY <1>1, <2>1
    <3> QED
      BY <2>1, <3>1
  <2> HIDE DEF Closed
  <2> QED
    BY <1>1, <2>1
<1>3. ASSUME NEW S \in SUBSET Names(p),
             n \in S /\ (\A m \in S : Range(p.modules[m].inputs) \cap Names(p) \subseteq S)
      PROVE  ReadBy(p, n) \subseteq S
  <2>1. S \in Closed
    BY <1>3
  <2> HIDE DEF Closed
  <2> QED
    BY <1>1, <2>1
<1>4. n \in ReadBy(p, n) /\ ReadBy(p, n) \subseteq Names(p)
  BY <1>1
<1> QED
  BY <1>2, <1>3, <1>4

\* What is read upstream of a package's sink is read upstream of any module of
\* a package that keeps those modules, if it reads the old sink.
LEMMA UpstreamKept ==
    ASSUME NEW p, NEW q, p.sink \in Names(p), Names(p) \subseteq Names(q),
           \A n \in Names(p) : q.modules[n].inputs = p.modules[n].inputs,
           NEW f \in Names(q), p.sink \in Range(q.modules[f].inputs)
    PROVE  ReadBy(p, p.sink) \cup {p.sink} \subseteq ReadBy(q, f)
<1> DEFINE S == ReadBy(q, f) \cap Names(p)
<1>1. /\ f \in ReadBy(q, f)
      /\ \A m \in ReadBy(q, f) : Range(q.modules[m].inputs) \cap Names(q) \subseteq ReadBy(q, f)
  BY ReadByFacts
<1>2. p.sink \in ReadBy(q, f)
  BY <1>1
<1>3. S \in SUBSET Names(p) /\ p.sink \in S
  BY <1>2
<1>4. \A m \in S : Range(p.modules[m].inputs) \cap Names(p) \subseteq S
  BY <1>1
<1> HIDE DEF S
<1>5. ReadBy(p, p.sink) \subseteq S
  BY <1>3, <1>4, ReadByFacts
<1> QED
  BY <1>2, <1>5 DEF S

\* It depends on nothing but what modules there are and what they read.
LEMMA UpstreamSame ==
    ASSUME NEW p, NEW q, Names(p) = Names(q),
           \A n \in Names(p) : q.modules[n].inputs = p.modules[n].inputs, NEW f
    PROVE  ReadBy(q, f) = ReadBy(p, f)
<1>1. {S \in SUBSET Names(p) :
         f \in S /\ \A m \in S : Range(q.modules[m].inputs) \cap Names(p) \subseteq S}
      = {S \in SUBSET Names(p) :
         f \in S /\ \A m \in S : Range(p.modules[m].inputs) \cap Names(p) \subseteq S}
  OBVIOUS
<1> QED
  BY <1>1 DEF ReadBy

\* An additive package: production's modules as they were, and the template's.
LEMMA AdditiveFacts ==
    ASSUME NEW p, NEW t, IsPackage(p), IsPackage(t), NEW k, Compatible(p, t, k)
    PROVE  LET q == Additive(p, t, k) IN
           /\ IsPackage(q) /\ Names(q) = Names(t) /\ q.sink = Final[k]
           /\ \A n \in Names(p) :
                /\ q.modules[n].inputs = p.modules[n].inputs
                /\ Content(q, n) = Content(p, n)
                /\ \A net \in Networks : InitialBlock(q, n, net) = InitialBlock(p, n, net)
           /\ \A n \in Names(t) \ Names(p) :
                /\ q.modules[n].inputs = t.modules[n].inputs
                /\ \A net \in Networks : InitialBlock(q, n, net) = InitialBlock(t, n, net)
<1> DEFINE q == Additive(p, t, k)
           Kept(net) == Only(p.overrides[net], Names(p))
           Cleared(net) == Without(t.overrides[net], Names(p))
<1>1. /\ q.modules = MergedModules(p, t) /\ q.binaries = AllBinaries(p, t)
      /\ q.overrides = MergedOverrides(p, t) /\ q.sink = Final[k]
      /\ q = [modules |-> q.modules, binaries |-> q.binaries,
              overrides |-> q.overrides, sink |-> q.sink]
  BY DEF Additive
<1> HIDE DEF q
<1>2. Names(q) = Names(t)
  BY <1>1 DEF Names, MergedModules
<1>3. Names(p) \subseteq Names(t) /\ Final[k] \in Names(t) \ Names(p)
  BY DEF Compatible
<1>4. ASSUME NEW n \in Names(p)
      PROVE  /\ q.modules[n] \in [binary : DOMAIN q.binaries, initialBlock : Nat, inputs : Seq(Names(q))]
             /\ q.modules[n].inputs = p.modules[n].inputs
             /\ q.modules[n].initialBlock = p.modules[n].initialBlock
             /\ Content(q, n) = Content(p, n)
  <2>1. p.modules[n] \in [binary : DOMAIN p.binaries, initialBlock : Nat, inputs : Seq(Names(p))]
    BY DEF IsPackage
  <2>2. q.modules[n] = [p.modules[n] EXCEPT !.binary = Remapped(p, t, p.modules[n].binary)]
    BY <1>1, <1>3 DEF MergedModules
  <2>3. p.modules[n].binary \in UsedBinaries(p)
    BY DEF UsedBinaries
  <2>4. /\ Remapped(p, t, p.modules[n].binary) \in DOMAIN q.binaries
        /\ q.binaries[Remapped(p, t, p.modules[n].binary)] = p.binaries[p.modules[n].binary]
    BY <1>1, <2>3, AllBinariesFacts
  <2>5. Seq(Names(p)) \subseteq Seq(Names(q))
    BY <1>2, <1>3
  <2>6. /\ q.modules[n].binary = Remapped(p, t, p.modules[n].binary)
        /\ q.modules[n].inputs = p.modules[n].inputs
        /\ q.modules[n].initialBlock = p.modules[n].initialBlock
    BY <2>1, <2>2
  <2>7. q.modules[n] \in [binary : DOMAIN q.binaries, initialBlock : Nat, inputs : Seq(Names(q))]
    BY <2>1, <2>2, <2>4, <2>5
  <2> QED
    BY <2>4, <2>6, <2>7 DEF Content
<1>5. ASSUME NEW n \in Names(t) \ Names(p)
      PROVE  /\ q.modules[n] \in [binary : DOMAIN q.binaries, initialBlock : Nat, inputs : Seq(Names(q))]
             /\ q.modules[n] = t.modules[n]
  <2>1. t.modules[n] \in [binary : DOMAIN t.binaries, initialBlock : Nat, inputs : Seq(Names(t))]
    BY DEF IsPackage
  <2>2. q.modules[n] = t.modules[n]
    BY <1>1 DEF MergedModules
  <2>3. DOMAIN t.binaries \subseteq DOMAIN q.binaries
    BY <1>1, AllBinariesFacts
  <2> QED
    BY <1>2, <2>1, <2>2, <2>3
<1>6. q.modules \in [Names(q) -> [binary : DOMAIN q.binaries, initialBlock : Nat, inputs : Seq(Names(q))]]
  <2>1. q.modules = [n \in Names(q) |-> q.modules[n]]
    BY <1>1, <1>2 DEF MergedModules
  <2> QED
    BY <1>2, <1>4, <1>5, <2>1
<1>7. \A net \in Networks :
        /\ q.overrides[net] = With(Cleared(net), Kept(net))
        /\ DOMAIN Cleared(net) = DOMAIN t.overrides[net] \ Names(p)
        /\ DOMAIN Kept(net) = DOMAIN p.overrides[net] \cap Names(p)
        /\ \A n \in DOMAIN Cleared(net) : Cleared(net)[n] = t.overrides[net][n]
        /\ \A n \in DOMAIN Kept(net) : Kept(net)[n] = p.overrides[net][n]
  BY <1>1 DEF MergedOverrides, Only, Without
<1> HIDE DEF Kept, Cleared
<1>8. ASSUME NEW net \in Networks
      PROVE  /\ DOMAIN q.overrides[net] = DOMAIN Cleared(net) \cup DOMAIN Kept(net)
             /\ \A n \in DOMAIN Kept(net) : q.overrides[net][n] = p.overrides[net][n]
             /\ \A n \in DOMAIN Cleared(net) : q.overrides[net][n] = t.overrides[net][n]
             /\ q.overrides[net] \in [DOMAIN q.overrides[net] -> Nat]
  <2>1. /\ p.overrides[net] \in [DOMAIN p.overrides[net] -> Nat]
        /\ t.overrides[net] \in [DOMAIN t.overrides[net] -> Nat]
    BY DEF IsPackage
  <2>2. DOMAIN Cleared(net) \cap DOMAIN Kept(net) = {}
    BY <1>7
  <2>3. /\ DOMAIN q.overrides[net] = DOMAIN Cleared(net) \cup DOMAIN Kept(net)
        /\ \A n \in DOMAIN Kept(net) : q.overrides[net][n] = Kept(net)[n]
        /\ \A n \in DOMAIN Cleared(net) : q.overrides[net][n] = Cleared(net)[n]
        /\ q.overrides[net] = [n \in DOMAIN q.overrides[net] |-> q.overrides[net][n]]
    <3>1. q.overrides[net] = With(Cleared(net), Kept(net))
      BY <1>7
    <3>2. DOMAIN q.overrides[net] = DOMAIN Cleared(net) \cup DOMAIN Kept(net)
      BY <3>1 DEF With
    <3>3. \A n \in DOMAIN Kept(net) : q.overrides[net][n] = Kept(net)[n]
      BY <3>1 DEF With
    <3>4. \A n \in DOMAIN Cleared(net) : n \in DOMAIN Cleared(net) \ DOMAIN Kept(net)
      BY <2>2
    <3>5. \A n \in DOMAIN Cleared(net) : q.overrides[net][n] = Cleared(net)[n]
      BY <3>1, <3>4 DEF With
    <3>6. q.overrides[net] = [n \in DOMAIN q.overrides[net] |-> q.overrides[net][n]]
      BY <3>1 DEF With
    <3> QED
      BY <3>2, <3>3, <3>5, <3>6
  <2>4. ASSUME NEW n \in DOMAIN q.overrides[net]
        PROVE  q.overrides[net][n] \in Nat
    <3>1. CASE n \in DOMAIN Kept(net)
      <4>1. q.overrides[net][n] = p.overrides[net][n] /\ n \in DOMAIN p.overrides[net]
        BY <1>7, <2>3, <3>1
      <4> QED
        BY <2>1, <4>1
    <3>2. CASE n \in DOMAIN Cleared(net)
      <4>1. q.overrides[net][n] = t.overrides[net][n] /\ n \in DOMAIN t.overrides[net]
        BY <1>7, <2>3, <3>2
      <4> QED
        BY <2>1, <4>1
    <3> QED
      BY <2>3, <2>4, <3>1, <3>2
  <2>5. q.overrides[net] \in [DOMAIN q.overrides[net] -> Nat]
    BY <2>3, <2>4
  <2> QED
    BY <1>7, <2>3, <2>5
<1>9. IsPackage(q)
  <2>1. q.binaries \in Seq(Range(q.binaries))
    BY <1>1, AllBinariesFacts
  <2>2. q.sink \in Names(q)
    BY <1>1, <1>2, <1>3
  <2> QED
    BY <1>1, <1>6, <1>8, <2>1, <2>2 DEF IsPackage
<1>10. ASSUME NEW n \in Names(p), NEW net \in Networks
       PROVE  InitialBlock(q, n, net) = InitialBlock(p, n, net)
  <2>1. n \in DOMAIN q.overrides[net] <=> n \in DOMAIN p.overrides[net]
    BY <1>7, <1>8
  <2>2. n \in DOMAIN p.overrides[net] => q.overrides[net][n] = p.overrides[net][n]
    BY <1>7, <1>8
  <2> QED
    BY <1>4, <2>1, <2>2 DEF InitialBlock
<1>11. ASSUME NEW n \in Names(t) \ Names(p), NEW net \in Networks
       PROVE  InitialBlock(q, n, net) = InitialBlock(t, n, net)
  <2>1. n \in DOMAIN q.overrides[net] <=> n \in DOMAIN t.overrides[net]
    BY <1>7, <1>8
  <2>2. n \in DOMAIN t.overrides[net] => q.overrides[net][n] = t.overrides[net][n]
    BY <1>7, <1>8
  <2> QED
    BY <1>5, <2>1, <2>2 DEF InitialBlock
<1> QED
  BY <1>1, <1>2, <1>4, <1>5, <1>9, <1>10, <1>11 DEF q

\* An initial block is a number.
LEMMA InitialBlockType ==
    ASSUME NEW p, IsPackage(p), NEW n \in Names(p), NEW net \in Networks
    PROVE  InitialBlock(p, n, net) \in Nat
<1>1. p.modules[n].initialBlock \in Nat
  BY DEF IsPackage
<1>2. p.overrides[net] \in [DOMAIN p.overrides[net] -> Nat]
  BY DEF IsPackage
<1> QED
  BY <1>1, <1>2 DEF InitialBlock

\* A bound output reads the old sink and begins no later; the rest is kept.
LEMMA BoundFacts ==
    ASSUME NEW p, NEW q, IsPackage(p), IsPackage(q), Names(p) \subseteq Names(q), NEW k,
           Final[k] \in Names(q), Backfill[k] \in Names(q),
           q.modules[Final[k]].inputs # <<>>
    PROVE  LET r == BoundOutput(p, q, k) IN
           /\ IsPackage(r) /\ Names(r) = Names(q) /\ r.sink = q.sink
           /\ p.sink \in Range(r.modules[Final[k]].inputs)
           /\ \A net \in Networks :
                InitialBlock(r, Final[k], net) <= InitialBlock(p, p.sink, net)
           /\ \A n \in Names(q) \ {Final[k]} :
                /\ r.modules[n].inputs = q.modules[n].inputs
                /\ Content(r, n) = Content(q, n)
                /\ \A net \in Networks : InitialBlock(r, n, net) = InitialBlock(q, n, net)
<1> DEFINE r == BoundOutput(p, q, k)
           F == Final[k]
           first == Lesser(p.modules[p.sink].initialBlock, q.modules[Backfill[k]].initialBlock)
           starts(net) == Lesser(InitialBlock(p, p.sink, net), InitialBlock(q, Backfill[k], net))
           bound(net) == [n \in {F} |-> starts(net)]
           m == q.modules[F]
           M == [binary |-> m.binary, initialBlock |-> first, inputs |-> [m.inputs EXCEPT ![1] = p.sink]]
<1>1. p.sink \in Names(p) /\ p.sink \in Names(q)
  BY DEF IsPackage
<1>2. /\ m \in [binary : DOMAIN q.binaries, initialBlock : Nat, inputs : Seq(Names(q))]
      /\ q.modules[Backfill[k]] \in [binary : DOMAIN q.binaries, initialBlock : Nat, inputs : Seq(Names(q))]
      /\ q.modules \in [Names(q) -> [binary : DOMAIN q.binaries, initialBlock : Nat, inputs : Seq(Names(q))]]
      /\ p.modules[p.sink].initialBlock \in Nat
      /\ F \in Names(q)
  BY <1>1 DEF IsPackage
<1>3. first \in Nat
  BY <1>2 DEF Lesser
<1>4. \A net \in Networks :
        /\ InitialBlock(p, p.sink, net) \in Nat
        /\ InitialBlock(q, Backfill[k], net) \in Nat
        /\ starts(net) \in Nat /\ starts(net) <= InitialBlock(p, p.sink, net)
  BY <1>1, InitialBlockType DEF Lesser
<1> HIDE DEF first, starts
<1>5. q = [modules |-> q.modules, binaries |-> q.binaries,
           overrides |-> q.overrides, sink |-> q.sink]
  BY DEF IsPackage
<1> DEFINE rebound == [m EXCEPT !.inputs[1] = p.sink, !.initialBlock = first]
<1>6. /\ r.modules = [q.modules EXCEPT ![F] = rebound]
      /\ r.binaries = q.binaries /\ r.sink = q.sink
      /\ r.overrides = [net \in Networks |-> With(q.overrides[net], bound(net))]
      /\ r = [modules |-> r.modules, binaries |-> r.binaries,
              overrides |-> r.overrides, sink |-> r.sink]
  <2> DEFINE mods == [q.modules EXCEPT ![F] = rebound]
             over == [net \in Networks |-> With(q.overrides[net], bound(net))]
  <2>1. r = [q EXCEPT !.modules[F] = rebound, !.overrides = over]
    BY DEF BoundOutput, first, starts
  <2> HIDE DEF rebound, over, r
  <2>2. [q EXCEPT !.modules[F] = rebound, !.overrides = over]
          = [[q EXCEPT !.modules[F] = rebound] EXCEPT !.overrides = over]
    OBVIOUS
  <2>3. [q EXCEPT !.modules[F] = rebound]
          = [modules |-> mods, binaries |-> q.binaries, overrides |-> q.overrides, sink |-> q.sink]
    BY <1>5
  <2> HIDE DEF mods
  <2>4. [[modules |-> mods, binaries |-> q.binaries, overrides |-> q.overrides, sink |-> q.sink]
           EXCEPT !.overrides = over]
          = [modules |-> mods, binaries |-> q.binaries, overrides |-> over, sink |-> q.sink]
    OBVIOUS
  <2>5. r = [modules |-> mods, binaries |-> q.binaries, overrides |-> over, sink |-> q.sink]
    BY <2>1, <2>2, <2>3, <2>4
  <2> QED
    BY <2>5 DEF mods, over
<1> HIDE DEF r
<1>7. r.modules = [q.modules EXCEPT ![F] = M]
  <2>1. m = [binary |-> m.binary, initialBlock |-> m.initialBlock, inputs |-> m.inputs]
    BY <1>2
  <2> HIDE DEF m
  <2>2. rebound = [[m EXCEPT !.inputs[1] = p.sink] EXCEPT !.initialBlock = first]
    OBVIOUS
  <2>3. [m EXCEPT !.inputs[1] = p.sink]
          = [binary |-> m.binary, initialBlock |-> m.initialBlock,
             inputs |-> [m.inputs EXCEPT ![1] = p.sink]]
    BY <2>1
  <2>4. [[binary |-> m.binary, initialBlock |-> m.initialBlock,
          inputs |-> [m.inputs EXCEPT ![1] = p.sink]] EXCEPT !.initialBlock = first] = M
    OBVIOUS
  <2> HIDE DEF rebound, M
  <2>5. rebound = M
    BY <2>2, <2>3, <2>4
  <2> QED
    BY <1>6, <2>5
<1>8. /\ m.inputs \in Seq(Names(q)) /\ 1 \in DOMAIN m.inputs
      /\ M.inputs \in Seq(Names(q)) /\ M.inputs[1] = p.sink /\ 1 \in DOMAIN M.inputs
  <2> DEFINE ins == m.inputs
  <2>1. ins \in Seq(Names(q)) /\ ins # <<>>
    BY <1>2
  <2> HIDE DEF ins
  <2>2. DOMAIN ins = 1..Len(ins) /\ Len(ins) \in Nat /\ 1 \in DOMAIN ins
    BY <2>1
  <2>3. /\ [ins EXCEPT ![1] = p.sink] \in Seq(Names(q))
        /\ [ins EXCEPT ![1] = p.sink][1] = p.sink
        /\ 1 \in DOMAIN [ins EXCEPT ![1] = p.sink]
    BY <1>1, <2>1, <2>2
  <2>4. M.inputs = [ins EXCEPT ![1] = p.sink]
    BY DEF ins
  <2> HIDE DEF M
  <2> QED
    BY <2>1, <2>2, <2>3, <2>4 DEF ins
<1>9. /\ Names(r) = Names(q) /\ r.modules[F] = M
      /\ \A n \in Names(q) \ {F} : r.modules[n] = q.modules[n]
      /\ r.modules \in [Names(q) -> [binary : DOMAIN q.binaries, initialBlock : Nat, inputs : Seq(Names(q))]]
  <2>1. M \in [binary : DOMAIN q.binaries, initialBlock : Nat, inputs : Seq(Names(q))]
    BY <1>2, <1>3, <1>8
  <2> HIDE DEF M
  <2>2. DOMAIN r.modules = DOMAIN q.modules
    BY <1>7
  <2> QED
    BY <1>2, <1>7, <2>1, <2>2 DEF Names
<1>10. ASSUME NEW net \in Networks
       PROVE  /\ DOMAIN r.overrides[net] = DOMAIN q.overrides[net] \cup {F}
              /\ \A n \in DOMAIN q.overrides[net] \ {F} : r.overrides[net][n] = q.overrides[net][n]
              /\ r.overrides[net][F] = starts(net)
              /\ r.overrides[net] \in [DOMAIN r.overrides[net] -> Nat]
  <2>1. q.overrides[net] \in [DOMAIN q.overrides[net] -> Nat]
    BY DEF IsPackage
  <2>2. r.overrides[net] = With(q.overrides[net], bound(net))
    BY <1>6
  <2>3. /\ DOMAIN r.overrides[net] = DOMAIN q.overrides[net] \cup {F}
        /\ \A n \in DOMAIN q.overrides[net] \ {F} : r.overrides[net][n] = q.overrides[net][n]
        /\ r.overrides[net][F] = starts(net)
    BY <2>2 DEF With
  <2>4. r.overrides[net] = [n \in DOMAIN r.overrides[net] |-> r.overrides[net][n]]
    BY <2>2 DEF With
  <2>5. \A n \in DOMAIN r.overrides[net] : r.overrides[net][n] \in Nat
    BY <1>4, <2>1, <2>3
  <2> QED
    BY <2>3, <2>4, <2>5
<1>11. IsPackage(r)
  <2>1. r.sink \in Names(r) /\ q.binaries \in Seq(Range(q.binaries))
    BY <1>6, <1>9 DEF IsPackage
  <2> QED
    BY <1>6, <1>9, <1>10, <2>1 DEF IsPackage
<1>12. p.sink \in Range(r.modules[F].inputs)
  BY <1>8, <1>9 DEF Range
<1>13. \A net \in Networks : InitialBlock(r, F, net) <= InitialBlock(p, p.sink, net)
  <2> TAKE net \in Networks
  <2>1. InitialBlock(r, F, net) = starts(net)
    BY <1>10 DEF InitialBlock
  <2> QED
    BY <1>4, <2>1
<1>14. ASSUME NEW n \in Names(q) \ {F}
       PROVE  /\ r.modules[n].inputs = q.modules[n].inputs
              /\ Content(r, n) = Content(q, n)
              /\ \A net \in Networks : InitialBlock(r, n, net) = InitialBlock(q, n, net)
  <2>1. \A net \in Networks : InitialBlock(r, n, net) = InitialBlock(q, n, net)
    BY <1>9, <1>10 DEF InitialBlock
  <2> QED
    BY <1>6, <1>9, <2>1 DEF Content
<1> QED
  BY <1>6, <1>9, <1>11, <1>12, <1>13, <1>14 DEF r

\* What a release assembles: the new sink reads the old one, or is the first
\* to do so, and every module of production is as it was.
LEMMA AssembledFacts ==
    ASSUME PackageInv, NEW k \in Kinds, NEW t \in Templates, Compatible(package, t, k)
    PROVE  LET q == Assemble(package, t, k) IN
           /\ IsPackage(q) /\ Names(q) = Names(t) /\ q.sink = Final[k]
           /\ package.sink \in Range(q.modules[Final[k]].inputs)
           /\ \A net \in Networks : InitialBlock(q, Final[k], net) <= cursor + 1
           /\ \A n \in Names(package) :
                /\ q.modules[n].inputs = package.modules[n].inputs
                /\ Content(q, n) = Content(package, n)
                /\ \A net \in Networks : InitialBlock(q, n, net) = InitialBlock(package, n, net)
<1> DEFINE p == package
           a == Additive(p, t, k)
           q == Assemble(p, t, k)
<1>1. IsPackage(p) /\ IsPackage(t) /\ cursor \in Nat /\ cursor >= 1
  BY PackagesAssumption DEF PackageInv
<1>2. /\ Names(p) \subseteq Names(t) /\ Final[k] \in Names(t) \ Names(p)
      /\ Backfill[k] \in Names(t)
      /\ k \in Binding => t.modules[Final[k]].inputs # <<>>
  BY DEF Compatible
<1>3. /\ IsPackage(a) /\ Names(a) = Names(t) /\ a.sink = Final[k]
      /\ \A n \in Names(p) :
           /\ a.modules[n].inputs = p.modules[n].inputs
           /\ Content(a, n) = Content(p, n)
           /\ \A net \in Networks : InitialBlock(a, n, net) = InitialBlock(p, n, net)
      /\ a.modules[Final[k]].inputs = t.modules[Final[k]].inputs
      /\ \A net \in Networks : InitialBlock(a, Final[k], net) = InitialBlock(t, Final[k], net)
  BY <1>1, <1>2, AdditiveFacts
<1> HIDE DEF a
<1>4. CASE k \in Binding
  <2>1. q = BoundOutput(p, a, k)
    BY <1>4 DEF Assemble, a
  <2> HIDE DEF q
  <2>2. /\ IsPackage(q) /\ Names(q) = Names(a) /\ q.sink = a.sink
        /\ p.sink \in Range(q.modules[Final[k]].inputs)
        /\ \A net \in Networks :
             InitialBlock(q, Final[k], net) <= InitialBlock(p, p.sink, net)
        /\ \A n \in Names(a) \ {Final[k]} :
             /\ q.modules[n].inputs = a.modules[n].inputs
             /\ Content(q, n) = Content(a, n)
             /\ \A net \in Networks : InitialBlock(q, n, net) = InitialBlock(a, n, net)
    BY <1>1, <1>2, <1>3, <1>4, <2>1, BoundFacts
  <2>3. \A net \in Networks : InitialBlock(q, Final[k], net) <= cursor + 1
    <3> TAKE net \in Networks
    <3>1. InitialBlock(p, p.sink, net) <= cursor + 1
      BY DEF PackageInv, SwitchIsSeamless, NoGapAtTheSwitch
    <3>2. InitialBlock(p, p.sink, net) \in Nat /\ InitialBlock(q, Final[k], net) \in Nat
      <4>1. p.sink \in Names(p) /\ Final[k] \in Names(q)
        BY <1>1, <1>2, <1>3, <2>2 DEF IsPackage
      <4> QED
        BY <1>1, <2>2, <4>1, InitialBlockType
    <3> QED
      BY <1>1, <2>2, <3>1, <3>2
  <2>4. \A n \in Names(p) : n \in Names(a) \ {Final[k]}
    BY <1>2, <1>3
  <2> QED
    BY <1>3, <2>2, <2>3, <2>4 DEF q
<1>5. CASE k \notin Binding
  <2>1. q = a
    BY <1>5 DEF Assemble, a
  <2> HIDE DEF q
  <2>2. PICK first \in Production : p.sink = first.sink
    BY <1>2, <1>5 DEF PackageInv, UnboundIsFirst
  <2>3. p.sink \in Range(q.modules[Final[k]].inputs)
    BY <1>3, <1>5, <2>1, <2>2, UnboundAssumption
  <2>4. \A net \in Networks : InitialBlock(q, Final[k], net) <= cursor + 1
    <3> TAKE net \in Networks
    <3>1. InitialBlock(q, Final[k], net) <= 2
      BY <1>3, <1>5, <2>1, UnboundAssumption
    <3>2. InitialBlock(q, Final[k], net) \in Nat
      BY <1>2, <1>3, <2>1, InitialBlockType
    <3> QED
      BY <1>1, <3>1, <3>2
  <2> QED
    BY <1>3, <2>1, <2>3, <2>4 DEF q
<1> QED
  BY <1>4, <1>5

\* The cutover changes where the modules it restarts begin, and nothing else.
LEMMA RetargetedFacts ==
    ASSUME NEW p, IsPackage(p), NEW start \in Nat
    PROVE  LET q == Retargeted(p, start) IN
           /\ IsPackage(q) /\ Names(q) = Names(p) /\ q.sink = p.sink
           /\ \A n \in Names(p) :
                /\ q.modules[n].inputs = p.modules[n].inputs
                /\ Content(q, n) = Content(p, n)
                /\ \A net \in Networks :
                     InitialBlock(q, n, net) =
                       IF n \in ResetModules THEN start ELSE InitialBlock(p, n, net)
<1> DEFINE q == Retargeted(p, start)
           mods == [n \in Names(p) |->
                      IF n \in ResetModules
                      THEN [p.modules[n] EXCEPT !.initialBlock = start]
                      ELSE p.modules[n]]
           over == [net \in Networks |->
                      [n \in DOMAIN p.overrides[net] |->
                          IF n \in ResetModules THEN start ELSE p.overrides[net][n]]]
<1>1. q = [p EXCEPT !.modules = mods, !.overrides = over]
  BY DEF Retargeted
<1> HIDE DEF q, mods, over
<1>2. p = [modules |-> p.modules, binaries |-> p.binaries,
           overrides |-> p.overrides, sink |-> p.sink]
  BY DEF IsPackage
<1>3. q = [modules |-> mods, binaries |-> p.binaries, overrides |-> over, sink |-> p.sink]
  <2>1. [p EXCEPT !.modules = mods, !.overrides = over]
          = [[p EXCEPT !.modules = mods] EXCEPT !.overrides = over]
    OBVIOUS
  <2>2. [p EXCEPT !.modules = mods]
          = [modules |-> mods, binaries |-> p.binaries, overrides |-> p.overrides, sink |-> p.sink]
    BY <1>2
  <2>3. [[modules |-> mods, binaries |-> p.binaries, overrides |-> p.overrides, sink |-> p.sink]
           EXCEPT !.overrides = over]
          = [modules |-> mods, binaries |-> p.binaries, overrides |-> over, sink |-> p.sink]
    OBVIOUS
  <2> QED
    BY <1>1, <2>1, <2>2, <2>3
<1>4. Names(q) = Names(p) /\ mods = [n \in Names(p) |-> mods[n]]
  BY <1>3 DEF Names, mods
<1>5. ASSUME NEW n \in Names(p)
      PROVE  /\ mods[n] \in [binary : DOMAIN p.binaries, initialBlock : Nat, inputs : Seq(Names(p))]
             /\ mods[n].inputs = p.modules[n].inputs /\ mods[n].binary = p.modules[n].binary
             /\ mods[n].initialBlock =
                  IF n \in ResetModules THEN start ELSE p.modules[n].initialBlock
  <2>1. p.modules[n] \in [binary : DOMAIN p.binaries, initialBlock : Nat, inputs : Seq(Names(p))]
    BY DEF IsPackage
  <2>2. n \in ResetModules => mods[n] = [p.modules[n] EXCEPT !.initialBlock = start]
    BY DEF mods
  <2>3. n \notin ResetModules => mods[n] = p.modules[n]
    BY DEF mods
  <2> QED
    BY <2>1, <2>2, <2>3
<1>6. ASSUME NEW net \in Networks
      PROVE  /\ over[net] \in [DOMAIN p.overrides[net] -> Nat]
             /\ \A n \in DOMAIN p.overrides[net] :
                  over[net][n] = IF n \in ResetModules THEN start ELSE p.overrides[net][n]
  <2>1. p.overrides[net] \in [DOMAIN p.overrides[net] -> Nat]
    BY DEF IsPackage
  <2> QED
    BY <2>1 DEF over
<1>7. IsPackage(q)
  <2>1. p.sink \in Names(q) /\ p.binaries \in Seq(Range(p.binaries))
    BY <1>4 DEF IsPackage
  <2>2. mods \in [Names(q) -> [binary : DOMAIN p.binaries, initialBlock : Nat, inputs : Seq(Names(q))]]
    BY <1>4, <1>5
  <2>3. \A net \in Networks : over[net] \in [DOMAIN over[net] -> Nat]
    BY <1>6
  <2> QED
    BY <1>3, <2>1, <2>2, <2>3 DEF IsPackage
<1>8. ASSUME NEW n \in Names(p)
      PROVE  /\ Content(q, n) = Content(p, n)
             /\ \A net \in Networks :
                  InitialBlock(q, n, net) =
                    IF n \in ResetModules THEN start ELSE InitialBlock(p, n, net)
  <2>1. Content(q, n) = Content(p, n)
    BY <1>3, <1>5 DEF Content
  <2>2. ASSUME NEW net \in Networks
        PROVE  InitialBlock(q, n, net) =
                 IF n \in ResetModules THEN start ELSE InitialBlock(p, n, net)
    <3>1. DOMAIN q.overrides[net] = DOMAIN p.overrides[net]
      BY <1>3, <1>6
    <3> QED
      BY <1>3, <1>5, <1>6, <3>1 DEF InitialBlock
  <2> QED
    BY <2>1, <2>2
<1> QED
  BY <1>3, <1>4, <1>5, <1>7, <1>8 DEF q

\* The hotfix changes what its module computes, and nothing else.
LEMMA PatchedFacts ==
    ASSUME NEW p, IsPackage(p), NEW t, Target \in Names(p)
    PROVE  LET q == Patched(p, t) IN
           /\ IsPackage(q) /\ Names(q) = Names(p) /\ q.sink = p.sink
           /\ \A n \in Names(p) :
                /\ q.modules[n].inputs = p.modules[n].inputs
                /\ n # Target => Content(q, n) = Content(p, n)
                /\ \A net \in Networks : InitialBlock(q, n, net) = InitialBlock(p, n, net)
<1> DEFINE q == Patched(p, t)
           last == Len(p.binaries) + 1
           bins == Append(p.binaries, Content(t, Target))
           mods == [p.modules EXCEPT ![Target].binary = last]
<1>1. q = [p EXCEPT !.binaries = bins, !.modules[Target].binary = last]
  BY DEF Patched
<1>2. p = [modules |-> p.modules, binaries |-> p.binaries,
           overrides |-> p.overrides, sink |-> p.sink]
  BY DEF IsPackage
<1>3. /\ Len(p.binaries) \in Nat /\ DOMAIN p.binaries = 1..Len(p.binaries)
      /\ bins \in Seq(Range(p.binaries) \cup {Content(t, Target)})
      /\ DOMAIN bins = 1..last
      /\ \A i \in DOMAIN p.binaries : bins[i] = p.binaries[i]
  <2>1. p.binaries \in Seq(Range(p.binaries))
    BY DEF IsPackage
  <2>2. p.binaries \in Seq(Range(p.binaries) \cup {Content(t, Target)})
    BY <2>1
  <2> QED
    BY <2>2
<1> HIDE DEF q, bins
<1>4. q = [modules |-> mods, binaries |-> bins, overrides |-> p.overrides, sink |-> p.sink]
  <2>1. [p EXCEPT !.binaries = bins, !.modules[Target].binary = last]
          = [[p EXCEPT !.binaries = bins] EXCEPT !.modules[Target].binary = last]
    OBVIOUS
  <2>2. [p EXCEPT !.binaries = bins]
          = [modules |-> p.modules, binaries |-> bins, overrides |-> p.overrides, sink |-> p.sink]
    BY <1>2
  <2>3. [[modules |-> p.modules, binaries |-> bins, overrides |-> p.overrides, sink |-> p.sink]
           EXCEPT !.modules[Target].binary = last]
          = [modules |-> mods, binaries |-> bins, overrides |-> p.overrides, sink |-> p.sink]
    OBVIOUS
  <2> HIDE DEF mods
  <2> QED
    BY <1>1, <2>1, <2>2, <2>3
<1>5. /\ p.modules \in [Names(p) -> [binary : DOMAIN p.binaries, initialBlock : Nat, inputs : Seq(Names(p))]]
      /\ DOMAIN p.binaries \subseteq DOMAIN bins /\ last \in DOMAIN bins
  BY <1>3 DEF IsPackage
<1>6. /\ mods \in [Names(p) -> [binary : DOMAIN bins, initialBlock : Nat, inputs : Seq(Names(p))]]
      /\ \A n \in Names(p) :
           /\ mods[n].inputs = p.modules[n].inputs
           /\ mods[n].initialBlock = p.modules[n].initialBlock
           /\ n # Target => mods[n].binary = p.modules[n].binary
  <2> DEFINE patched == [p.modules[Target] EXCEPT !.binary = last]
  <2>1. mods = [p.modules EXCEPT ![Target] = patched]
    OBVIOUS
  <2>2. /\ patched \in [binary : DOMAIN bins, initialBlock : Nat, inputs : Seq(Names(p))]
        /\ patched.inputs = p.modules[Target].inputs
        /\ patched.initialBlock = p.modules[Target].initialBlock
    BY <1>5
  <2> HIDE DEF patched, mods
  <2>3. \A n \in Names(p) : mods[n] = IF n = Target THEN patched ELSE p.modules[n]
    BY <1>5, <2>1
  <2>4. mods = [n \in Names(p) |-> mods[n]]
    BY <1>5, <2>1
  <2>5. \A n \in Names(p) :
          mods[n] \in [binary : DOMAIN bins, initialBlock : Nat, inputs : Seq(Names(p))]
    BY <1>5, <2>2, <2>3
  <2> QED
    BY <2>2, <2>3, <2>4, <2>5
<1> HIDE DEF mods
<1>7. /\ q.modules = mods /\ q.binaries = bins /\ q.overrides = p.overrides /\ q.sink = p.sink
      /\ Names(q) = Names(p)
  BY <1>4, <1>6 DEF Names
<1>8. \A n \in Names(p) :
        /\ q.modules[n].inputs = p.modules[n].inputs
        /\ q.modules[n].initialBlock = p.modules[n].initialBlock
        /\ n # Target => q.modules[n].binary = p.modules[n].binary
  BY <1>6, <1>7
<1>9. IsPackage(q)
  <2>1. p.sink \in Names(p) /\ \A net \in Networks : p.overrides[net] \in [DOMAIN p.overrides[net] -> Nat]
    BY DEF IsPackage
  <2>2. bins \in Seq(Range(bins))
    BY <1>3 DEF Range
  <2> QED
    BY <1>4, <1>6, <1>7, <2>1, <2>2 DEF IsPackage
<1>10. ASSUME NEW n \in Names(p)
      PROVE  /\ n # Target => Content(q, n) = Content(p, n)
             /\ \A net \in Networks : InitialBlock(q, n, net) = InitialBlock(p, n, net)
  <2>1. p.modules[n].binary \in DOMAIN p.binaries
    BY <1>5
  <2>2. /\ q.modules[n].initialBlock = p.modules[n].initialBlock
        /\ n # Target => q.modules[n].binary = p.modules[n].binary
    BY <1>8
  <2>3. n # Target => q.binaries[q.modules[n].binary] = p.binaries[p.modules[n].binary]
    BY <1>3, <1>7, <2>1, <2>2
  <2>4. n # Target => Content(q, n) = Content(p, n)
    BY <2>3 DEF Content
  <2>5. \A net \in Networks : InitialBlock(q, n, net) = InitialBlock(p, n, net)
    BY <1>7, <2>2 DEF InitialBlock
  <2> QED
    BY <2>4, <2>5
<1> QED
  BY <1>7, <1>8, <1>9, <1>10 DEF q

-----------------------------------------------------------------------------
\* What a step may change of the modules in production.
NamedOnly ==
    \A n \in Names(package) :
        LET old == Definition(package, n)
            new == Definition(package', n)
        IN  /\ package'.sink # package.sink => new = old
            /\ new.content # old.content => n = Target
            /\ new.starts # old.starts => n \in ResetModules

\* A definition is made of its three parts.
LEMMA DefinitionKept ==
    ASSUME NEW p, NEW q, NEW n,
           q.modules[n].inputs = p.modules[n].inputs, Content(q, n) = Content(p, n),
           \A net \in Networks : InitialBlock(q, n, net) = InitialBlock(p, n, net)
    PROVE  Definition(q, n) = Definition(p, n)
<1>1. [net \in Networks |-> InitialBlock(q, n, net)] = [net \in Networks |-> InitialBlock(p, n, net)]
  OBVIOUS
<1> QED
  BY <1>1 DEF Definition

\* A sink that stays, and reads what it read, still serves everything.
LEMMA NothingDropped ==
    ASSUME PackageInv, NEW q, Names(q) = Names(package), q.sink = package.sink,
           \A n \in Names(package) : q.modules[n].inputs = package.modules[n].inputs
    PROVE  /\ served \subseteq ReadBy(q, q.sink)
           /\ \A k \in Kinds \ Binding : Final[k] \notin Names(q) =>
                \E p \in Production : q.sink = p.sink
<1>1. ReadBy(q, q.sink) = ReadBy(package, package.sink)
  BY UpstreamSame
<1> QED
  BY <1>1 DEF PackageInv, SwitchIsSeamless, NoDomainDropped, UnboundIsFirst

LEMMA InitPackageInv == PackageInit => PackageInv
<1> SUFFICES ASSUME PackageInit PROVE PackageInv
  OBVIOUS
<1>1. package \in Production /\ cursor = 1 /\ served = {}
  BY DEF PackageInit
<1>2. IsPackage(package)
  BY <1>1, PackagesAssumption
<1>3. NoGapAtTheSwitch
  BY <1>1, ProductionAssumption DEF NoGapAtTheSwitch
<1>4. UnboundIsFirst /\ NoDomainDropped
  BY <1>1 DEF UnboundIsFirst, NoDomainDropped
<1> QED
  BY <1>1, <1>2, <1>3, <1>4 DEF PackageInv, SwitchIsSeamless

\* A release keeps every module, and serves what was served and the old sink.
LEMMA ReleaseStep ==
    ASSUME PackageInv, NEW k \in Kinds, Release(k)
    PROVE  PackageInv' /\ NamedOnly
<1>1. PICK t \in Templates :
        /\ Compatible(package, t, k)
        /\ package' = Assemble(package, t, k)
        /\ served' = served \cup {package.sink}
        /\ cursor' = cursor
  BY DEF Release
<1>2. /\ IsPackage(package') /\ Names(package') = Names(t) /\ package'.sink = Final[k]
      /\ package.sink \in Range(package'.modules[Final[k]].inputs)
      /\ \A net \in Networks : InitialBlock(package', Final[k], net) <= cursor + 1
      /\ \A n \in Names(package) :
           /\ package'.modules[n].inputs = package.modules[n].inputs
           /\ Content(package', n) = Content(package, n)
           /\ \A net \in Networks :
                InitialBlock(package', n, net) = InitialBlock(package, n, net)
  BY <1>1, AssembledFacts
<1>3. Names(package) \subseteq Names(package') /\ Final[k] \in Names(package')
  BY <1>1, <1>2 DEF Compatible
<1>4. ReadBy(package, package.sink) \cup {package.sink} \subseteq ReadBy(package', Final[k])
  BY <1>2, <1>3, UpstreamKept DEF PackageInv, IsPackage
<1>5. served' \subseteq ReadBy(package', package'.sink)
  BY <1>1, <1>2, <1>4 DEF PackageInv, SwitchIsSeamless, NoDomainDropped
<1>6. \A net \in Networks : InitialBlock(package', package'.sink, net) <= cursor' + 1
  BY <1>1, <1>2
<1>7. \A l \in Kinds \ Binding : Final[l] \in Names(package')
  BY <1>2, UnboundAssumption
<1>8. \A n \in Names(package) : Definition(package', n) = Definition(package, n)
  BY <1>2, DefinitionKept
<1>9. NamedOnly
  BY <1>8 DEF NamedOnly
<1> QED
  BY <1>1, <1>2, <1>5, <1>6, <1>7, <1>9
  DEF PackageInv, UnboundIsFirst, SwitchIsSeamless, NoDomainDropped, NoGapAtTheSwitch

\* The cutover restarts its modules after the cursor.
LEMMA CutoverStep ==
    ASSUME PackageInv, Cutover
    PROVE  PackageInv' /\ NamedOnly
<1>1. /\ package' = Retargeted(package, cursor + 1)
      /\ cursor' = cursor /\ served' = served
  BY DEF Cutover
<1>2. IsPackage(package) /\ cursor \in Nat /\ cursor + 1 \in Nat
  BY DEF PackageInv
<1>3. /\ IsPackage(package') /\ Names(package') = Names(package) /\ package'.sink = package.sink
      /\ \A n \in Names(package) :
           /\ package'.modules[n].inputs = package.modules[n].inputs
           /\ Content(package', n) = Content(package, n)
           /\ \A net \in Networks :
                InitialBlock(package', n, net) =
                  IF n \in ResetModules THEN cursor + 1 ELSE InitialBlock(package, n, net)
  BY <1>1, <1>2, RetargetedFacts
<1>4. /\ served' \subseteq ReadBy(package', package'.sink)
      /\ \A k \in Kinds \ Binding : Final[k] \notin Names(package') =>
           \E p \in Production : package'.sink = p.sink
  BY <1>1, <1>3, NothingDropped
<1>5. ASSUME NEW net \in Networks
      PROVE  InitialBlock(package', package'.sink, net) <= cursor' + 1
  <2>1. package.sink \in Names(package)
    BY <1>2 DEF IsPackage
  <2>2. InitialBlock(package, package.sink, net) <= cursor + 1
    BY DEF PackageInv, SwitchIsSeamless, NoGapAtTheSwitch
  <2> QED
    BY <1>1, <1>2, <1>3, <2>1, <2>2
<1>6. NamedOnly
  <2> SUFFICES ASSUME NEW n \in Names(package)
               PROVE  /\ package'.sink = package.sink
                      /\ Definition(package', n).content = Definition(package, n).content
                      /\ n \notin ResetModules =>
                           Definition(package', n).starts = Definition(package, n).starts
    BY DEF NamedOnly
  <2>1. Definition(package', n).content = Definition(package, n).content
    BY <1>3 DEF Definition
  <2>2. n \notin ResetModules => Definition(package', n) = Definition(package, n)
    BY <1>3, DefinitionKept
  <2> QED
    BY <1>3, <2>1, <2>2
<1> QED
  BY <1>1, <1>2, <1>3, <1>4, <1>5, <1>6
  DEF PackageInv, UnboundIsFirst, SwitchIsSeamless, NoDomainDropped, NoGapAtTheSwitch

\* The hotfix gives one module another binary.
LEMMA HotfixStep ==
    ASSUME PackageInv, Hotfix
    PROVE  PackageInv' /\ NamedOnly
<1>1. PICK t \in Templates :
        /\ Target \in Names(package)
        /\ package' = Patched(package, t)
        /\ cursor' = cursor /\ served' = served
  BY DEF Hotfix
<1>2. IsPackage(package)
  BY DEF PackageInv
<1>3. /\ IsPackage(package') /\ Names(package') = Names(package) /\ package'.sink = package.sink
      /\ \A n \in Names(package) :
           /\ package'.modules[n].inputs = package.modules[n].inputs
           /\ n # Target => Content(package', n) = Content(package, n)
           /\ \A net \in Networks :
                InitialBlock(package', n, net) = InitialBlock(package, n, net)
  BY <1>1, <1>2, PatchedFacts
<1>4. /\ served' \subseteq ReadBy(package', package'.sink)
      /\ \A k \in Kinds \ Binding : Final[k] \notin Names(package') =>
           \E p \in Production : package'.sink = p.sink
  BY <1>1, <1>3, NothingDropped
<1>5. \A net \in Networks : InitialBlock(package', package'.sink, net) <= cursor' + 1
  <2>1. package.sink \in Names(package)
    BY <1>2 DEF IsPackage
  <2> QED
    BY <1>1, <1>3, <2>1 DEF PackageInv, SwitchIsSeamless, NoGapAtTheSwitch
<1>6. NamedOnly
  <2> SUFFICES ASSUME NEW n \in Names(package)
               PROVE  /\ package'.sink = package.sink
                      /\ n # Target =>
                           Definition(package', n).content = Definition(package, n).content
                      /\ Definition(package', n).starts = Definition(package, n).starts
    BY DEF NamedOnly
  <2>1. Definition(package', n).starts = Definition(package, n).starts
    BY <1>3 DEF Definition
  <2>2. n # Target => Definition(package', n).content = Definition(package, n).content
    BY <1>3 DEF Definition
  <2> QED
    BY <1>3, <2>1, <2>2
<1> QED
  BY <1>1, <1>3, <1>4, <1>5, <1>6
  DEF PackageInv, UnboundIsFirst, SwitchIsSeamless, NoDomainDropped, NoGapAtTheSwitch

\* A package that stays in production goes on without a gap.
LEMMA PackageStays ==
    ASSUME PackageInv, package' = package, served' = served, cursor' \in {cursor, cursor + 1}
    PROVE  PackageInv' /\ NamedOnly
<1>1. IsPackage(package) /\ cursor \in Nat /\ cursor >= 1 /\ cursor' \in Nat /\ cursor' >= cursor
  BY DEF PackageInv
<1>2. \A net \in Networks : InitialBlock(package, package.sink, net) <= cursor' + 1
  <2> TAKE net \in Networks
  <2>1. package.sink \in Names(package)
    BY <1>1 DEF IsPackage
  <2>2. InitialBlock(package, package.sink, net) \in Nat
    BY <1>1, <2>1, InitialBlockType
  <2>3. InitialBlock(package, package.sink, net) <= cursor + 1
    BY DEF PackageInv, SwitchIsSeamless, NoGapAtTheSwitch
  <2> QED
    BY <1>1, <2>2, <2>3
<1>3. NamedOnly
  BY DEF NamedOnly
<1> QED
  BY <1>1, <1>2, <1>3
  DEF PackageInv, UnboundIsFirst, SwitchIsSeamless, NoDomainDropped, NoGapAtTheSwitch

LEMMA NextPackageInv == PackageInv /\ [PackageNext]_packageVars => PackageInv' /\ NamedOnly
<1> SUFFICES ASSUME PackageInv, [PackageNext]_packageVars PROVE PackageInv' /\ NamedOnly
  OBVIOUS
<1>1. CASE \E k \in Kinds : Release(k)
  BY <1>1, ReleaseStep
<1>2. CASE Cutover
  BY <1>2, CutoverStep
<1>3. CASE Hotfix
  BY <1>3, HotfixStep
<1>4. CASE Advance
  BY <1>4, PackageStays DEF Advance
<1>5. CASE UNCHANGED packageVars
  BY <1>5, PackageStays DEF packageVars
<1> QED
  BY <1>1, <1>2, <1>3, <1>4, <1>5 DEF PackageNext

THEOREM PackageInvariance == PackageSpec => []PackageInv
<1> QED
  BY InitPackageInv, NextPackageInv, PTL DEF PackageSpec

(***************************************************************************)
(* Whatever packages, templates and networks there are: every output that  *)
(* the production sink has ever served is merged into the one it serves,   *)
(* and that one begins no later than the block after the cursor.           *)
(***************************************************************************)
THEOREM SwitchesAreSeamless == PackageSpec => []SwitchIsSeamless
<1>1. PackageInv => SwitchIsSeamless
  BY DEF PackageInv
<1> QED
  BY <1>1, PackageInvariance, PTL

(***************************************************************************)
(* A release changes no module that runs: its binary's content, its inputs *)
(* and its starts are what they were, whatever the template has under its  *)
(* name.  Otherwise only the hotfix's module computes something else and   *)
(* only the cutover's modules start elsewhere.                             *)
(***************************************************************************)
THEOREM OnlyNamedChange == PackageSpec => OnlyNamedModulesChange
<1>1. PackageInv /\ [PackageNext]_packageVars => [NamedOnly]_packageVars
  BY NextPackageInv
<1>2. OnlyNamedModulesChange <=> [][NamedOnly]_packageVars
  BY DEF OnlyNamedModulesChange, NamedOnly
<1> QED
  BY <1>1, <1>2, PackageInvariance, PTL DEF PackageSpec

-----------------------------------------------------------------------------
(***************************************************************************)
(* The first packages.  Baskets move to a package of their own only where  *)
(* the old one does not read them; the one package that takes over has     *)
(* been assembled of the two, and has been verified when it serves.        *)
(***************************************************************************)
\* The old package, whether its maps are disabled or not.
LegacyRuns(p) ==
    /\ WellFormed(p) /\ p.sink = Output /\ Output \in Names(p) /\ BasketOutput \notin Names(p)
    /\ \A n \in Names(p) \ BasketMaps : p.modules[n].filter # Disabled
    /\ \A n \in Names(p) \ ({Output} \cup BasketModules) :
          Range(p.modules[n].inputs) \cap ({Output} \cup BasketModules) = {}

BasketsMoved ==
    /\ basket \in BasketPackages
    /\ \A n \in BasketMaps \cap Names(legacy) : legacy.modules[n].filter = Disabled

MadeFrom(t) ==
    /\ Output \in Names(t)
    /\ \A n \in Names(t) : Source(n) # "template" => n \in Names(PackageOf(n))

FirstInv ==
    /\ LegacyRuns(legacy)
    /\ basket # NoPackage => BasketsMoved
    /\ unified # NoPackage =>
         basket # NoPackage /\ \E t \in CombinedTemplates : MadeFrom(t) /\ unified = Unified(t)
    /\ \/ basket = NoPackage /\ serving = {legacy}
       \/ basket # NoPackage /\ serving = {legacy, basket}
       \/ unified # NoPackage /\ serving = {unified} /\ Verified

\* A package is never taken for none.
LEMMA IsSomePackage ==
    ASSUME NEW p, WellFormed(p)
    PROVE  p # NoPackage
<1>1. "sink" \in DOMAIN p
  BY DEF WellFormed
<1>2. DOMAIN NoPackage = {"modules"}
  BY DEF NoPackage
<1> QED
  BY <1>1, <1>2

\* Modules that are the same in two packages, with all they read, have the
\* same hash.
LEMMA HashSame ==
    ASSUME NEW p, NEW q, NEW A, A \subseteq Names(p), A \subseteq Names(q),
           \A m \in A : /\ Range(p.modules[m].inputs) \subseteq A
                        /\ q.modules[m].inputs = p.modules[m].inputs
                        /\ q.modules[m].filter = p.modules[m].filter
                        /\ Content(q, m) = Content(p, m),
           NEW n \in A
    PROVE  HashOf(q, n) = HashOf(p, n)
<1>1. ReadBy(p, n) \subseteq A /\ ReadBy(q, n) \subseteq A
  BY ReadByFacts
<1>2. /\ n \in ReadBy(p, n)
      /\ \A m \in ReadBy(p, n) : Range(p.modules[m].inputs) \cap Names(p) \subseteq ReadBy(p, n)
      /\ \A S \in SUBSET Names(p) :
           n \in S /\ (\A m \in S : Range(p.modules[m].inputs) \cap Names(p) \subseteq S)
               => ReadBy(p, n) \subseteq S
  BY ReadByFacts
<1>3. /\ n \in ReadBy(q, n)
      /\ \A m \in ReadBy(q, n) : Range(q.modules[m].inputs) \cap Names(q) \subseteq ReadBy(q, n)
      /\ \A S \in SUBSET Names(q) :
           n \in S /\ (\A m \in S : Range(q.modules[m].inputs) \cap Names(q) \subseteq S)
               => ReadBy(q, n) \subseteq S
  BY ReadByFacts
<1>4. ReadBy(q, n) \subseteq ReadBy(p, n)
  <2>1. ReadBy(p, n) \in SUBSET Names(q)
    BY <1>1
  <2>2. \A m \in ReadBy(p, n) : Range(q.modules[m].inputs) \cap Names(q) \subseteq ReadBy(p, n)
    BY <1>1, <1>2
  <2> QED
    BY <1>2, <1>3, <2>1, <2>2
<1>5. ReadBy(p, n) \subseteq ReadBy(q, n)
  <2>1. ReadBy(q, n) \in SUBSET Names(p)
    BY <1>1
  <2>2. \A m \in ReadBy(q, n) : Range(p.modules[m].inputs) \cap Names(p) \subseteq ReadBy(q, n)
    BY <1>1, <1>3
  <2> QED
    BY <1>2, <1>3, <2>1, <2>2
<1>6. ReadBy(q, n) = ReadBy(p, n)
  BY <1>4, <1>5
<1> QED
  BY <1>1, <1>6 DEF HashOf

\* Modules of the same hash are the same.
LEMMA SameByHash ==
    ASSUME NEW p, NEW q, NEW n \in Names(p), HashOf(q, n) = HashOf(p, n)
    PROVE  /\ q.modules[n].inputs = p.modules[n].inputs
           /\ q.modules[n].filter = p.modules[n].filter
           /\ Content(q, n) = Content(p, n)
<1>1. n \in ReadBy(p, n)
  BY ReadByFacts
<1>2. DOMAIN HashOf(p, n) = ReadBy(p, n) /\ DOMAIN HashOf(q, n) = ReadBy(q, n)
  BY DEF HashOf
<1>3. n \in ReadBy(q, n)
  BY <1>1, <1>2
<1>4. HashOf(q, n)[n] = HashOf(p, n)[n]
  OBVIOUS
<1> QED
  BY <1>1, <1>3, <1>4 DEF HashOf

\* The binaries that the assembler copies are there.
LEMMA UsedAreThere ==
    ASSUME LegacyRuns(legacy), BasketsMoved, NEW t \in CombinedTemplates, MadeFrom(t)
    PROVE  \A s \in {"legacy", "basket"} : Used(t, s) \subseteq Nat /\ IsFiniteSet(Used(t, s))
<1> SUFFICES ASSUME NEW s \in {"legacy", "basket"}
             PROVE  Used(t, s) \subseteq Nat /\ IsFiniteSet(Used(t, s))
  OBVIOUS
<1> DEFINE p == IF s = "basket" THEN basket ELSE legacy
<1>1. WellFormed(p)
  BY BasketAssumption DEF LegacyRuns, BasketsMoved
<1>2. Len(p.binaries) \in Nat /\ DOMAIN p.binaries = 1..Len(p.binaries)
  BY <1>1 DEF WellFormed
<1>3. ASSUME NEW n \in Names(t), Source(n) = s
      PROVE  PackageOf(n) = p /\ p.modules[n].binary \in DOMAIN p.binaries
  <2>1. PackageOf(n) = p
    BY <1>3 DEF PackageOf
  <2>2. n \in Names(p)
    BY <1>3, <2>1 DEF MadeFrom
  <2> QED
    BY <1>1, <2>1, <2>2 DEF WellFormed
<1> HIDE DEF p
<1>4. Used(t, s) \subseteq DOMAIN p.binaries
  BY <1>3 DEF Used
<1>5. IsFiniteSet(DOMAIN p.binaries)
  <2>1. IsFiniteSet(1..Len(p.binaries))
    BY <1>2, FS_Interval
  <2> QED
    BY <1>2, <2>1
<1>6. Used(t, s) \subseteq Nat
  BY <1>2, <1>4
<1>7. IsFiniteSet(Used(t, s))
  BY <1>4, <1>5, FS_Subset
<1> QED
  BY <1>6, <1>7

\* An assembled package has the modules of its template, each with the inputs,
\* the filter and the content of the package it comes from.
LEMMA UnifiedFacts ==
    ASSUME LegacyRuns(legacy), BasketsMoved, NEW t \in CombinedTemplates, MadeFrom(t),
           NEW n \in Names(t), Source(n) # "template"
    PROVE  /\ Unified(t).modules[n].inputs = PackageOf(n).modules[n].inputs
           /\ Unified(t).modules[n].filter = PackageOf(n).modules[n].filter
           /\ Content(Unified(t), n) = Content(PackageOf(n), n)
<1> DEFINE ofLegacy == Collected(legacy, Used(t, "legacy"))
           ofBasket == Collected(basket, Used(t, "basket"))
           p == PackageOf(n)
           before == IF Source(n) = "basket" THEN Cardinality(Used(t, "legacy")) ELSE 0
           place == Place(Used(t, Source(n)), p.modules[n].binary)
<1>1. WellFormed(p) /\ n \in Names(p) /\ Source(n) \in {"legacy", "basket"}
  <2>1. WellFormed(legacy) /\ WellFormed(basket)
    BY BasketAssumption DEF LegacyRuns, BasketsMoved
  <2>2. p = legacy \/ p = basket
    BY DEF PackageOf
  <2>3. n \in Names(p)
    BY DEF MadeFrom
  <2>4. Source(n) \in {"legacy", "basket"}
    BY DEF Source
  <2> QED
    BY <2>1, <2>2, <2>3, <2>4
<1>2. p.modules[n].binary \in Used(t, Source(n))
  BY DEF Used
<1>3. /\ Cardinality(Used(t, "legacy")) \in Nat /\ Len(ofLegacy) = Cardinality(Used(t, "legacy"))
      /\ Cardinality(Used(t, "basket")) \in Nat /\ Len(ofBasket) = Cardinality(Used(t, "basket"))
      /\ ofLegacy \in Seq(Range(ofLegacy)) /\ ofBasket \in Seq(Range(ofBasket))
  BY UsedAreThere, CollectedFacts
<1>4. /\ place \in 1..Cardinality(Used(t, Source(n)))
      /\ Collected(p, Used(t, Source(n)))[place] = p.binaries[p.modules[n].binary]
  BY <1>1, <1>2, UsedAreThere, CollectedFacts
<1>5. t.binaries \in Seq(Range(t.binaries))
  BY TemplateAssumption DEF WellFormed
<1>6. Unified(t).modules[n] = [p.modules[n] EXCEPT !.binary = Len(t.binaries) + before + place]
  BY DEF Unified, Copied
<1>7. p.modules[n] = [binary |-> p.modules[n].binary, filter |-> p.modules[n].filter,
                      inputs |-> p.modules[n].inputs]
  BY <1>1 DEF WellFormed
<1>8. Unified(t).binaries = t.binaries \o ofLegacy \o ofBasket
  BY DEF Unified
<1> HIDE DEF ofLegacy, ofBasket, p, before, place
<1>9. /\ Unified(t).modules[n].inputs = p.modules[n].inputs
      /\ Unified(t).modules[n].filter = p.modules[n].filter
      /\ Unified(t).modules[n].binary = Len(t.binaries) + before + place
  BY <1>6, <1>7
<1>10. PICK first : first = t.binaries \o ofLegacy
  OBVIOUS
<1>11. /\ first \in Seq(Range(first)) /\ Len(first) = Len(t.binaries) + Len(ofLegacy)
       /\ Len(t.binaries) \in Nat /\ Len(ofLegacy) \in Nat
       /\ \A i \in 1..Len(ofLegacy) : first[Len(t.binaries) + i] = ofLegacy[i]
  <2>1. ofLegacy \in Seq(Range(ofLegacy))
    BY <1>3
  <2> QED
    BY <1>5, <1>10, <2>1, Behind
<1>12. PICK all : all = first \o ofBasket
  OBVIOUS
<1>13. /\ \A i \in 1..Len(first) : all[i] = first[i]
       /\ \A i \in 1..Len(ofBasket) : all[Len(first) + i] = ofBasket[i]
  <2>1. ofBasket \in Seq(Range(ofBasket))
    BY <1>3
  <2>2. first \in Seq(Range(first))
    BY <1>11
  <2>3. /\ \A i \in 1..Len(first) : (first \o ofBasket)[i] = first[i]
        /\ \A i \in 1..Len(ofBasket) : (first \o ofBasket)[Len(first) + i] = ofBasket[i]
    BY <2>1, <2>2, Behind
  <2> QED
    BY <1>12, <2>3
<1>14. Unified(t).binaries = all
  BY <1>8, <1>10, <1>12
<1>15. ASSUME Source(n) = "legacy"
       PROVE  all[Len(t.binaries) + before + place] = p.binaries[p.modules[n].binary]
  <2>1. before = 0 /\ place \in 1..Len(ofLegacy) /\ ofLegacy[place] = p.binaries[p.modules[n].binary]
    BY <1>3, <1>4, <1>15 DEF before, ofLegacy, p, PackageOf
  <2>2. Len(t.binaries) + before + place = Len(t.binaries) + place
    BY <1>11, <2>1
  <2>3. Len(t.binaries) + place \in 1..Len(first)
    BY <1>11, <2>1
  <2>4. all[Len(t.binaries) + place] = p.binaries[p.modules[n].binary]
    BY <1>11, <1>13, <2>1, <2>3
  <2> QED
    BY <2>2, <2>4
<1>16. ASSUME Source(n) = "basket"
       PROVE  all[Len(t.binaries) + before + place] = p.binaries[p.modules[n].binary]
  <2>1. /\ before = Len(ofLegacy) /\ place \in 1..Len(ofBasket)
        /\ ofBasket[place] = p.binaries[p.modules[n].binary]
    BY <1>3, <1>4, <1>16 DEF before, ofBasket, p, PackageOf
  <2>2. Len(t.binaries) + before + place = Len(first) + place
    BY <1>11, <2>1
  <2>3. all[Len(first) + place] = p.binaries[p.modules[n].binary]
    BY <1>13, <2>1
  <2> QED
    BY <2>2, <2>3
<1>17. /\ Unified(t).modules[n].inputs = PackageOf(n).modules[n].inputs
       /\ Unified(t).modules[n].filter = PackageOf(n).modules[n].filter
  BY <1>9 DEF p
<1>18. Content(Unified(t), n) = Content(PackageOf(n), n)
  <2>1. Content(Unified(t), n) = p.binaries[p.modules[n].binary]
    BY <1>9, <1>14, <1>15, <1>16, <1>1 DEF Content
  <2> QED
    BY <2>1 DEF Content, p
<1> QED
  BY <1>17, <1>18


\* What makes the sources depends on the packages only.
LEMMA SourcesStay ==
    ASSUME UNCHANGED <<legacy, basket>>, NEW t
    PROVE  MadeFrom(t)' = MadeFrom(t) /\ Unified(t)' = Unified(t)
<1>1. ASSUME NEW n
      PROVE  Source(n)' = Source(n) /\ PackageOf(n)' = PackageOf(n)
  BY DEF Source, PackageOf
<1>2. ASSUME NEW s
      PROVE  Used(t, s)' = Used(t, s)
  BY <1>1 DEF Used
<1>3. ASSUME NEW n
      PROVE  Copied(t, n)' = Copied(t, n)
  BY <1>1, <1>2 DEF Copied
<1>4. MadeFrom(t)' = MadeFrom(t)
  BY <1>1 DEF MadeFrom
<1>5. Unified(t)' = Unified(t)
  <2> DEFINE modules == [n \in Names(t) |->
                           IF Source(n) = "template" THEN t.modules[n] ELSE Copied(t, n)]
             binaries == t.binaries \o Collected(legacy, Used(t, "legacy"))
                                    \o Collected(basket, Used(t, "basket"))
             copied == {n \in Names(t) : Source(n) # "template"}
             heard == {n \in copied : n \in DOMAIN PackageOf(n).told}
             told == [n \in (DOMAIN t.told \ copied) \cup heard |->
                        IF n \in heard THEN PackageOf(n).told[n] ELSE t.told[n]]
  <2>1. modules' = modules
    BY <1>1, <1>3
  <2>2. binaries' = binaries
    BY <1>2
  <2>3. copied' = copied
    BY <1>1
  <2>4. heard' = heard
    <3> HIDE DEF copied
    <3> QED
      BY <1>1, <2>3
  <2>5. told' = told
    <3> HIDE DEF copied, heard
    <3> QED
      BY <1>1, <2>3, <2>4
  <2>6. Unified(t) = [network |-> t.network, modules |-> modules, binaries |-> binaries,
                      told |-> told, sink |-> Output]
    BY DEF Unified
  <2>7. Unified(t)' = [network |-> t.network, modules |-> modules', binaries |-> binaries',
                       told |-> told', sink |-> Output]
    BY DEF Unified
  <2> HIDE DEF modules, binaries, copied, heard, told
  <2> QED
    BY <2>1, <2>2, <2>5, <2>6, <2>7
<1> QED
  BY <1>4, <1>5

LEMMA InitFirstInv == FirstInit => FirstInv
<1> SUFFICES ASSUME FirstInit PROVE FirstInv
  OBVIOUS
<1>1. LegacyRuns(legacy)
  BY LegacyAssumption DEF FirstInit, LegacyRuns
<1> QED
  BY <1>1 DEF FirstInit, FirstInv

\* Only filters of Basket maps are changed, and where readers are told.
LEMMA DisableBasketsStep ==
    ASSUME FirstInv, DisableBaskets
    PROVE  FirstInv'
<1> DEFINE Filtered(n) == IF n \in BasketMaps
                          THEN [legacy.modules[n] EXCEPT !.filter = Disabled]
                          ELSE legacy.modules[n]
<1>1. WellFormed(legacy) /\ legacy.sink = Output /\ Output \in Names(legacy)
      /\ BasketOutput \notin Names(legacy)
  BY DEF FirstInv, LegacyRuns
<1>2. legacy' = [legacy EXCEPT !.modules = [n \in Names(legacy) |-> Filtered(n)],
                               !.told = FiltersToldDisabled(legacy)]
  BY DEF DisableBaskets, Names
<1>3. legacy' = [network |-> legacy.network, modules |-> [n \in Names(legacy) |-> Filtered(n)],
                 binaries |-> legacy.binaries, told |-> FiltersToldDisabled(legacy),
                 sink |-> legacy.sink]
  <2>1. legacy = [network |-> legacy.network, modules |-> legacy.modules,
                  binaries |-> legacy.binaries, told |-> legacy.told, sink |-> legacy.sink]
    BY <1>1 DEF WellFormed
  <2> HIDE DEF Filtered
  <2> QED
    BY <1>2, <2>1
<1>4. ASSUME NEW n \in Names(legacy)
      PROVE  Filtered(n) = [binary |-> legacy.modules[n].binary,
                            filter |-> IF n \in BasketMaps THEN Disabled
                                       ELSE legacy.modules[n].filter,
                            inputs |-> legacy.modules[n].inputs]
  <2>1. legacy.modules[n] = [binary |-> legacy.modules[n].binary,
                             filter |-> legacy.modules[n].filter,
                             inputs |-> legacy.modules[n].inputs]
    BY <1>1 DEF WellFormed
  <2> QED
    BY <2>1
<1> HIDE DEF Filtered
<1>5. /\ Names(legacy') = Names(legacy) /\ legacy'.sink = Output
      /\ legacy'.binaries = legacy.binaries
      /\ legacy'.modules = [n \in Names(legacy) |-> Filtered(n)]
      /\ legacy'.told = FiltersToldDisabled(legacy)
  BY <1>1, <1>3 DEF Names
<1>6. \A n \in Names(legacy) :
        /\ legacy'.modules[n] = [binary |-> legacy.modules[n].binary,
                                 filter |-> IF n \in BasketMaps THEN Disabled
                                            ELSE legacy.modules[n].filter,
                                 inputs |-> legacy.modules[n].inputs]
  BY <1>4, <1>5
<1>7. /\ DOMAIN legacy'.told \subseteq Names(legacy)
      /\ \A n \in DOMAIN legacy'.told : legacy'.told[n] = legacy'.modules[n].filter
  <2>1. /\ DOMAIN legacy.told \subseteq Names(legacy)
        /\ \A n \in DOMAIN legacy.told : legacy.told[n] = legacy.modules[n].filter
    BY <1>1 DEF WellFormed
  <2> QED
    BY <1>5, <1>6, <2>1 DEF FiltersToldDisabled
<1>8. WellFormed(legacy')
  <2>1. /\ legacy.binaries \in Seq(Range(legacy.binaries))
        /\ \A n \in Names(legacy) : /\ legacy.modules[n].binary \in DOMAIN legacy.binaries
                                    /\ Range(legacy.modules[n].inputs) \subseteq Names(legacy)
    BY <1>1 DEF WellFormed
  <2>2. legacy' = [network |-> legacy'.network, modules |-> legacy'.modules,
                   binaries |-> legacy'.binaries, told |-> legacy'.told, sink |-> legacy'.sink]
    BY <1>3
  <2>3. legacy'.modules = [n \in Names(legacy') |-> legacy'.modules[n]]
    BY <1>5
  <2>4. \A n \in Names(legacy') :
          /\ legacy'.modules[n] = [binary |-> legacy'.modules[n].binary,
                                   filter |-> legacy'.modules[n].filter,
                                   inputs |-> legacy'.modules[n].inputs]
          /\ legacy'.modules[n].binary \in DOMAIN legacy'.binaries
          /\ Range(legacy'.modules[n].inputs) \subseteq Names(legacy')
    BY <1>5, <1>6, <2>1
  <2> QED
    BY <1>5, <1>7, <2>1, <2>2, <2>3, <2>4 DEF WellFormed
<1>9. LegacyRuns(legacy')
  <2>1. /\ \A n \in Names(legacy) \ BasketMaps : legacy.modules[n].filter # Disabled
        /\ \A n \in Names(legacy) \ ({Output} \cup BasketModules) :
              Range(legacy.modules[n].inputs) \cap ({Output} \cup BasketModules) = {}
    BY DEF FirstInv, LegacyRuns
  <2>2. \A n \in Names(legacy') \ BasketMaps : legacy'.modules[n].filter # Disabled
    BY <1>5, <1>6, <2>1
  <2>3. \A n \in Names(legacy') \ ({Output} \cup BasketModules) :
          Range(legacy'.modules[n].inputs) \cap ({Output} \cup BasketModules) = {}
    BY <1>5, <1>6, <2>1
  <2> QED
    BY <1>1, <1>5, <1>8, <2>2, <2>3 DEF LegacyRuns
<1>10. basket' = NoPackage /\ unified' = NoPackage /\ serving' = {legacy'}
  BY DEF DisableBaskets, FirstInv
<1> QED
  BY <1>9, <1>10 DEF FirstInv

\* Baskets move to a package of their own only where the old one does not read
\* them.
LEMMA StartBasketStep ==
    ASSUME FirstInv, StartBasket
    PROVE  FirstInv'
<1>1. /\ basket = NoPackage /\ basket' \in BasketPackages /\ legacy' = legacy
      /\ unified = NoPackage /\ unified' = NoPackage
      /\ serving = {legacy} /\ serving' = {legacy, basket'}
  BY DEF StartBasket, FirstInv
<1>2. basket' # NoPackage
  BY <1>1, BasketAssumption, IsSomePackage
<1>3. BasketsMoved'
  BY <1>1 DEF StartBasket, BasketsMoved
<1>4. LegacyRuns(legacy')
  BY <1>1 DEF FirstInv
<1> QED
  BY <1>1, <1>2, <1>3, <1>4 DEF FirstInv

LEMMA MakeUnifiedStep ==
    ASSUME FirstInv, MakeUnified
    PROVE  FirstInv'
<1>1. /\ UNCHANGED <<legacy, basket, serving>> /\ basket # NoPackage /\ unified = NoPackage
      /\ BasketsMoved /\ LegacyRuns(legacy) /\ serving = {legacy, basket}
  BY DEF MakeUnified, FirstInv
<1>2. PICK t \in CombinedTemplates : MadeFrom(t) /\ unified' = Unified(t)
  BY DEF MakeUnified, MadeFrom
<1>3. MadeFrom(t)' /\ unified' = Unified(t)'
  BY <1>1, <1>2, SourcesStay
<1>4. BasketsMoved'
  BY <1>1 DEF BasketsMoved
<1>5. \E s \in CombinedTemplates : (MadeFrom(s) /\ unified = Unified(s))'
  BY <1>3
<1>6. LegacyRuns(legacy')
  BY <1>1
<1> QED
  BY <1>1, <1>4, <1>5, <1>6 DEF FirstInv

\* Neither a switch of the service nor a stutter changes a package.
LEMMA PackagesStay ==
    ASSUME FirstInv, UNCHANGED <<legacy, basket, unified>>,
           \/ serving' = serving
           \/ unified # NoPackage /\ serving' = {unified} /\ Verified
    PROVE  FirstInv'
<1>1. LegacyRuns(legacy') /\ (basket' # NoPackage => BasketsMoved')
  BY DEF FirstInv, BasketsMoved
<1>2. unified' # NoPackage =>
        basket' # NoPackage
        /\ \E t \in CombinedTemplates : (MadeFrom(t) /\ unified = Unified(t))'
  <2> SUFFICES ASSUME unified # NoPackage
               PROVE  basket # NoPackage
                      /\ \E t \in CombinedTemplates : (MadeFrom(t) /\ unified = Unified(t))'
    OBVIOUS
  <2>1. PICK t \in CombinedTemplates : MadeFrom(t) /\ unified = Unified(t)
    BY DEF FirstInv
  <2>2. MadeFrom(t)' /\ unified' = Unified(t)'
    BY <2>1, SourcesStay
  <2> QED
    BY <2>2 DEF FirstInv
<1>3. Verified => Verified'
  BY DEF Verified, SameHash
<1>4. \/ basket' = NoPackage /\ serving' = {legacy'}
      \/ basket' # NoPackage /\ serving' = {legacy', basket'}
      \/ unified' # NoPackage /\ serving' = {unified'} /\ Verified'
  BY <1>3 DEF FirstInv
<1> QED
  BY <1>1, <1>2, <1>4 DEF FirstInv

LEMMA NextFirstInv == FirstInv /\ [FirstNext]_firstVars => FirstInv'
<1> SUFFICES ASSUME FirstInv, [FirstNext]_firstVars PROVE FirstInv'
  OBVIOUS
<1>1. CASE DisableBaskets
  BY <1>1, DisableBasketsStep
<1>2. CASE StartBasket
  BY <1>2, StartBasketStep
<1>3. CASE MakeUnified
  BY <1>3, MakeUnifiedStep
<1>4. CASE Deploy
  BY <1>4, PackagesStay DEF Deploy
<1>5. CASE UNCHANGED firstVars
  BY <1>5, PackagesStay DEF firstVars
<1> QED
  BY <1>1, <1>2, <1>3, <1>4, <1>5 DEF FirstNext

\* Who is in service reads what is asked of it.
LEMMA ReadOnce ==
    ASSUME FirstInv
    PROVE  DomainsReadOnce
<1> DEFINE readings == Readings
           Readers(n) == {r[1] : r \in {s \in readings : s[2] = n}}
<1>1. ASSUME NEW n
      PROVE  Readers(n) = {p \in serving : n \in Read(p)}
  <2>1. ASSUME NEW p \in Readers(n) PROVE p \in serving /\ n \in Read(p)
    <3>1. PICK r \in readings : r[2] = n /\ p = r[1]
      OBVIOUS
    <3>2. PICK q \in serving : \E m \in Read(q) : r = <<q, m>>
      BY <3>1 DEF Readings
    <3> QED
      BY <3>1, <3>2
  <2>2. ASSUME NEW p \in serving, n \in Read(p) PROVE p \in Readers(n)
    <3>1. <<p, n>> \in readings
      BY <2>2 DEF Readings
    <3> HIDE DEF readings
    <3> QED
      BY <3>1
  <2> HIDE DEF Readers
  <2> QED
    BY <2>1, <2>2
<1> HIDE DEF Readers
<1>2. LegacyRuns(legacy) /\ (basket # NoPackage => BasketsMoved)
  BY DEF FirstInv
<1>3. unified # NoPackage => unified.sink = Output
  <2>1. \A t : Unified(t).sink = Output
    BY DEF Unified
  <2> QED
    BY <2>1 DEF FirstInv
<1>4. ASSUME NEW n \in ReadBy(legacy, Output) \ ({Output} \cup Imported \cup BasketModules)
      PROVE  \E p : Readers(n) = {p}
  <2>1. n \in Names(legacy) /\ n \notin BasketMaps
    BY <1>2, ReadByFacts DEF LegacyRuns, BasketMaps
  <2>2. legacy.modules[n].filter # Disabled
    BY <1>2, <2>1 DEF LegacyRuns
  <2>3. n \in Read(legacy)
    BY <1>2, <2>2 DEF LegacyRuns, Read
  <2>4. CASE serving = {legacy}
    BY <1>1, <2>3, <2>4
  <2>5. CASE basket # NoPackage /\ serving = {legacy, basket}
    <3>1. n \notin Names(basket)
      <4>1. Names(basket) \subseteq BasketModules \cup Imported \cup {BasketOutput}
        BY <1>2, <2>5, BasketAssumption DEF BasketsMoved
      <4>2. n # BasketOutput
        BY <1>2, <2>1 DEF LegacyRuns
      <4> QED
        BY <4>1, <4>2
    <3>2. n \notin Read(basket)
      BY <3>1 DEF Read, ReadBy
    <3>3. Readers(n) = {legacy}
      BY <1>1, <2>3, <2>5, <3>2
    <3> QED
      BY <3>3
  <2>6. CASE unified # NoPackage /\ serving = {unified} /\ Verified
    <3>1. n \in ReadBy(unified, Output) /\ HashOf(unified, n) = HashOf(legacy, n)
      BY <2>6 DEF Verified, SameHash
    <3>2. unified.modules[n].filter # Disabled
      BY <2>1, <2>2, <3>1, SameByHash
    <3>3. unified.sink = Output
      BY <1>3, <2>6
    <3>4. n \in Read(unified)
      BY <3>1, <3>2, <3>3 DEF Read
    <3>5. Readers(n) = {unified}
      BY <1>1, <2>6, <3>4
    <3> QED
      BY <3>5
  <2> QED
    BY <2>4, <2>5, <2>6 DEF FirstInv
<1>5. ASSUME NEW n \in BasketMaps
      PROVE  /\ Readers(n) = {} \/ \E p : Readers(n) = {p}
             /\ basket # NoPackage => Readers(n) # {}
  <2>1. n \in BasketModules
    BY DEF BasketMaps
  <2>2. ASSUME basket # NoPackage
        PROVE  n \in Read(basket) /\ n \in ReadBy(basket, BasketOutput) /\ n \in Names(basket)
               /\ basket.modules[n].filter # Disabled
    <3>1. /\ n \in ReadBy(basket, BasketOutput) /\ basket.sink = BasketOutput
          /\ BasketOutput \in Names(basket)
          /\ \A m \in Names(basket) : basket.modules[m].filter # Disabled
      BY <1>2, <2>1, <2>2, BasketAssumption DEF BasketsMoved
    <3>2. n \in Names(basket)
      BY <3>1, ReadByFacts
    <3> QED
      BY <3>1, <3>2 DEF Read
  <2>3. CASE basket = NoPackage /\ serving = {legacy}
    BY <1>1, <2>3
  <2>4. CASE basket # NoPackage /\ serving = {legacy, basket}
    <3>1. n \notin Read(legacy)
      <4> SUFFICES ASSUME n \in Read(legacy) PROVE FALSE
        OBVIOUS
      <4>1. n \in Names(legacy) /\ legacy.modules[n].filter # Disabled
        BY DEF Read, ReadBy
      <4> QED
        BY <1>2, <2>4, <4>1 DEF BasketsMoved
    <3>2. Readers(n) = {basket}
      BY <1>1, <2>2, <2>4, <3>1
    <3> QED
      BY <3>2
  <2>5. CASE unified # NoPackage /\ serving = {unified} /\ Verified
    <3>1. basket # NoPackage
      BY <2>5 DEF FirstInv
    <3>2. n \in ReadBy(unified, Output) /\ HashOf(unified, n) = HashOf(basket, n)
      BY <2>1, <2>2, <2>5, <3>1 DEF Verified, SameHash
    <3>3. unified.modules[n].filter # Disabled
      BY <2>2, <3>1, <3>2, SameByHash
    <3>4. unified.sink = Output
      BY <1>3, <2>5
    <3>5. n \in Read(unified)
      BY <3>2, <3>3, <3>4 DEF Read
    <3>6. Readers(n) = {unified}
      BY <1>1, <2>5, <3>5
    <3> QED
      BY <3>6
  <2> QED
    BY <2>3, <2>4, <2>5 DEF FirstInv
<1>6. \A n \in ReadBy(legacy, Output) \ ({Output} \cup Imported \cup BasketModules) :
        Cardinality(Readers(n)) = 1
  BY <1>4, FS_Singleton
<1>7. \A n \in BasketMaps : /\ Cardinality(Readers(n)) <= 1
                            /\ basket # NoPackage => Readers(n) # {}
  <2> SUFFICES ASSUME NEW n \in BasketMaps
               PROVE  /\ Cardinality(Readers(n)) <= 1
                      /\ basket # NoPackage => Readers(n) # {}
    OBVIOUS
  <2>1. CASE Readers(n) = {}
    <3>1. Cardinality(Readers(n)) = 0
      BY <2>1, FS_EmptySet
    <3> QED
      BY <1>5, <3>1
  <2>2. CASE \E p : Readers(n) = {p}
    <3>1. Cardinality(Readers(n)) = 1
      BY <2>2, FS_Singleton
    <3> QED
      BY <1>5, <3>1
  <2> QED
    BY <1>5, <2>1, <2>2
<1> QED
  BY <1>6, <1>7 DEF DomainsReadOnce, Readers

\* Copied modules verify, as long as the imported ones are the same and the
\* template has them all.
LEMMA AssembledVerifies ==
    ASSUME FirstInv
    PROVE  FailsOnlyForItsInputs
<1> SUFFICES ASSUME unified # NoPackage, SameImports, TemplateComplete
             PROVE  Verified
  BY DEF FailsOnlyForItsInputs
<1>1. LegacyRuns(legacy) /\ basket # NoPackage /\ BasketsMoved
  BY DEF FirstInv
<1>2. PICK t \in CombinedTemplates : MadeFrom(t) /\ unified = Unified(t)
  BY DEF FirstInv
<1>3. ASSUME NEW n \in Imported
      PROVE  HashOf(unified, n) = HashOf(legacy, n) /\ HashOf(unified, n) = HashOf(basket, n)
  BY DEF SameImports
<1>4. Names(unified) = Names(t)
  BY <1>2 DEF Unified, Names
<1>5. ReadBy(unified, Output) \subseteq Names(t)
  BY <1>4 DEF ReadBy
<1>6. ASSUME NEW n \in ReadBy(legacy, Output) \ ({Output} \cup BasketModules)
      PROVE  SameHash(legacy, n)
  <2> DEFINE A == ReadBy(legacy, Output) \ ({Output} \cup BasketModules)
  <2>1. A \subseteq Names(legacy) /\ A \subseteq ReadBy(unified, Output)
    BY <1>1, ReadByFacts DEF LegacyRuns, TemplateComplete
  <2>2. ASSUME NEW m \in A PROVE Range(legacy.modules[m].inputs) \subseteq A
    <3>1. Range(legacy.modules[m].inputs) \subseteq Names(legacy)
      BY <1>1, <2>1 DEF LegacyRuns, WellFormed
    <3>2. Range(legacy.modules[m].inputs) \cap ({Output} \cup BasketModules) = {}
      BY <1>1, <2>1 DEF LegacyRuns
    <3>3. Range(legacy.modules[m].inputs) \cap Names(legacy) \subseteq ReadBy(legacy, Output)
      BY <1>1, ReadByFacts DEF LegacyRuns
    <3> QED
      BY <3>1, <3>2, <3>3
  <2>3. ASSUME NEW m \in A
        PROVE  /\ unified.modules[m].inputs = legacy.modules[m].inputs
               /\ unified.modules[m].filter = legacy.modules[m].filter
               /\ Content(unified, m) = Content(legacy, m)
    <3>1. m \in Names(legacy) /\ m \in Names(t)
      BY <1>5, <2>1
    <3>2. CASE m \in Imported
      BY <1>3, <3>1, <3>2, SameByHash
    <3>3. CASE m \notin Imported
      <4>1. Source(m) = "legacy" /\ PackageOf(m) = legacy
        BY <3>1, <3>3 DEF Source, PackageOf
      <4> QED
        BY <1>1, <1>2, <3>1, <4>1, UnifiedFacts
    <3> QED
      BY <3>2, <3>3
  <2>4. A \subseteq Names(unified) /\ n \in A
    BY <1>4, <1>5, <2>1
  <2> HIDE DEF A
  <2>5. HashOf(unified, n) = HashOf(legacy, n)
    BY <2>1, <2>2, <2>3, <2>4, HashSame
  <2> QED
    BY <2>1, <2>4, <2>5 DEF SameHash
<1>7. ASSUME NEW n \in ReadBy(basket, BasketOutput) \cap BasketModules
      PROVE  SameHash(basket, n)
  <2> DEFINE A == ReadBy(basket, BasketOutput) \ {BasketOutput}
  <2>1. /\ WellFormed(basket) /\ BasketOutput \in Names(basket)
        /\ Names(basket) \subseteq BasketModules \cup Imported \cup {BasketOutput}
        /\ \A m \in Names(basket) : BasketOutput \notin Range(basket.modules[m].inputs)
    BY <1>1, BasketAssumption DEF BasketsMoved
  <2>2. A \subseteq Names(basket) /\ A \subseteq ReadBy(unified, Output)
    BY <2>1, ReadByFacts DEF TemplateComplete
  <2>3. ASSUME NEW m \in A PROVE Range(basket.modules[m].inputs) \subseteq A
    <3>1. Range(basket.modules[m].inputs) \subseteq Names(basket)
      BY <2>1, <2>2 DEF WellFormed
    <3>2. Range(basket.modules[m].inputs) \cap Names(basket) \subseteq ReadBy(basket, BasketOutput)
      BY <2>1, ReadByFacts
    <3> QED
      BY <2>1, <2>2, <3>1, <3>2
  <2>4. ASSUME NEW m \in A
        PROVE  /\ unified.modules[m].inputs = basket.modules[m].inputs
               /\ unified.modules[m].filter = basket.modules[m].filter
               /\ Content(unified, m) = Content(basket, m)
    <3>1. m \in Names(basket) /\ m \in Names(t)
      BY <1>5, <2>2
    <3>2. CASE m \in Imported
      BY <1>3, <3>1, <3>2, SameByHash
    <3>3. CASE m \notin Imported
      <4>1. m \in BasketModules /\ m # Output
        BY <2>1, <3>1, <3>3, NamesAssumption
      <4>2. Source(m) = "basket" /\ PackageOf(m) = basket
        BY <3>3, <4>1 DEF Source, PackageOf
      <4> QED
        BY <1>1, <1>2, <3>1, <4>2, UnifiedFacts
    <3> QED
      BY <3>2, <3>3
  <2>5. A \subseteq Names(unified) /\ n \in A
    BY <1>4, <1>5, <2>2, NamesAssumption
  <2> HIDE DEF A
  <2>6. HashOf(unified, n) = HashOf(basket, n)
    BY <2>2, <2>3, <2>4, <2>5, HashSame
  <2> QED
    BY <2>2, <2>5, <2>6 DEF SameHash
<1> QED
  BY <1>6, <1>7 DEF Verified

\* Copied modules tell the filter that is copied with them.
LEMMA FiltersAreTold ==
    ASSUME FirstInv
    PROVE  FiltersTold
<1>1. \A n \in DOMAIN legacy.told : legacy.told[n] = legacy.modules[n].filter
  BY DEF FirstInv, LegacyRuns, WellFormed
<1>2. ASSUME basket # NoPackage
      PROVE  \A n \in DOMAIN basket.told : basket.told[n] = basket.modules[n].filter
  BY <1>2, BasketAssumption DEF FirstInv, BasketsMoved, WellFormed
<1>3. ASSUME unified # NoPackage, NEW n \in DOMAIN unified.told
      PROVE  unified.told[n] = unified.modules[n].filter
  <2>1. LegacyRuns(legacy) /\ basket # NoPackage /\ BasketsMoved
    BY <1>3 DEF FirstInv
  <2>2. PICK t \in CombinedTemplates : MadeFrom(t) /\ unified = Unified(t)
    BY <1>3 DEF FirstInv
  <2> DEFINE copied == {m \in Names(t) : Source(m) # "template"}
             heard == {m \in copied : m \in DOMAIN PackageOf(m).told}
  <2>3. unified.told = [m \in (DOMAIN t.told \ copied) \cup heard |->
                          IF m \in heard THEN PackageOf(m).told[m] ELSE t.told[m]]
    BY <2>2 DEF Unified
  <2>4. CASE n \in heard
    <3>1. unified.modules[n].filter = PackageOf(n).modules[n].filter
      BY <2>1, <2>2, <2>4, UnifiedFacts
    <3>2. PackageOf(n).told[n] = PackageOf(n).modules[n].filter
      BY <1>1, <1>2, <2>1, <2>4 DEF PackageOf
    <3>3. unified.told[n] = PackageOf(n).told[n]
      BY <2>3, <2>4
    <3> QED
      BY <3>1, <3>2, <3>3
  <2>5. CASE n \notin heard
    <3>1. n \in DOMAIN t.told /\ n \notin copied /\ unified.told[n] = t.told[n]
      BY <1>3, <2>3, <2>5
    <3>2. n \in Names(t) /\ t.told[n] = t.modules[n].filter
      BY <3>1, TemplateAssumption DEF WellFormed
    <3>3. Source(n) = "template"
      BY <3>1, <3>2
    <3>4. unified.modules[n] = t.modules[n]
      BY <2>2, <3>2, <3>3 DEF Unified
    <3> QED
      BY <3>1, <3>2, <3>4
  <2> QED
    BY <2>4, <2>5
<1>4. \A p \in serving \cup ({unified} \ {NoPackage}) :
        \/ p = legacy
        \/ p = basket /\ basket # NoPackage
        \/ p = unified /\ unified # NoPackage
  BY DEF FirstInv
<1> QED
  BY <1>1, <1>2, <1>3, <1>4 DEF FiltersTold

THEOREM FirstInvariance == FirstSpec => []FirstInv
<1> QED
  BY InitFirstInv, NextFirstInv, PTL DEF FirstSpec

(***************************************************************************)
(* Whatever packages and templates there are: no log is read by two        *)
(* packages in service and no domain stops being read; an assembled        *)
(* package fails its verification only for other imports or a template     *)
(* without a module that runs; and the filters told are those in force.    *)
(***************************************************************************)
THEOREM FirstPackagesAlwaysAgree == FirstSpec => []FirstPackagesAgree
<1>1. FirstInv => FirstPackagesAgree
  BY ReadOnce, AssembledVerifies, FiltersAreTold DEF FirstPackagesAgree
<1> QED
  BY <1>1, FirstInvariance, PTL
=============================================================================
